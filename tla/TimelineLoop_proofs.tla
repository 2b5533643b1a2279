-------------------------- MODULE TimelineLoop_proofs --------------------------
(***************************************************************************)
(* Theorems about the loops that derive a timeline, for logs of any length *)
(* and any times.  A log is finite and its walk is a function on numbers,  *)
(* so what a loop computes is shown by going from one number to the next   *)
(* (Upto): first the types of its locals and how they bound each other,    *)
(* then what each of them stands for in the definitions of Timeline.       *)
(***************************************************************************)
EXTENDS TimelineLoop, FiniteSetTheorems, WellFoundedInduction, TLAPS

IsLog(L) ==
    /\ DOMAIN L \subseteq 1..MaxSeq
    /\ DOMAIN L # {}
    /\ L \in [DOMAIN L -> Event]

LogOK ==
    /\ DOMAIN log \subseteq 1..MaxSeq
    /\ log \in [DOMAIN log -> Event]
    /\ now \in Nat
-----------------------------------------------------------------------------
(* Numbers.                                                                *)

LEMMA Division ==
    ASSUME NEW x \in Nat
    PROVE  /\ x \div Second \in Nat
           /\ x = (Second * (x \div Second)) + (x % Second)
           /\ x % Second \in 0..(Second - 1)
BY SecondAssumption

LEMMA RoundsDown ==
    ASSUME NEW x \in Nat, NEW y \in Nat, x <= y
    PROVE  x \div Second <= y \div Second
BY SecondAssumption

LEMMA RoundsBelow ==
    ASSUME NEW x \in Nat, NEW y \in Nat, x < y, WholeSeconds(y)
    PROVE  x \div Second <= y \div Second - 1
BY SecondAssumption DEF WholeSeconds

LEMMA WholeZero == WholeSeconds(0)
BY SecondAssumption DEF WholeSeconds

LEMMA WholeDifference ==
    ASSUME NEW x \in Nat, NEW y \in Nat, x <= y, WholeSeconds(x), WholeSeconds(y)
    PROVE  WholeSeconds(y - x)
<1> DEFINE i == x \div Second
           j == y \div Second
<1>1. x = Second * i /\ y = Second * j /\ i \in Nat /\ j \in Nat
  <2>1. i \in Nat /\ x = (Second * i) + (x % Second)
    BY Division
  <2>2. j \in Nat /\ y = (Second * j) + (y % Second)
    BY Division
  <2>3. Second * i \in Nat /\ Second * j \in Nat
    BY <2>1, <2>2, SecondAssumption
  <2> HIDE DEF i, j
  <2> QED BY <2>1, <2>2, <2>3 DEF WholeSeconds
<1> HIDE DEF i, j
<1>2. y - x = Second * (j - i) /\ j - i \in Int
  BY <1>1, SecondAssumption
<1> DEFINE z == y - x
           k == (j - i) - z \div Second
           r == z % Second
<1>3. z \in Nat /\ z \div Second \in Nat /\ r \in 0..(Second - 1)
  <2>1. z \in Nat
    OBVIOUS
  <2> HIDE DEF z
  <2> QED BY <2>1, Division
<1>4. z = (Second * (z \div Second)) + r
  <2> HIDE DEF z
  <2> QED BY <1>3, Division
<1>5. Second * k = r /\ k \in Int
  <2> DEFINE m == j - i
             q == z \div Second
  <2>1. m \in Int /\ q \in Int /\ z = Second * m
    BY <1>2, <1>3
  <2>2. z = (Second * q) + r
    BY <1>4
  <2> HIDE DEF m, q, z, r
  <2>3. Second * (m - q) = (Second * m) - (Second * q)
    BY <2>1, SecondAssumption
  <2>4. Second * q \in Int /\ Second * m \in Int
    BY <2>1, SecondAssumption
  <2>5. Second * (m - q) = r
    BY <1>3, <2>1, <2>2, <2>3, <2>4
  <2> QED BY <2>1, <2>5 DEF m, q
<1> HIDE DEF k, r
<1>6. k = 0
  <2>1. k >= 1 => Second * k >= Second
    BY <1>5, SecondAssumption
  <2>2. k <= -1 => Second * k < 0
    BY <1>5, SecondAssumption
  <2> QED BY <1>3, <1>5, <2>1, <2>2, SecondAssumption
<1>7. r = 0
  BY <1>5, <1>6, SecondAssumption
<1> QED BY <1>7 DEF WholeSeconds, r, z

(* What int() of the float sum can be. *)
LEMMA TruncatedIs ==
    ASSUME NEW sum \in Nat, NEW whole \in BOOLEAN, NEW low \in BOOLEAN
    PROVE  /\ Truncated(sum, whole, low) \in {sum \div Second, sum \div Second - 1}
           /\ whole \/ ~WholeSeconds(sum) => Truncated(sum, whole, low) = sum \div Second
BY DEF Truncated

LEMMA TruncatedCovers ==
    ASSUME NEW sum \in Nat, NEW whole \in BOOLEAN, NEW low \in BOOLEAN,
           NEW longest \in Nat, longest <= sum,
           longest = sum /\ WholeSeconds(sum) => whole
    PROVE  longest \div Second <= Truncated(sum, whole, low)
<1>1. CASE whole \/ ~WholeSeconds(sum)
  BY <1>1, TruncatedIs, RoundsDown
<1>2. CASE ~whole /\ WholeSeconds(sum)
  <2>1. longest < sum
    BY <1>2
  <2>2. longest \div Second <= sum \div Second - 1
    BY <1>2, <2>1, RoundsBelow
  <2>3. sum \div Second \in Nat /\ longest \div Second \in Nat
    BY Division
  <2> QED BY <2>2, <2>3, TruncatedIs
<1> QED BY <1>1, <1>2

(* A set of numbers has a least one. *)
LEMMA NatLeast ==
    ASSUME NEW T \in SUBSET Nat, T # {} PROVE \E x \in T : \A y \in T : x <= y
<1>. DEFINE R == {p \in Nat \X Nat : p[1] < p[2]}
<1>1. IsWellFoundedOn(R, Nat)
  BY NatLessThanWellFounded DEF OpToRel
<1>2. \A x, y \in Nat : <<y, x>> \in R <=> y < x
  OBVIOUS
<1>. HIDE DEF R
<1>3. PICK x \in T : \A y \in T : ~(<<y, x>> \in R)
  BY <1>1, WFMin
<1>4. ASSUME NEW y \in T PROVE x <= y
  <2>1. x \in Nat /\ y \in Nat /\ ~(<<y, x>> \in R)
    BY <1>3
  <2>2. ~(y < x)
    BY <1>2, <2>1
  <2>. QED
    BY <2>1, <2>2
<1>. QED
  BY <1>4

(* From one number to the next, up to N. *)
LEMMA Upto ==
    ASSUME NEW N \in Nat, NEW T, 0 \in T, \A n \in 1..N : n - 1 \in T => n \in T
    PROVE  \A n \in 0..N : n \in T
<1> DEFINE Bad == {n \in 0..N : n \notin T}
<1> SUFFICES ASSUME Bad # {} PROVE FALSE
  OBVIOUS
<1>1. Bad \in SUBSET Nat
  OBVIOUS
<1>2. PICK n \in Bad : \A k \in Bad : n <= k
  <2> HIDE DEF Bad
  <2> QED BY <1>1, NatLeast
<1>3. n \in 1..N /\ n - 1 \in 0..N /\ ~(n <= n - 1)
  BY <1>2
<1>4. n - 1 \in T
  BY <1>2, <1>3
<1> QED BY <1>2, <1>3, <1>4

(* The largest and the least of a set are what they are called. *)
LEMMA MaxIs ==
    ASSUME NEW S \in SUBSET Int, NEW x \in S, \A y \in S : y <= x PROVE Max(S) = x
<1>1. \A y \in S : x >= y
  OBVIOUS
<1>2. /\ Max(S) \in S
      /\ \A y \in S : Max(S) >= y
  BY <1>1, Zenon DEF Max
<1>3. Max(S) \in Int /\ x \in Int /\ Max(S) >= x /\ x >= Max(S)
  BY <1>1, <1>2
<1> QED BY <1>3

LEMMA MinIs ==
    ASSUME NEW S \in SUBSET Int, NEW x \in S, \A y \in S : x <= y PROVE Min(S) = x
<1>2. /\ Min(S) \in S
      /\ \A y \in S : Min(S) <= y
  BY Zenon DEF Min
<1>3. Min(S) \in Int /\ x \in Int /\ Min(S) <= x /\ x <= Min(S)
  BY <1>2
<1> QED BY <1>3

(* The numbers of a log have a first and a last. *)
LEMMA Ends ==
    ASSUME NEW b \in Nat, NEW D \in SUBSET (1..b), D # {}
    PROVE  /\ Min(D) \in D /\ Max(D) \in D
           /\ \A n \in D : Min(D) <= n /\ n <= Max(D)
<1>1. PICK x \in D : \A y \in D : x <= y
  BY NatLeast
<1> DEFINE G == {b - n : n \in D}
<1>2. G \in SUBSET Nat /\ G # {}
  OBVIOUS
<1>3. PICK z \in G : \A y \in G : z <= y
  <2> HIDE DEF G
  <2> QED BY <1>2, NatLeast
<1>4. PICK w \in D : z = b - w
  OBVIOUS
<1>5. ASSUME NEW n \in D PROVE n <= w
  <2>1. b - n \in G
    OBVIOUS
  <2>2. b - w <= b - n
    BY <1>3, <1>4, <2>1
  <2> QED BY <2>2
<1> QED BY <1>1, <1>5, MaxIs, MinIs

LEMMA LogEnds ==
    ASSUME NEW L, IsLog(L)
    PROVE  /\ Min(DOMAIN L) \in DOMAIN L /\ Last0(L) \in DOMAIN L
           /\ Last0(L) \in Nat \ {0} /\ Min(DOMAIN L) \in Nat \ {0}
           /\ \A n \in DOMAIN L : n \in 1..Last0(L) /\ Min(DOMAIN L) <= n
           /\ First(L) \in Event
BY Ends, BoundsAssumption DEF IsLog, Last0, First
-----------------------------------------------------------------------------
(* The walks.                                                              *)

ServerWalk(L, acc) ==
    /\ acc[0] = ServerStart(L)
    /\ \A n \in 1..Last0(L) :
         acc[n] = IF n \in DOMAIN L THEN ServerStep(acc[n - 1], L[n]) ELSE acc[n - 1]

PhoneWalk(L, acc) ==
    /\ acc[0] = PhoneStart(L)
    /\ \A n \in 1..Last0(L) :
         acc[n] = IF n \in DOMAIN L THEN PhoneStep(acc[n - 1], L[n]) ELSE acc[n - 1]

LEMMA ServerWalks ==
    ASSUME NEW L, IsLog(L)
    PROVE  \E acc : /\ ServerWalk(L, acc)
                    /\ Walk(ServerStep, ServerStart(L), L) = acc[Last0(L)]
<1> DEFINE N == Last0(L)
           start == ServerStart(L)
           Step(n, a) == IF n \in DOMAIN L THEN ServerStep(a, L[n]) ELSE a
           Def(f) == f = [n \in 0..N |-> IF n = 0 THEN start
                                         ELSE IF n \in DOMAIN L THEN ServerStep(f[n - 1], L[n])
                                         ELSE f[n - 1]]
           Part(m, f) == /\ f = [n \in 0..m |-> f[n]]
                         /\ \A n \in 0..m : f[n] = IF n = 0 THEN start ELSE Step(n, f[n - 1])
           T == {m \in 0..N : \E f : Part(m, f)}
<1>1. N \in Nat
  BY LogEnds
<1>2. 0 \in T
  <2> DEFINE f == [n \in 0..0 |-> start]
  <2> HIDE DEF start, N, Step
  <2>1. \A n \in 0..0 : n = 0
    OBVIOUS
  <2>2. f[0] = start /\ f = [n \in 0..0 |-> f[n]]
    OBVIOUS
  <2> HIDE DEF f
  <2>3. Part(0, f)
    BY <2>1, <2>2
  <2> QED BY <1>1, <2>3
<1>3. ASSUME NEW m \in 1..N, m - 1 \in T PROVE m \in T
  <2> HIDE DEF start, N, Step
  <2>1. PICK f : Part(m - 1, f)
    BY <1>3
  <2> DEFINE g == [n \in 0..m |-> IF n = m THEN Step(m, f[m - 1]) ELSE f[n]]
  <2>2. m \in Nat /\ m # 0 /\ m - 1 \in 0..m /\ m - 1 # m
    BY <1>1
  <2>3. ASSUME NEW n \in 0..m PROVE g[n] = IF n = 0 THEN start ELSE Step(n, g[n - 1])
    <3>1. CASE n = m
      BY <2>2, <3>1
    <3>2. CASE n # m
      <4>1. n \in 0..(m - 1) /\ (n # 0 => n - 1 \in 0..m /\ n - 1 # m)
        BY <2>2, <3>2
      <4>2. f[n] = IF n = 0 THEN start ELSE Step(n, f[n - 1])
        BY <2>1, <4>1
      <4> QED BY <3>2, <4>1, <4>2
    <3> QED BY <3>1, <3>2
  <2>4. g = [n \in 0..m |-> g[n]]
    OBVIOUS
  <2> HIDE DEF g
  <2>5. Part(m, g)
    BY <2>3, <2>4
  <2>6. m \in 0..N
    BY <1>1
  <2> HIDE DEF Part
  <2> QED BY <2>5, <2>6
<1>4. N \in T
  <2> HIDE DEF T, N
  <2>1. \A n \in 0..N : n \in T
    BY <1>1, <1>2, <1>3, Upto
  <2> QED BY <1>1, <2>1
<1>5. PICK f : Part(N, f)
  BY <1>4
<1>6. f = [n \in 0..N |-> IF n = 0 THEN start ELSE Step(n, f[n - 1])]
  <2> HIDE DEF start, N, Step
  <2>1. \A n \in 0..N : f[n] = IF n = 0 THEN start ELSE Step(n, f[n - 1])
    BY <1>5
  <2> QED BY <1>5, <2>1, Zenon
<1>7. Def(f)
  BY <1>6
<1> DEFINE acc == CHOOSE a : Def(a)
<1>8. Def(acc)
  <2> HIDE DEF Def
  <2> QED BY <1>7
<1>9. Walk(ServerStep, ServerStart(L), L) = acc[N]
  BY DEF Walk
<1>10. ServerWalk(L, acc)
  <2> HIDE DEF acc
  <2>1. acc = [n \in 0..N |-> IF n = 0 THEN start ELSE Step(n, acc[n - 1])]
    BY <1>8
  <2> HIDE DEF start, Step, N
  <2>2. \A n \in 0..N : acc[n] = IF n = 0 THEN start ELSE Step(n, acc[n - 1])
    BY <2>1, Zenon
  <2>3. acc[0] = start
    BY <1>1, <2>2
  <2>4. \A n \in 1..N : acc[n] = Step(n, acc[n - 1])
    BY <1>1, <2>2
  <2> QED BY <2>3, <2>4 DEF ServerWalk, start, Step, N
<1> QED BY <1>9, <1>10

LEMMA PhoneWalks ==
    ASSUME NEW L, IsLog(L)
    PROVE  \E acc : /\ PhoneWalk(L, acc)
                    /\ Walk(PhoneStep, PhoneStart(L), L) = acc[Last0(L)]
<1> DEFINE N == Last0(L)
           start == PhoneStart(L)
           Step(n, a) == IF n \in DOMAIN L THEN PhoneStep(a, L[n]) ELSE a
           Def(f) == f = [n \in 0..N |-> IF n = 0 THEN start
                                         ELSE IF n \in DOMAIN L THEN PhoneStep(f[n - 1], L[n])
                                         ELSE f[n - 1]]
           Part(m, f) == /\ f = [n \in 0..m |-> f[n]]
                         /\ \A n \in 0..m : f[n] = IF n = 0 THEN start ELSE Step(n, f[n - 1])
           T == {m \in 0..N : \E f : Part(m, f)}
<1>1. N \in Nat
  BY LogEnds
<1>2. 0 \in T
  <2> DEFINE f == [n \in 0..0 |-> start]
  <2> HIDE DEF start, N, Step
  <2>1. \A n \in 0..0 : n = 0
    OBVIOUS
  <2>2. f[0] = start /\ f = [n \in 0..0 |-> f[n]]
    OBVIOUS
  <2> HIDE DEF f
  <2>3. Part(0, f)
    BY <2>1, <2>2
  <2> QED BY <1>1, <2>3
<1>3. ASSUME NEW m \in 1..N, m - 1 \in T PROVE m \in T
  <2> HIDE DEF start, N, Step
  <2>1. PICK f : Part(m - 1, f)
    BY <1>3
  <2> DEFINE g == [n \in 0..m |-> IF n = m THEN Step(m, f[m - 1]) ELSE f[n]]
  <2>2. m \in Nat /\ m # 0 /\ m - 1 \in 0..m /\ m - 1 # m
    BY <1>1
  <2>3. ASSUME NEW n \in 0..m PROVE g[n] = IF n = 0 THEN start ELSE Step(n, g[n - 1])
    <3>1. CASE n = m
      BY <2>2, <3>1
    <3>2. CASE n # m
      <4>1. n \in 0..(m - 1) /\ (n # 0 => n - 1 \in 0..m /\ n - 1 # m)
        BY <2>2, <3>2
      <4>2. f[n] = IF n = 0 THEN start ELSE Step(n, f[n - 1])
        BY <2>1, <4>1
      <4> QED BY <3>2, <4>1, <4>2
    <3> QED BY <3>1, <3>2
  <2>4. g = [n \in 0..m |-> g[n]]
    OBVIOUS
  <2> HIDE DEF g
  <2>5. Part(m, g)
    BY <2>3, <2>4
  <2>6. m \in 0..N
    BY <1>1
  <2> HIDE DEF Part
  <2> QED BY <2>5, <2>6
<1>4. N \in T
  <2> HIDE DEF T, N
  <2>1. \A n \in 0..N : n \in T
    BY <1>1, <1>2, <1>3, Upto
  <2> QED BY <1>1, <2>1
<1>5. PICK f : Part(N, f)
  BY <1>4
<1>6. f = [n \in 0..N |-> IF n = 0 THEN start ELSE Step(n, f[n - 1])]
  <2> HIDE DEF start, N, Step
  <2>1. \A n \in 0..N : f[n] = IF n = 0 THEN start ELSE Step(n, f[n - 1])
    BY <1>5
  <2> QED BY <1>5, <2>1, Zenon
<1>7. Def(f)
  BY <1>6
<1> DEFINE acc == CHOOSE a : Def(a)
<1>8. Def(acc)
  <2> HIDE DEF Def
  <2> QED BY <1>7
<1>9. Walk(PhoneStep, PhoneStart(L), L) = acc[N]
  BY DEF Walk
<1>10. PhoneWalk(L, acc)
  <2> HIDE DEF acc
  <2>1. acc = [n \in 0..N |-> IF n = 0 THEN start ELSE Step(n, acc[n - 1])]
    BY <1>8
  <2> HIDE DEF start, Step, N
  <2>2. \A n \in 0..N : acc[n] = IF n = 0 THEN start ELSE Step(n, acc[n - 1])
    BY <2>1, Zenon
  <2>3. acc[0] = start
    BY <1>1, <2>2
  <2>4. \A n \in 1..N : acc[n] = Step(n, acc[n - 1])
    BY <1>1, <2>2
  <2> QED BY <2>3, <2>4 DEF PhoneWalk, start, Step, N
<1> QED BY <1>9, <1>10
-----------------------------------------------------------------------------
(* The locals of the server's loop.                                        *)

ServerLocals ==
    [prev : Nat, open : Nat \cup {NoTime}, ended : Nat \cup {NoTime}, elapsed : Nat,
     longest : Nat, whole : BOOLEAN, stopped : BOOLEAN,
     problems : SUBSET Problem]

\* How they bound each other: no more is credited than has passed since the
\* start, up to the end or, with an interval open, up to its beginning.
Bounded(a, from) ==
    /\ from <= a.prev
    /\ a.open # NoTime => from <= a.open /\ a.open <= a.prev
    /\ a.elapsed + (IF a.open = NoTime THEN 0 ELSE a.prev - a.open)
           <= (IF a.stopped THEN a.ended ELSE a.prev) - from
    /\ a.longest <= a.elapsed
    /\ IF a.stopped THEN a.open = NoTime /\ a.ended \in Nat /\ a.ended <= a.prev
                    ELSE a.ended = NoTime

\* The problems an event adds.
NewProblems(a, e) ==
    {q \in Problem :
        \/ q = "non_monotonic" /\ e.at < a.prev
        \/ q = "after_stop" /\ a.stopped
        \/ q = "duplicate" /\ ~a.stopped /\ e.type \in Opening /\ a.open # NoTime
        \/ q = "unexpected" /\ ~a.stopped /\ e.type \in Closing /\ a.open = NoTime}

\* What a step makes of the locals, one by one.
Stepped(a, e, b) ==
    LET at == Larger(e.at, a.prev)
        closes == ~a.stopped /\ e.type \in Closing /\ a.open # NoTime
    IN  /\ b = [prev |-> b.prev, open |-> b.open, ended |-> b.ended, elapsed |-> b.elapsed,
                longest |-> b.longest, whole |-> b.whole, stopped |-> b.stopped,
                problems |-> b.problems]
        /\ b.prev = at
        /\ b.stopped = (a.stopped \/ e.type = "stop")
        /\ b.open = IF a.stopped THEN a.open
                    ELSE IF e.type \in Opening THEN IF a.open = NoTime THEN at ELSE a.open
                    ELSE NoTime
        /\ b.ended = IF ~a.stopped /\ e.type = "stop" THEN at ELSE a.ended
        /\ b.elapsed = IF closes THEN a.elapsed + (at - a.open) ELSE a.elapsed
        /\ b.longest = IF closes THEN Larger(a.longest, at - a.open) ELSE a.longest
        /\ b.whole = IF closes THEN a.whole /\ WholeSeconds(at - a.open) ELSE a.whole
        /\ b.problems = a.problems \cup NewProblems(a, e)

LEMMA ServerSteps ==
    ASSUME NEW a \in ServerLocals, NEW e \in Event
    PROVE  Stepped(a, e, ServerStep(a, e))
<1> PICK prev \in Nat, open \in Nat \cup {NoTime}, ended \in Nat \cup {NoTime},
         elapsed \in Nat, longest \in Nat, whole \in BOOLEAN, stopped \in BOOLEAN,
         problems \in SUBSET Problem :
      a = [prev |-> prev, open |-> open, ended |-> ended, elapsed |-> elapsed,
           longest |-> longest, whole |-> whole, stopped |-> stopped, problems |-> problems]
  BY DEF ServerLocals
<1> DEFINE at == Larger(e.at, prev)
           late == IF e.at < prev THEN {"non_monotonic"} ELSE {}
           b == ServerStep(a, e)
<1> SUFFICES Stepped(a, e, b)
  OBVIOUS
<1>1. /\ a.prev = prev /\ a.open = open /\ a.ended = ended /\ a.elapsed = elapsed
      /\ a.longest = longest /\ a.whole = whole /\ a.stopped = stopped /\ a.problems = problems
      /\ e.at \in Nat /\ e.type \in EventType
  BY DEF Event
<1>2. ServerClamp(a, e) =
          [prev |-> at, open |-> open, ended |-> ended, elapsed |-> elapsed,
           longest |-> longest, whole |-> whole, stopped |-> stopped, problems |-> problems \cup late]
  <2>1. ServerClamp(a, e) = [a EXCEPT !.prev = at, !.problems = problems \cup late]
    BY <1>1 DEF ServerClamp
  <2> HIDE DEF at, late
  <2> QED BY <2>1
<1>3. /\ e.type \in Opening <=> e.type \notin Closing
      /\ e.type = "stop" => e.type \in Closing
  BY <1>1 DEF EventType, Opening, Closing
<1>4. CASE stopped
  <2>1. b = [prev |-> at, open |-> open, ended |-> ended, elapsed |-> elapsed,
             longest |-> longest, whole |-> whole, stopped |-> stopped,
             problems |-> problems \cup late \cup {"after_stop"}]
    <3> HIDE DEF at, late
    <3>1. b = [ServerClamp(a, e) EXCEPT !.problems = @ \cup {"after_stop"}]
      BY <1>1, <1>4 DEF ServerStep
    <3> QED BY <1>2, <3>1
  <2>2. late \cup {"after_stop"} = NewProblems(a, e)
    BY <1>1, <1>4 DEF NewProblems, Problem
  <2> HIDE DEF b, at, late
  <2> QED BY <1>1, <1>4, <2>1, <2>2 DEF Stepped, at
<1>5. CASE ~stopped /\ e.type \in Opening /\ open # NoTime
  <2>1. b = [prev |-> at, open |-> open, ended |-> ended, elapsed |-> elapsed,
             longest |-> longest, whole |-> whole, stopped |-> stopped,
             problems |-> problems \cup late \cup {"duplicate"}]
    <3> HIDE DEF at, late
    <3>1. b = [ServerClamp(a, e) EXCEPT !.problems = @ \cup {"duplicate"}]
      BY <1>1, <1>2, <1>5 DEF ServerStep, ServerOpen
    <3> QED BY <1>2, <3>1
  <2>2. late \cup {"duplicate"} = NewProblems(a, e)
    BY <1>1, <1>3, <1>5 DEF NewProblems, Problem
  <2> HIDE DEF b, at, late
  <2> QED BY <1>1, <1>3, <1>5, <2>1, <2>2 DEF Stepped, at
<1>6. CASE ~stopped /\ e.type \in Opening /\ open = NoTime
  <2>1. b = [prev |-> at, open |-> at, ended |-> ended, elapsed |-> elapsed,
             longest |-> longest, whole |-> whole, stopped |-> stopped,
             problems |-> problems \cup late]
    <3> HIDE DEF at, late
    <3>1. b = [ServerClamp(a, e) EXCEPT !.open = at]
      BY <1>1, <1>2, <1>6 DEF ServerStep, ServerOpen
    <3> QED BY <1>2, <3>1
  <2>2. late = NewProblems(a, e)
    BY <1>1, <1>3, <1>6 DEF NewProblems, Problem
  <2> HIDE DEF b, at, late
  <2> QED BY <1>1, <1>3, <1>6, <2>1, <2>2 DEF Stepped, at
<1>7. CASE ~stopped /\ e.type \notin Opening
  <2> DEFINE d == ServerClose(ServerClamp(a, e))
             ends == e.type = "stop"
             shut == open # NoTime
  <2>1. b = IF ends THEN [d EXCEPT !.stopped = TRUE, !.ended = at] ELSE d
    <3> HIDE DEF at, late
    <3>1. ServerClamp(a, e).prev = at
      BY <1>2
    <3> QED BY <1>1, <1>7, <3>1 DEF ServerStep
  <2>2. d = [prev |-> at, open |-> NoTime, ended |-> ended,
             elapsed |-> IF shut THEN elapsed + (at - open) ELSE elapsed,
             longest |-> IF shut THEN Larger(longest, at - open) ELSE longest,
             whole |-> IF shut THEN whole /\ WholeSeconds(at - open) ELSE whole,
             stopped |-> stopped,
             problems |-> problems \cup late \cup (IF shut THEN {} ELSE {"unexpected"})]
    <3> HIDE DEF at, late
    <3>1. CASE shut
      <4> DEFINE c == ServerClamp(a, e)
      <4> DEFINE f == ServerAdd(c, c.prev - c.open)
                 x == elapsed + (at - open)
                 y == Larger(longest, at - open)
                 z == whole /\ WholeSeconds(at - open)
                 all == problems \cup late
      <4>1. d = [f EXCEPT !.open = NoTime]
        BY <1>2, <3>1 DEF ServerClose
      <4>2. c = [prev |-> at, open |-> open, ended |-> ended, elapsed |-> elapsed,
                 longest |-> longest, whole |-> whole, stopped |-> stopped, problems |-> all]
        BY <1>2
      <4> HIDE DEF c
      <4>3. f = [prev |-> at, open |-> open, ended |-> ended, elapsed |-> x,
                 longest |-> y, whole |-> z, stopped |-> stopped, problems |-> all]
        <5>1. /\ c.prev = at /\ c.open = open /\ c.elapsed = elapsed
              /\ c.longest = longest /\ c.whole = whole
          BY <4>2
        <5>2. f = [c EXCEPT !.elapsed = x, !.longest = y, !.whole = z]
          BY <5>1 DEF ServerAdd
        <5> DEFINE g == [prev |-> at, open |-> open, ended |-> ended, elapsed |-> x,
                         longest |-> longest, whole |-> whole, stopped |-> stopped,
                         problems |-> all]
                   h == [prev |-> at, open |-> open, ended |-> ended, elapsed |-> x,
                         longest |-> y, whole |-> whole, stopped |-> stopped,
                         problems |-> all]
        <5> HIDE DEF f, x, y, z, all
        <5>3. [c EXCEPT !.elapsed = x, !.longest = y, !.whole = z] =
                  [[[c EXCEPT !.elapsed = x] EXCEPT !.longest = y] EXCEPT !.whole = z]
          OBVIOUS
        <5>4. [c EXCEPT !.elapsed = x] = g
          BY <4>2
        <5>5. [g EXCEPT !.longest = y] = h
          OBVIOUS
        <5>6. [h EXCEPT !.whole = z] =
                  [prev |-> at, open |-> open, ended |-> ended, elapsed |-> x, longest |-> y,
                   whole |-> z, stopped |-> stopped, problems |-> all]
          OBVIOUS
        <5> HIDE DEF g, h
        <5> QED BY <5>2, <5>3, <5>4, <5>5, <5>6
      <4> HIDE DEF d, f
      <4>4. d = [prev |-> at, open |-> NoTime, ended |-> ended, elapsed |-> x,
                 longest |-> y, whole |-> z, stopped |-> stopped, problems |-> all]
        <5> HIDE DEF x, y, z, all
        <5> QED BY <4>1, <4>3
      <4>5. problems \cup late \cup (IF shut THEN {} ELSE {"unexpected"}) = problems \cup late
        BY <3>1
      <4> QED BY <3>1, <4>4, <4>5
    <3>2. CASE ~shut
      <4> DEFINE c == ServerClamp(a, e)
      <4>1. c.open = open /\ c.problems = problems \cup late
        BY <1>2
      <4> HIDE DEF c
      <4>2. d = [c EXCEPT !.problems = problems \cup late \cup {"unexpected"}]
        BY <3>2, <4>1 DEF ServerClose, c
      <4> QED BY <1>2, <3>2, <4>2 DEF c
    <3> QED BY <3>1, <3>2
  <2>3. late \cup (IF shut THEN {} ELSE {"unexpected"}) = NewProblems(a, e)
    BY <1>1, <1>3, <1>7 DEF NewProblems, Problem
  <2>4. b = [prev |-> at, open |-> NoTime, ended |-> IF ends THEN at ELSE ended,
             elapsed |-> IF shut THEN elapsed + (at - open) ELSE elapsed,
             longest |-> IF shut THEN Larger(longest, at - open) ELSE longest,
             whole |-> IF shut THEN whole /\ WholeSeconds(at - open) ELSE whole,
             stopped |-> (stopped \/ ends),
             problems |-> problems \cup late \cup (IF shut THEN {} ELSE {"unexpected"})]
    <3> HIDE DEF at, late, b, d
    <3> QED BY <2>1, <2>2, <1>7
  <2> HIDE DEF b, at, late, d
  <2> QED BY <1>1, <1>3, <1>7, <2>3, <2>4 DEF Stepped, at
<1> QED BY <1>4, <1>5, <1>6, <1>7

LEMMA ServerStepBounded ==
    ASSUME NEW a \in ServerLocals, NEW e \in Event, NEW from \in Nat, Bounded(a, from)
    PROVE  ServerStep(a, e) \in ServerLocals /\ Bounded(ServerStep(a, e), from)
<1> DEFINE b == ServerStep(a, e)
           at == Larger(e.at, a.prev)
<1>1. Stepped(a, e, b)
  BY ServerSteps
<1>2. /\ a.prev \in Nat /\ a.open \in Nat \cup {NoTime} /\ a.ended \in Nat \cup {NoTime}
      /\ a.elapsed \in Nat /\ a.longest \in Nat /\ a.stopped \in BOOLEAN
      /\ a.problems \in SUBSET Problem
      /\ e.at \in Nat /\ e.type \in EventType
  BY DEF ServerLocals, Event
<1> SUFFICES b \in ServerLocals /\ Bounded(b, from)
  OBVIOUS
<1> HIDE DEF b
<1>3. at \in Nat /\ at >= a.prev
  BY <1>2 DEF Larger
<1>4. b.stopped \in BOOLEAN /\ b.problems \in SUBSET Problem
  BY <1>1, <1>2 DEF Stepped, NewProblems
<1>5. /\ e.type \in Opening <=> e.type \notin Closing
      /\ e.type = "stop" => e.type \in Closing
  BY <1>2 DEF EventType, Opening, Closing
<1>6. b.prev = at
  BY <1>1 DEF Stepped
<1> HIDE DEF at
<1>7. CASE a.stopped
  <2>1. /\ b.open = a.open /\ b.ended = a.ended /\ b.elapsed = a.elapsed
        /\ b.longest = a.longest /\ b.stopped
    BY <1>1, <1>2, <1>7 DEF Stepped
  <2>2. Bounded(b, from)
    BY <1>2, <1>3, <1>6, <1>7, <2>1 DEF Bounded
  <2> QED BY <1>1, <1>2, <1>3, <1>4, <1>6, <2>1, <2>2 DEF Stepped, ServerLocals
<1>8. CASE ~a.stopped /\ e.type \in Opening
  <2>1. /\ b.open = (IF a.open = NoTime THEN at ELSE a.open)
        /\ b.ended = NoTime /\ b.elapsed = a.elapsed
        /\ b.longest = a.longest /\ ~b.stopped
    BY <1>1, <1>2, <1>5, <1>8 DEF Stepped, at, Bounded
  <2>2. Bounded(b, from)
    BY <1>2, <1>3, <1>6, <1>8, <2>1 DEF Bounded, NoTime
  <2> QED BY <1>1, <1>2, <1>3, <1>4, <1>6, <2>1, <2>2 DEF Stepped, ServerLocals
<1>9. CASE ~a.stopped /\ e.type \in Closing
  <2> DEFINE gap == IF a.open = NoTime THEN 0 ELSE at - a.open
  <2>1. /\ b.open = NoTime
        /\ b.ended = IF e.type = "stop" THEN at ELSE NoTime
        /\ b.stopped <=> e.type = "stop"
    BY <1>1, <1>2, <1>5, <1>9 DEF Stepped, at, Bounded
  <2>2. gap \in Nat /\ (a.open = NoTime \/ gap = at - a.open)
    BY <1>2, <1>3, <1>9 DEF Bounded, NoTime
  <2>3. b.elapsed = a.elapsed + gap /\ b.longest \in {a.longest, gap}
    BY <1>1, <1>2, <1>9 DEF Stepped, at, Larger
  <2> HIDE DEF gap
  <2>4. Bounded(b, from)
    <3>1. a.elapsed + gap <= at - from /\ from <= at /\ a.longest <= a.elapsed
      <4>1. a.open = NoTime => gap = 0
        BY DEF gap
      <4>2. a.elapsed + (IF a.open = NoTime THEN 0 ELSE a.prev - a.open) <= a.prev - from
        BY <1>9 DEF Bounded
      <4>3. from <= a.prev /\ a.longest <= a.elapsed
        BY DEF Bounded
      <4> QED BY <1>2, <1>3, <2>2, <4>1, <4>2, <4>3 DEF NoTime
    <3>2. b.elapsed <= at - from /\ b.longest <= b.elapsed
      BY <1>2, <2>2, <2>3, <3>1
    <3>3. b.elapsed \in Nat
      BY <1>2, <2>2, <2>3
    <3> QED BY <1>3, <1>4, <1>6, <2>1, <3>1, <3>2, <3>3 DEF Bounded, NoTime
  <2>5. b.elapsed \in Nat /\ b.longest \in Nat
    BY <1>2, <2>2, <2>3
  <2> QED BY <1>1, <1>2, <1>3, <1>4, <1>6, <2>1, <2>4, <2>5 DEF Stepped, ServerLocals
<1> QED BY <1>2, <1>5, <1>7, <1>8, <1>9

(* Every prefix of the walk is bounded. *)
LEMMA ServerWalkBounded ==
    ASSUME NEW L, IsLog(L), NEW acc, ServerWalk(L, acc)
    PROVE  \A n \in 0..Last0(L) : acc[n] \in ServerLocals /\ Bounded(acc[n], First(L).at)
<1> DEFINE N == Last0(L)
           T == {n \in 0..N : acc[n] \in ServerLocals /\ Bounded(acc[n], First(L).at)}
<1>1. N \in Nat /\ First(L) \in Event
  BY LogEnds
<1>2. 0 \in T
  <2>1. First(L).at \in Nat
    BY <1>1 DEF Event
  <2>2. ServerStart(L) \in ServerLocals /\ Bounded(ServerStart(L), First(L).at)
    BY <2>1 DEF ServerStart, ServerLocals, Bounded, NoTime, Problem
  <2> QED BY <1>1, <2>2 DEF ServerWalk
<1>3. ASSUME NEW n \in 1..N, n - 1 \in T PROVE n \in T
  <2>1. acc[n] = IF n \in DOMAIN L THEN ServerStep(acc[n - 1], L[n]) ELSE acc[n - 1]
    BY DEF ServerWalk
  <2>2. n \in DOMAIN L => L[n] \in Event
    BY DEF IsLog
  <2>3. First(L).at \in Nat
    BY <1>1 DEF Event
  <2>4. acc[n] \in ServerLocals /\ Bounded(acc[n], First(L).at)
    BY <1>3, <2>1, <2>2, <2>3, ServerStepBounded
  <2> QED BY <1>1, <2>4
<1>4. \A n \in 0..N : n \in T
  <2> HIDE DEF N, T
  <2> QED BY <1>1, <1>2, <1>3, Upto
<1> QED BY <1>4

(* A sum that is a whole number of seconds although not every span is has  *)
(* spans beside its longest.                                               *)
LEMMA ServerWalkRounds ==
    ASSUME NEW L, IsLog(L), NEW acc, ServerWalk(L, acc)
    PROVE  \A n \in 0..Last0(L) :
             acc[n].longest = acc[n].elapsed /\ WholeSeconds(acc[n].elapsed) => acc[n].whole
<1> DEFINE N == Last0(L)
           P(a) == a.longest = a.elapsed /\ WholeSeconds(a.elapsed) => a.whole
           T == {n \in 0..N : P(acc[n])}
<1>1. N \in Nat
  BY LogEnds
<1>2. 0 \in T
  BY <1>1 DEF ServerWalk, ServerStart
<1>3. ASSUME NEW n \in 1..N, n - 1 \in T PROVE n \in T
  <2> DEFINE a == acc[n - 1]
             b == acc[n]
  <2>1. n - 1 \in 0..N /\ n \in 0..N /\ P(a)
    BY <1>1, <1>3
  <2>2. a \in ServerLocals /\ Bounded(a, First(L).at) /\ Bounded(b, First(L).at)
    BY <2>1, ServerWalkBounded
  <2>3. CASE n \notin DOMAIN L
    BY <2>1, <2>3 DEF ServerWalk
  <2>4. CASE n \in DOMAIN L
    <3> DEFINE e == L[n]
               span == Larger(e.at, a.prev) - a.open
               closes == ~a.stopped /\ e.type \in Closing /\ a.open # NoTime
    <3>1. b = ServerStep(a, e) /\ e \in Event
      BY <2>4 DEF ServerWalk, IsLog
    <3>2. Stepped(a, e, b)
      BY <2>2, <3>1, ServerSteps
    <3>3. /\ a.elapsed \in Nat /\ a.longest \in Nat /\ a.whole \in BOOLEAN
          /\ a.longest <= a.elapsed /\ a.prev \in Nat /\ e.at \in Nat
          /\ a.open # NoTime => a.open \in Nat /\ a.open <= a.prev
      BY <2>2, <3>1 DEF ServerLocals, Bounded, Event
    <3>4. CASE ~closes
      <4>1. b.longest = a.longest /\ b.elapsed = a.elapsed /\ b.whole = a.whole
        BY <3>2, <3>4 DEF Stepped
      <4>2. P(b)
        <5> HIDE DEF a, b
        <5> QED BY <2>1, <4>1
      <4> QED BY <2>1, <4>2 DEF b
    <3>5. CASE closes
      <4>1. span \in Nat
        BY <3>3, <3>5 DEF Larger
      <4>2. /\ b.longest = Larger(a.longest, span) /\ b.elapsed = a.elapsed + span
            /\ b.whole = (a.whole /\ WholeSeconds(span))
        BY <3>2, <3>5 DEF Stepped
      <4> HIDE DEF a, b, span
      <4>3. ASSUME b.longest = b.elapsed, WholeSeconds(b.elapsed) PROVE b.whole
        <5>1. CASE span = 0
          <6>1. a.longest = a.elapsed /\ b.elapsed = a.elapsed
            BY <3>3, <4>2, <4>3, <5>1 DEF Larger
          <6> QED BY <2>1, <4>2, <4>3, <5>1, <6>1, WholeZero
        <5>2. CASE span # 0
          <6>1. a.elapsed = 0 /\ a.longest = 0 /\ b.elapsed = span
            BY <3>3, <4>1, <4>2, <4>3, <5>2 DEF Larger
          <6> QED BY <2>1, <4>2, <4>3, <6>1, WholeZero
        <5> QED BY <5>1, <5>2
      <4> QED BY <2>1, <4>3 DEF b
    <3> QED BY <3>4, <3>5
  <2> QED BY <2>3, <2>4
<1>4. \A n \in 0..N : n \in T
  <2> HIDE DEF N, T
  <2> QED BY <1>1, <1>2, <1>3, Upto
<1> QED BY <1>4

(* Times of whole seconds make spans of whole seconds. *)
LEMMA ServerWalkWhole ==
    ASSUME NEW L, IsLog(L), NEW acc, ServerWalk(L, acc),
           \A n \in DOMAIN L : WholeSeconds(L[n].at)
    PROVE  \A n \in 0..Last0(L) : /\ acc[n].whole /\ WholeSeconds(acc[n].prev)
                                  /\ acc[n].open # NoTime => WholeSeconds(acc[n].open)
<1> DEFINE N == Last0(L)
           P(a) == /\ a.whole /\ WholeSeconds(a.prev)
                   /\ a.open # NoTime => WholeSeconds(a.open)
           T == {n \in 0..N : P(acc[n])}
<1>1. N \in Nat /\ Min(DOMAIN L) \in DOMAIN L
  BY LogEnds
<1>2. 0 \in T
  BY <1>1 DEF ServerWalk, ServerStart, First
<1>3. ASSUME NEW n \in 1..N, n - 1 \in T PROVE n \in T
  <2> DEFINE a == acc[n - 1]
             b == acc[n]
  <2>1. n - 1 \in 0..N /\ n \in 0..N /\ P(a)
    BY <1>1, <1>3
  <2>2. a \in ServerLocals /\ Bounded(a, First(L).at)
    BY <2>1, ServerWalkBounded
  <2>3. CASE n \notin DOMAIN L
    BY <2>1, <2>3 DEF ServerWalk
  <2>4. CASE n \in DOMAIN L
    <3> DEFINE e == L[n]
               at == Larger(e.at, a.prev)
    <3>1. b = ServerStep(a, e) /\ e \in Event /\ WholeSeconds(e.at)
      BY <2>4 DEF ServerWalk, IsLog
    <3>2. Stepped(a, e, b)
      BY <2>2, <3>1, ServerSteps
    <3>3. /\ a.prev \in Nat /\ e.at \in Nat
          /\ a.open # NoTime => a.open \in Nat /\ a.open <= a.prev
      BY <2>2, <3>1 DEF ServerLocals, Bounded, Event
    <3>4. WholeSeconds(at) /\ at \in Nat /\ at >= a.prev
      BY <2>1, <3>1, <3>3 DEF Larger
    <3>5. a.open # NoTime => WholeSeconds(at - a.open)
      BY <2>1, <3>3, <3>4, WholeDifference
    <3>6. /\ b.prev = at /\ b.open \in {a.open, at, NoTime}
          /\ \/ b.whole = a.whole
             \/ a.open # NoTime /\ b.whole = (a.whole /\ WholeSeconds(at - a.open))
      BY <3>2 DEF Stepped
    <3> HIDE DEF a, b, at
    <3>7. P(b)
      BY <2>1, <3>4, <3>5, <3>6
    <3> QED BY <2>1, <3>7 DEF b
  <2> QED BY <2>3, <2>4
<1>4. \A n \in 0..N : n \in T
  <2> HIDE DEF N, T
  <2> QED BY <1>1, <1>2, <1>3, Upto
<1> QED BY <1>4

(* What the clamp keeps: the latest time of the events so far. *)
LEMMA ServerWalkPrev ==
    ASSUME NEW L, IsLog(L), NEW acc, ServerWalk(L, acc), NEW n \in 0..Last0(L)
    PROVE  /\ \A m \in DOMAIN L : m <= n => L[m].at <= acc[n].prev
           /\ \/ \E m \in DOMAIN L : m <= n /\ acc[n].prev = L[m].at
              \/ (\A m \in DOMAIN L : m > n) /\ acc[n].prev = First(L).at
<1> DEFINE N == Last0(L)
           Late(k) == \A m \in DOMAIN L : m <= k => L[m].at <= acc[k].prev
           Hit(k) == \E m \in DOMAIN L : m <= k /\ acc[k].prev = L[m].at
           None0(k) == (\A m \in DOMAIN L : m > k) /\ acc[k].prev = First(L).at
           T == {k \in 0..N : Late(k) /\ (Hit(k) \/ None0(k))}
<1>1. /\ N \in Nat
      /\ \A m \in DOMAIN L : m \in 1..N /\ L[m].at \in Nat /\ Min(DOMAIN L) <= m
      /\ Min(DOMAIN L) \in DOMAIN L
  BY LogEnds DEF IsLog, Event
<1>2. 0 \in T
  BY <1>1 DEF ServerWalk, ServerStart
<1>3. ASSUME NEW k \in 1..N, k - 1 \in T PROVE k \in T
  <2>1. acc[k - 1] \in ServerLocals /\ k - 1 \in 0..N
    BY <1>1, ServerWalkBounded
  <2>2. acc[k - 1].prev \in Nat
    BY <2>1 DEF ServerLocals
  <2>3. CASE k \notin DOMAIN L
    <3>1. acc[k] = acc[k - 1]
      BY <2>3 DEF ServerWalk
    <3>2. \A m \in DOMAIN L : m <= k <=> m <= k - 1
      BY <1>1, <2>3
    <3>3. \A m \in DOMAIN L : m > k <=> m > k - 1
      BY <1>1, <2>3
    <3> QED BY <1>1, <1>3, <3>1, <3>2, <3>3
  <2>4. CASE k \in DOMAIN L
    <3>1. acc[k].prev = Larger(L[k].at, acc[k - 1].prev)
      <4>1. acc[k] = ServerStep(acc[k - 1], L[k]) /\ L[k] \in Event
        BY <2>4 DEF ServerWalk, IsLog
      <4> QED BY <2>1, <4>1, ServerSteps DEF Stepped
    <3>2. /\ L[k].at \in Nat /\ acc[k].prev >= L[k].at /\ acc[k].prev >= acc[k - 1].prev
          /\ acc[k].prev \in {L[k].at, acc[k - 1].prev}
      BY <1>1, <2>2, <2>4, <3>1 DEF Larger
    <3>3. ASSUME NEW m \in DOMAIN L, m <= k PROVE L[m].at <= acc[k].prev
      <4>1. m = k \/ m <= k - 1
        BY <1>1, <3>3
      <4>2. m <= k - 1 => L[m].at <= acc[k - 1].prev
        BY <1>3
      <4> QED BY <1>1, <2>2, <3>2, <4>1, <4>2
    <3>4. CASE acc[k].prev = L[k].at
      BY <1>1, <2>4, <3>3, <3>4
    <3>5. CASE acc[k].prev = acc[k - 1].prev /\ Hit(k - 1)
      <4>1. PICK m \in DOMAIN L : m <= k - 1 /\ acc[k - 1].prev = L[m].at
        BY <3>5
      <4>2. m <= k /\ acc[k].prev = L[m].at
        BY <1>1, <3>5, <4>1
      <4> QED BY <1>1, <3>3, <4>2
    <3>6. CASE acc[k].prev = acc[k - 1].prev /\ None0(k - 1)
      <4>1. Min(DOMAIN L) > k - 1 /\ Min(DOMAIN L) <= k
        BY <1>1, <2>4, <3>6
      <4>2. Min(DOMAIN L) = k
        BY <1>1, <4>1
      <4> QED BY <1>1, <2>4, <3>3, <3>6, <4>2 DEF First
    <3> QED BY <1>3, <3>2, <3>4, <3>5, <3>6
  <2> QED BY <2>3, <2>4
<1>4. \A k \in 0..N : k \in T
  <2> HIDE DEF N, T
  <2> QED BY <1>1, <1>2, <1>3, Upto
<1> QED BY <1>4

LEMMA ClampedIs ==
    ASSUME NEW L, IsLog(L), NEW acc, ServerWalk(L, acc), NEW n \in DOMAIN L
    PROVE  Clamped(L, n) = acc[n].prev
<1> DEFINE S == {L[m].at : m \in Earlier(L, n) \cup {n}}
<1>1. \A m \in DOMAIN L : m \in 1..Last0(L) /\ L[m].at \in Nat
  BY LogEnds DEF IsLog, Event
<1>2. n \in 0..Last0(L) /\ n \in Nat
  BY <1>1
<1>3. /\ \A m \in DOMAIN L : m <= n => L[m].at <= acc[n].prev
      /\ \E m \in DOMAIN L : m <= n /\ acc[n].prev = L[m].at
  BY <1>2, ServerWalkPrev
<1>4. \A m \in DOMAIN L : m <= n <=> m \in Earlier(L, n) \cup {n}
  BY <1>1 DEF Earlier
<1>5. S \in SUBSET Int /\ acc[n].prev \in S /\ \A y \in S : y <= acc[n].prev
  BY <1>1, <1>3, <1>4 DEF Earlier
<1>6. Max(S) = acc[n].prev
  <2> HIDE DEF S
  <2> QED BY <1>5, MaxIs
<1> QED BY <1>6 DEF Clamped

(* The loop is stopped behind the first stop, and only there. *)
LEMMA ServerWalkStopped ==
    ASSUME NEW L, IsLog(L), NEW acc, ServerWalk(L, acc), NEW n \in 0..Last0(L)
    PROVE  acc[n].stopped <=> \E s \in Stops(L) : s <= n
<1> DEFINE N == Last0(L)
           T == {k \in 0..N : acc[k].stopped <=> \E s \in Stops(L) : s <= k}
<1>1. N \in Nat /\ \A m \in DOMAIN L : m \in 1..N
  BY LogEnds
<1>2. 0 \in T
  BY <1>1 DEF ServerWalk, ServerStart, Stops
<1>3. ASSUME NEW k \in 1..N, k - 1 \in T PROVE k \in T
  <2>1. acc[k - 1] \in ServerLocals /\ k - 1 \in 0..N
    BY <1>1, ServerWalkBounded
  <2>2. acc[k].stopped <=> acc[k - 1].stopped \/ k \in Stops(L)
    <3>1. CASE k \notin DOMAIN L
      BY <3>1 DEF ServerWalk, Stops
    <3>2. CASE k \in DOMAIN L
      <4>1. acc[k] = ServerStep(acc[k - 1], L[k]) /\ L[k] \in Event
        BY <3>2 DEF ServerWalk, IsLog
      <4>2. acc[k].stopped = (acc[k - 1].stopped \/ L[k].type = "stop")
        BY <2>1, <4>1, ServerSteps DEF Stepped
      <4> QED BY <3>2, <4>2 DEF Stops
    <3> QED BY <3>1, <3>2
  <2>3. \A s \in Stops(L) : s <= k <=> (s <= k - 1 \/ s = k)
    BY <1>1 DEF Stops
  <2> QED BY <1>1, <1>3, <2>2, <2>3
<1>4. \A k \in 0..N : k \in T
  <2> HIDE DEF N, T
  <2> QED BY <1>1, <1>2, <1>3, Upto
<1> QED BY <1>4

(* Behind a stop nothing is credited any more. *)
LEMMA ServerWalkFrozen ==
    ASSUME NEW L, IsLog(L), NEW acc, ServerWalk(L, acc),
           NEW s \in 0..Last0(L), acc[s].stopped, NEW n \in 0..Last0(L), s <= n
    PROVE  /\ acc[n].stopped /\ acc[n].ended = acc[s].ended
           /\ acc[n].elapsed = acc[s].elapsed /\ acc[n].longest = acc[s].longest
           /\ acc[n].whole = acc[s].whole
<1> DEFINE N == Last0(L)
           Same(k) == /\ acc[k].stopped /\ acc[k].ended = acc[s].ended
                      /\ acc[k].elapsed = acc[s].elapsed /\ acc[k].longest = acc[s].longest
                      /\ acc[k].whole = acc[s].whole
           T == {k \in 0..N : s <= k => Same(k)}
<1>1. N \in Nat /\ s \in Nat
  BY LogEnds
<1>2. 0 \in T
  BY <1>1
<1>3. ASSUME NEW k \in 1..N, k - 1 \in T PROVE k \in T
  <2>1. acc[k - 1] \in ServerLocals /\ k - 1 \in 0..N
    BY <1>1, ServerWalkBounded
  <2>2. ASSUME s <= k - 1 PROVE Same(k)
    <3>1. Same(k - 1)
      BY <1>3, <2>2
    <3>2. CASE k \notin DOMAIN L
      BY <3>1, <3>2 DEF ServerWalk
    <3>3. CASE k \in DOMAIN L
      <4>1. acc[k] = ServerStep(acc[k - 1], L[k]) /\ L[k] \in Event
        BY <3>3 DEF ServerWalk, IsLog
      <4>2. Stepped(acc[k - 1], L[k], acc[k])
        BY <2>1, <4>1, ServerSteps
      <4>3. /\ acc[k].stopped /\ acc[k].ended = acc[k - 1].ended
            /\ acc[k].elapsed = acc[k - 1].elapsed /\ acc[k].longest = acc[k - 1].longest
            /\ acc[k].whole = acc[k - 1].whole
        BY <3>1, <4>2 DEF Stepped
      <4> QED BY <3>1, <4>3
    <3> QED BY <3>2, <3>3
  <2>3. s <= k => s <= k - 1 \/ s = k
    BY <1>1
  <2> QED BY <1>1, <2>2, <2>3
<1>4. \A k \in 0..N : k \in T
  <2> HIDE DEF N, T
  <2> QED BY <1>1, <1>2, <1>3, Upto
<1> QED BY <1>4

(* Logs that agree up to a number have the same walk up to it. *)
LEMMA SamePrefix ==
    ASSUME NEW L, IsLog(L), NEW acc, ServerWalk(L, acc),
           NEW K, IsLog(K), NEW bcc, ServerWalk(K, bcc), First(L) = First(K),
           NEW j \in Nat, j <= Last0(L), j <= Last0(K),
           \A n \in 1..j : /\ n \in DOMAIN L <=> n \in DOMAIN K
                           /\ n \in DOMAIN L => L[n] = K[n]
    PROVE  acc[j] = bcc[j]
<1> DEFINE T == {k \in 0..j : acc[k] = bcc[k]}
<1>1. Last0(L) \in Nat /\ Last0(K) \in Nat
  BY LogEnds
<1>2. 0 \in T
  BY DEF ServerWalk, ServerStart
<1>3. ASSUME NEW k \in 1..j, k - 1 \in T PROVE k \in T
  <2>1. k \in 1..Last0(L) /\ k \in 1..Last0(K)
    BY <1>1
  <2>2. /\ acc[k] = IF k \in DOMAIN L THEN ServerStep(acc[k - 1], L[k]) ELSE acc[k - 1]
        /\ bcc[k] = IF k \in DOMAIN K THEN ServerStep(bcc[k - 1], K[k]) ELSE bcc[k - 1]
    BY <2>1 DEF ServerWalk
  <2>3. acc[k - 1] = bcc[k - 1]
    BY <1>3
  <2>4. acc[k] = bcc[k]
    BY <2>2, <2>3
  <2> QED BY <2>4
<1>4. \A k \in 0..j : k \in T
  <2> HIDE DEF T
  <2> QED BY <1>2, <1>3, Upto
<1> QED BY <1>4
-----------------------------------------------------------------------------
(* The phone's loop keeps the same locals.                                 *)

Shared(a) ==
    [prev |-> a.prev, open |-> a.open, elapsed |-> a.elapsed, stopped |-> a.stopped,
     ended |-> a.ended]

LEMMA PhoneStepAgrees ==
    ASSUME NEW a \in ServerLocals, NEW e \in Event, NEW from \in Nat, Bounded(a, from)
    PROVE  PhoneStep(Shared(a), e) = Shared(ServerStep(a, e))
<1> DEFINE b == ServerStep(a, e)
           at == Larger(e.at, a.prev)
           p == Shared(a)
<1>1. Stepped(a, e, b)
  BY ServerSteps
<1>2. /\ p.prev = a.prev /\ p.open = a.open /\ p.elapsed = a.elapsed
      /\ p.stopped = a.stopped /\ p.ended = a.ended
      /\ a.stopped \in BOOLEAN /\ a.elapsed \in Nat
      /\ e.type \in Opening <=> e.type \notin Closing
      /\ e.type = "stop" => e.type \in Closing
  BY DEF Shared, ServerLocals, Event, EventType, Opening, Closing
<1>3. b.prev = at
  BY <1>1 DEF Stepped
<1> SUFFICES PhoneStep(p, e) = [prev |-> b.prev, open |-> b.open, elapsed |-> b.elapsed,
                                stopped |-> b.stopped, ended |-> b.ended]
  BY DEF Shared
<1> HIDE DEF b
<1>4. CASE a.stopped
  <2>1. b.open = a.open /\ b.elapsed = a.elapsed /\ b.stopped = a.stopped /\ b.ended = a.ended
    BY <1>1, <1>4 DEF Stepped
  <2>2. PhoneStep(p, e) = [p EXCEPT !.prev = at]
    BY <1>2, <1>4 DEF PhoneStep
  <2> HIDE DEF at
  <2> QED BY <1>3, <2>1, <2>2 DEF Shared
<1>5. CASE ~a.stopped /\ e.type \in Opening
  <2> DEFINE o == IF a.open = NoTime THEN at ELSE a.open
  <2>1. b.open = o /\ b.elapsed = a.elapsed /\ b.stopped = a.stopped /\ b.ended = a.ended
    BY <1>1, <1>2, <1>5 DEF Stepped
  <2>2. PhoneStep(p, e) = [p EXCEPT !.prev = at, !.open = o]
    BY <1>2, <1>5 DEF PhoneStep
  <2> HIDE DEF at, o
  <2> QED BY <1>3, <2>1, <2>2 DEF Shared
<1>6. CASE ~a.stopped /\ e.type \notin Opening
  <2> DEFINE gap == IF a.open = NoTime THEN 0 ELSE at - a.open
  <2>1. PhoneStep(p, e) = [prev |-> at, open |-> NoTime, elapsed |-> a.elapsed + gap,
                           stopped |-> e.type = "stop",
                           ended |-> IF e.type = "stop" THEN at ELSE NoTime]
    BY <1>2, <1>6 DEF PhoneStep
  <2>2. /\ b.open = NoTime /\ b.elapsed = a.elapsed + gap
        /\ b.ended = IF e.type = "stop" THEN at ELSE NoTime
    BY <1>1, <1>2, <1>6 DEF Stepped, Bounded
  <2>3. b.stopped = (e.type = "stop")
    BY <1>1, <1>6 DEF Stepped
  <2> HIDE DEF at, gap
  <2> QED BY <1>3, <2>1, <2>2, <2>3
<1> QED BY <1>4, <1>5, <1>6

LEMMA PhoneWalkAgrees ==
    ASSUME NEW L, IsLog(L), NEW acc, ServerWalk(L, acc), NEW pcc, PhoneWalk(L, pcc)
    PROVE  \A n \in 0..Last0(L) : pcc[n] = Shared(acc[n])
<1> DEFINE N == Last0(L)
           T == {n \in 0..N : pcc[n] = Shared(acc[n])}
<1>1. N \in Nat /\ First(L) \in Event
  BY LogEnds
<1>2. 0 \in T
  <2>1. PhoneStart(L) = Shared(ServerStart(L))
    BY DEF ServerStart, PhoneStart, Shared
  <2> QED BY <1>1, <2>1 DEF ServerWalk, PhoneWalk
<1>3. ASSUME NEW n \in 1..N, n - 1 \in T PROVE n \in T
  <2>1. acc[n - 1] \in ServerLocals /\ Bounded(acc[n - 1], First(L).at)
    <3>1. n - 1 \in 0..N
      BY <1>1
    <3> QED BY <3>1, ServerWalkBounded
  <2>2. First(L).at \in Nat /\ (n \in DOMAIN L => L[n] \in Event)
    BY <1>1 DEF Event, IsLog
  <2>3. /\ acc[n] = IF n \in DOMAIN L THEN ServerStep(acc[n - 1], L[n]) ELSE acc[n - 1]
        /\ pcc[n] = IF n \in DOMAIN L THEN PhoneStep(pcc[n - 1], L[n]) ELSE pcc[n - 1]
    BY DEF ServerWalk, PhoneWalk
  <2>4. pcc[n - 1] = Shared(acc[n - 1])
    BY <1>3
  <2>5. n \in DOMAIN L => PhoneStep(Shared(acc[n - 1]), L[n]) = Shared(ServerStep(acc[n - 1], L[n]))
    BY <2>1, <2>2, PhoneStepAgrees
  <2>6. pcc[n] = Shared(acc[n])
    BY <2>3, <2>4, <2>5
  <2> QED BY <2>6
<1>4. \A n \in 0..N : n \in T
  <2> HIDE DEF N, T
  <2> QED BY <1>1, <1>2, <1>3, Upto
<1> QED BY <1>4
-----------------------------------------------------------------------------
(* What the loops return.                                                  *)

LEMMA ServerSumsAre ==
    ASSUME NEW L, IsLog(L), NEW clock \in Nat
    PROVE  \E acc :
             /\ ServerWalk(L, acc)
             /\ LET a == acc[Last0(L)]
                    span == IF ~a.stopped /\ a.open # NoTime
                            THEN Larger(clock - a.open, 0) ELSE 0
                IN  ServerSums(L, clock) =
                        [status |-> IF a.stopped THEN "completed"
                                    ELSE IF a.open # NoTime THEN "active" ELSE "paused",
                         startedAt |-> First(L).at, endedAt |-> a.ended,
                         elapsed |-> a.elapsed + span, longest |-> Larger(a.longest, span),
                         whole |-> a.whole /\ WholeSeconds(span), problems |-> a.problems]
<1>1. PICK acc : /\ ServerWalk(L, acc)
                 /\ Walk(ServerStep, ServerStart(L), L) = acc[Last0(L)]
  BY ServerWalks
<1>2. WITNESS acc
<1> QED BY <1>1 DEF ServerSums

LEMMA PhoneSumsAre ==
    ASSUME NEW L, IsLog(L), NEW clock \in Nat
    PROVE  \E pcc :
             /\ PhoneWalk(L, pcc)
             /\ LET p == pcc[Last0(L)]
                    status == IF p.stopped THEN "completed"
                              ELSE IF p.open # NoTime THEN "active" ELSE "paused"
                IN  PhoneSums(L, clock) =
                        [status |-> status, startedAt |-> First(L).at, endedAt |-> p.ended,
                         elapsed |-> p.elapsed + (IF status = "active"
                                                  THEN Larger(clock - p.open, 0) ELSE 0)]
<1>1. PICK pcc : /\ PhoneWalk(L, pcc)
                 /\ Walk(PhoneStep, PhoneStart(L), L) = pcc[Last0(L)]
  BY PhoneWalks
<1>2. WITNESS pcc
<1> QED BY <1>1 DEF PhoneSums

(* Every log that builds up is a log: numbers within the bound, each with *)
(* an event, and a clock.                                                  *)
LEMMA Logs == Spec => []LogOK
<1>1. Init => LogOK
  BY DEF Init, LogOK
<1>2. LogOK /\ [Next]_vars => LogOK'
  <2> SUFFICES ASSUME LogOK, [Next]_vars PROVE LogOK'
    OBVIOUS
  <2>1. ASSUME NEW n \in 1..MaxSeq, NEW type \in EventType, NEW at \in 0..Horizon,
               Record(n, [type |-> type, at |-> at])
        PROVE  LogOK'
    <3> DEFINE e == [type |-> type, at |-> at]
    <3>1. e \in Event
      BY BoundsAssumption DEF Event
    <3> HIDE DEF e
    <3>2. log' = [m \in DOMAIN log \cup {n} |-> IF m = n THEN e ELSE log[m]]
      BY <2>1 DEF Record, e
    <3> QED BY <2>1, <3>1, <3>2 DEF LogOK, Record
  <2>2. CASE Tick
    BY <2>2 DEF LogOK, Tick
  <2>3. CASE UNCHANGED vars
    BY <2>3 DEF LogOK, vars
  <2> QED BY <2>1, <2>2, <2>3 DEF Next
<1> QED BY <1>1, <1>2, PTL DEF Spec

LEMMA NotEmpty == LogOK /\ log # <<>> => IsLog(log)
<1> SUFFICES ASSUME LogOK, log # <<>>, DOMAIN log = {} PROVE FALSE
  BY DEF IsLog, LogOK
<1>1. log = [n \in {} |-> log[n]]
  BY DEF LogOK
<1>2. <<>> = [n \in {} |-> log[n]]
  OBVIOUS
<1> QED BY <1>1, <1>2

-----------------------------------------------------------------------------
(* Sums.  ClosedTime adds the spans in an order that is not determined; the *)
(* loop adds them in the order of the numbers.                             *)

Adds(N, h, f) ==
    /\ f \in [0..N -> Nat]
    /\ f[0] = 0
    /\ \A n \in 1..N : f[n] = f[n - 1] + h[n]

LEMMA AddsExists ==
    ASSUME NEW N \in Nat, NEW h \in [1..N -> Nat] PROVE \E f : Adds(N, h, f)
<1> DEFINE T == {m \in 0..N : \E f : Adds(m, h, f)}
<1>1. 0 \in T
  <2>1. Adds(0, h, [n \in 0..0 |-> 0])
    BY DEF Adds
  <2> QED BY <2>1
<1>2. ASSUME NEW m \in 1..N, m - 1 \in T PROVE m \in T
  <2>1. PICK f : Adds(m - 1, h, f)
    BY <1>2
  <2> DEFINE g == [n \in 0..m |-> IF n = m THEN f[m - 1] + h[m] ELSE f[n]]
  <2>2. f[m - 1] \in Nat /\ h[m] \in Nat /\ f[0] = 0 /\ f \in [0..(m - 1) -> Nat]
    BY <2>1 DEF Adds
  <2>3. ASSUME NEW n \in 0..m PROVE g[n] \in Nat
    <3>1. n # m => n \in 0..(m - 1)
      OBVIOUS
    <3> QED BY <2>2, <3>1
  <2>4. ASSUME NEW n \in 1..m PROVE g[n] = g[n - 1] + h[n]
    <3>1. n - 1 \in 0..m /\ n - 1 # m /\ n \in 0..m
      OBVIOUS
    <3>2. n # m => n \in 1..(m - 1)
      OBVIOUS
    <3>3. n # m => f[n] = f[n - 1] + h[n]
      BY <2>1, <3>2 DEF Adds
    <3> QED BY <3>1, <3>3
  <2>5. g[0] = 0
    BY <2>2
  <2>6. Adds(m, h, g)
    BY <2>3, <2>4, <2>5 DEF Adds
  <2> QED BY <2>6
<1>3. \A m \in 0..N : m \in T
  <2> HIDE DEF T
  <2> QED BY <1>1, <1>2, Upto
<1> QED BY <1>3

\* k adds what h adds, but nothing at x.
Without(N, h, k, x) ==
    /\ h \in [1..N -> Nat] /\ k \in [1..N -> Nat] /\ x \in 1..N
    /\ k[x] = 0 /\ \A n \in 1..N : n # x => k[n] = h[n]

(* One number counts for what it adds. *)
LEMMA AddsLess ==
    ASSUME NEW N \in Nat, NEW h, NEW k, NEW x, Without(N, h, k, x),
           NEW f, Adds(N, h, f), NEW g, Adds(N, k, g)
    PROVE  f[N] = h[x] + g[N]
<1> DEFINE T == {n \in 0..N : f[n] = g[n] + (IF n < x THEN 0 ELSE h[x])}
<1>0. /\ x \in 1..N /\ h[x] \in Nat /\ k[x] = 0
      /\ \A n \in 1..N : h[n] \in Nat /\ k[n] \in Nat /\ (n # x => k[n] = h[n])
  BY DEF Without
<1>1. 0 \in T
  BY <1>0 DEF Adds
<1>2. ASSUME NEW n \in 1..N, n - 1 \in T PROVE n \in T
  <2>1. /\ f[n] = f[n - 1] + h[n] /\ g[n] = g[n - 1] + k[n]
        /\ f[n - 1] \in Nat /\ g[n - 1] \in Nat
    BY DEF Adds
  <2>2. f[n - 1] = g[n - 1] + (IF n - 1 < x THEN 0 ELSE h[x])
    BY <1>2
  <2>3. CASE n = x
    BY <1>0, <2>1, <2>2, <2>3
  <2>4. CASE n # x
    <3>1. k[n] = h[n] /\ (n < x <=> n - 1 < x)
      BY <1>0, <2>4
    <3> QED BY <1>0, <2>1, <2>2, <3>1
  <2> QED BY <2>3, <2>4
<1>3. \A n \in 0..N : n \in T
  <2> HIDE DEF T
  <2> QED BY <1>1, <1>2, Upto
<1>4. N \in 0..N /\ ~(N < x) /\ g[N] \in Nat /\ h[x] \in Nat
  BY <1>0 DEF Adds
<1> QED BY <1>3, <1>4

LEMMA AddsSame ==
    ASSUME NEW N \in Nat, NEW h \in [1..N -> Nat], NEW f, Adds(N, h, f),
           NEW k \in [1..N -> Nat], NEW g, Adds(N, k, g),
           \A n \in 1..N : k[n] = h[n]
    PROVE  f[N] = g[N]
<1> DEFINE T == {n \in 0..N : f[n] = g[n]}
<1>1. 0 \in T
  BY DEF Adds
<1>2. ASSUME NEW n \in 1..N, n - 1 \in T PROVE n \in T
  BY <1>2 DEF Adds
<1>3. \A n \in 0..N : n \in T
  <2> HIDE DEF T
  <2> QED BY <1>1, <1>2, Upto
<1> QED BY <1>3

LEMMA AddsNothing ==
    ASSUME NEW N \in Nat, NEW h, NEW f, Adds(N, h, f), \A n \in 1..N : h[n] = 0
    PROVE  f[N] = 0
<1> DEFINE T == {n \in 0..N : f[n] = 0}
<1>1. 0 \in T
  BY DEF Adds
<1>2. ASSUME NEW n \in 1..N, n - 1 \in T PROVE n \in T
  <2>1. f[n] = f[n - 1] + h[n] /\ f[n - 1] = 0 /\ h[n] = 0
    BY <1>2 DEF Adds
  <2>2. f[n] = 0
    BY <2>1
  <2> QED BY <2>2
<1>3. \A n \in 0..N : n \in T
  <2> HIDE DEF T
  <2> QED BY <1>1, <1>2, Upto
<1> QED BY <1>3

(* The time in closed intervals, added from number to number. *)
LEMMA ClosedTimeIs ==
    ASSUME NEW L, IsLog(L), \A c \in Closes(L) : Span(L, c) \in Nat,
           NEW h, h = [n \in 1..Last0(L) |-> IF n \in Closes(L) THEN Span(L, n) ELSE 0],
           NEW f, Adds(Last0(L), h, f)
    PROVE  ClosedTime(L) = f[Last0(L)]
<1> DEFINE N == Last0(L)
           C == Closes(L)
           Part(s) == [n \in 1..N |-> IF n \in s THEN Span(L, n) ELSE 0]
           Total(s) == (CHOOSE t : Adds(N, Part(s), t))[N]
           S(t) == t = [s \in SUBSET C |->
                           IF s = {} THEN 0
                           ELSE LET x == CHOOSE y \in s : TRUE IN Span(L, x) + t[s \ {x}]]
           sum == CHOOSE t : S(t)
           F == [s \in SUBSET C |-> Total(s)]
<1>1. N \in Nat /\ C \subseteq 1..N
  BY LogEnds DEF Closes, Counted
<1>2. ClosedTime(L) = sum[C]
  BY DEF ClosedTime, MapThenSumSet, MapThenFoldSet
<1>3. ASSUME NEW s \in SUBSET C
      PROVE  Part(s) \in [1..N -> Nat] /\ \E t : Adds(N, Part(s), t)
  <2>1. Part(s) \in [1..N -> Nat]
    <3> SUFFICES ASSUME NEW n \in 1..N PROVE (IF n \in s THEN Span(L, n) ELSE 0) \in Nat
      OBVIOUS
    <3> HIDE DEF C
    <3>1. n \in s => Span(L, n) \in Nat
      BY DEF C
    <3> QED BY <3>1
  <2> HIDE DEF Part, N
  <2> QED BY <1>1, <2>1, AddsExists
<1>4. ASSUME NEW s \in SUBSET C, NEW x \in s
      PROVE  Total(s) = Span(L, x) + Total(s \ {x})
  <2> DEFINE t == CHOOSE v : Adds(N, Part(s), v)
             u == CHOOSE v : Adds(N, Part(s \ {x}), v)
  <2>1. Adds(N, Part(s), t) /\ Adds(N, Part(s \ {x}), u)
    <3>1. s \ {x} \in SUBSET C
      OBVIOUS
    <3> HIDE DEF Part, N, C
    <3> QED BY <1>3, <3>1
  <2>2. /\ x \in 1..N /\ Part(s)[x] = Span(L, x) /\ Part(s \ {x})[x] = 0
        /\ \A n \in 1..N : n # x => Part(s \ {x})[n] = Part(s)[n]
    <3>1. x \in 1..N
      BY <1>1
    <3> HIDE DEF N, C
    <3> QED BY <3>1
  <2>3. Part(s) \in [1..N -> Nat] /\ Part(s \ {x}) \in [1..N -> Nat]
    BY <1>3
  <2> HIDE DEF C, t, u
  <2>4. t[N] = Part(s)[x] + u[N]
    <3>1. N \in Nat
      BY <1>1
    <3>2. Without(N, Part(s), Part(s \ {x}), x)
      BY <2>2, <2>3 DEF Without
    <3> HIDE DEF Part, N
    <3> QED BY <2>1, <3>1, <3>2, AddsLess
  <2> QED BY <2>2, <2>4 DEF t, u
<1>5. Total({}) = 0
  <2>1. Adds(N, Part({}), CHOOSE t : Adds(N, Part({}), t))
    <3>1. {} \in SUBSET C
      OBVIOUS
    <3> HIDE DEF Part, N, C
    <3> QED BY <1>3, <3>1
  <2>2. \A n \in 1..N : Part({})[n] = 0
    OBVIOUS
  <2> HIDE DEF Part, N
  <2> QED BY <1>1, <2>1, <2>2, AddsNothing
<1>6. S(F)
  <2> HIDE DEF Total, C
  <2>1. ASSUME NEW s \in SUBSET C, s # {}
        PROVE  LET x == CHOOSE y \in s : TRUE IN Total(s) = Span(L, x) + F[s \ {x}]
    <3> DEFINE x == CHOOSE y \in s : TRUE
    <3>1. x \in s
      BY <2>1
    <3> HIDE DEF x
    <3>2. s \ {x} \in SUBSET C
      OBVIOUS
    <3> QED BY <1>4, <3>1, <3>2 DEF x
  <2>2. F = [s \in SUBSET C |->
                IF s = {} THEN 0
                ELSE LET x == CHOOSE y \in s : TRUE IN Span(L, x) + F[s \ {x}]]
    BY <1>5, <2>1, Zenon
  <2> QED BY <2>2
<1>7. S(sum)
  <2> HIDE DEF S, F
  <2> QED BY <1>6
<1>8. IsFiniteSet(C) /\ Cardinality(C) \in Nat
  <2>1. IsFiniteSet(1..N)
    BY <1>1, FS_Interval
  <2> HIDE DEF C
  <2> QED BY <1>1, <2>1, FS_Subset, FS_CardinalityType
<1> DEFINE M == Cardinality(C)
           T == {n \in 0..M : \A s \in SUBSET C : Cardinality(s) = n => sum[s] = Total(s)}
<1>9. ASSUME NEW s \in SUBSET C
      PROVE  IsFiniteSet(s) /\ Cardinality(s) \in 0..M /\ (Cardinality(s) = 0 <=> s = {})
  <2> HIDE DEF C
  <2> QED BY <1>8, FS_Subset, FS_CardinalityType, FS_EmptySet
<1>10. 0 \in T
  <2>1. sum[{}] = 0
    <3> HIDE DEF sum
    <3> QED BY <1>7
  <2> HIDE DEF sum, Total, C
  <2> QED BY <1>5, <1>8, <1>9, <2>1
<1>11. ASSUME NEW n \in 1..M, n - 1 \in T PROVE n \in T
  <2> SUFFICES ASSUME NEW s \in SUBSET C, Cardinality(s) = n PROVE sum[s] = Total(s)
    <3>1. n \in 0..M
      BY <1>8
    <3> HIDE DEF sum, Total, C, M
    <3> QED BY <3>1
  <2> DEFINE x == CHOOSE y \in s : TRUE
  <2>1. s # {}
    BY <1>8, <1>9
  <2>2. x \in s
    BY <2>1
  <2>3. sum[s] = Span(L, x) + sum[s \ {x}]
    <3> HIDE DEF sum, C
    <3> QED BY <1>7, <2>1
  <2> HIDE DEF x
  <2>4. Cardinality(s \ {x}) = n - 1 /\ s \ {x} \in SUBSET C
    BY <1>9, <2>2, FS_RemoveElement
  <2>5. sum[s \ {x}] = Total(s \ {x})
    <3> HIDE DEF sum, Total, C
    <3> QED BY <1>11, <2>4
  <2> HIDE DEF sum, Total, C
  <2> QED BY <1>4, <2>2, <2>3, <2>5
<1>12. sum[C] = Total(C)
  <2>1. \A n \in 0..M : n \in T
    <3> HIDE DEF T, M
    <3> QED BY <1>8, <1>10, <1>11, Upto DEF M
  <2>2. M \in 0..M
    BY <1>8
  <2> HIDE DEF sum, Total, C
  <2> QED BY <2>1, <2>2
<1>13. Total(C) = f[N]
  <2>1. h = Part(C)
    OBVIOUS
  <2>2. Adds(N, Part(C), CHOOSE t : Adds(N, Part(C), t)) /\ Part(C) \in [1..N -> Nat]
    <3>1. C \in SUBSET C
      OBVIOUS
    <3> HIDE DEF Part, N, C
    <3> QED BY <1>3, <3>1
  <2> HIDE DEF Part, N, C
  <2> QED BY <1>1, <2>1, <2>2, AddsSame DEF N
<1> QED BY <1>2, <1>12, <1>13
-----------------------------------------------------------------------------
(* What the locals of the walk stand for.                                  *)

LEMMA WalkSteps ==
    ASSUME NEW L, IsLog(L), NEW acc, ServerWalk(L, acc), NEW n \in 1..Last0(L)
    PROVE  /\ n - 1 \in 0..Last0(L) /\ acc[n - 1] \in ServerLocals
           /\ acc[n] \in ServerLocals
           /\ Bounded(acc[n - 1], First(L).at) /\ Bounded(acc[n], First(L).at)
           /\ n \notin DOMAIN L => acc[n] = acc[n - 1]
           /\ n \in DOMAIN L => L[n] \in Event /\ Stepped(acc[n - 1], L[n], acc[n])
<1>1. Last0(L) \in Nat
  BY LogEnds
<1>2. n - 1 \in 0..Last0(L) /\ n \in 0..Last0(L)
  BY <1>1
<1>3. acc[n - 1] \in ServerLocals /\ acc[n] \in ServerLocals
  BY <1>2, ServerWalkBounded
<1>4. Bounded(acc[n - 1], First(L).at) /\ Bounded(acc[n], First(L).at)
  BY <1>2, ServerWalkBounded
<1>5. n \notin DOMAIN L => acc[n] = acc[n - 1]
  BY DEF ServerWalk
<1>6. ASSUME n \in DOMAIN L PROVE L[n] \in Event /\ Stepped(acc[n - 1], L[n], acc[n])
  <2>1. L[n] \in Event /\ acc[n] = ServerStep(acc[n - 1], L[n])
    BY <1>6 DEF ServerWalk, IsLog
  <2> QED BY <1>3, <2>1, ServerSteps
<1> QED BY <1>2, <1>3, <1>4, <1>5, <1>6

Types(L) == \A n \in DOMAIN L : L[n].type \in Opening <=> L[n].type \notin Closing

LEMMA TypesOf == ASSUME NEW L, IsLog(L) PROVE Types(L)
BY DEF IsLog, Event, EventType, Opening, Closing, Types

(* An interval is open while the last event opened one. *)
LEMMA OpenIs ==
    ASSUME NEW L, IsLog(L), NEW acc, ServerWalk(L, acc), NEW n \in 0..Last0(L),
           ~acc[n].stopped
    PROVE  /\ (\A m \in DOMAIN L : n < m) => acc[n].open = NoTime
           /\ \A m \in DOMAIN L : (m <= n /\ \A k \in DOMAIN L : k <= n => k <= m)
                  => (acc[n].open # NoTime <=> L[m].type \in Opening)
<1> DEFINE N == Last0(L)
           Last(m, k) == m <= k /\ \A j \in DOMAIN L : j <= k => j <= m
           P(k) == /\ (\A m \in DOMAIN L : k < m) => acc[k].open = NoTime
                   /\ \A m \in DOMAIN L : Last(m, k) => (acc[k].open # NoTime <=> L[m].type \in Opening)
           T == {k \in 0..N : ~acc[k].stopped => P(k)}
<1>1. N \in Nat /\ \A m \in DOMAIN L : m \in 1..N
  BY LogEnds
<1>2. 0 \in T
  BY <1>1 DEF ServerWalk, ServerStart
<1>3. ASSUME NEW k \in 1..N, k - 1 \in T PROVE k \in T
  <2> SUFFICES ASSUME ~acc[k].stopped PROVE P(k)
    OBVIOUS
  <2>1. CASE k \notin DOMAIN L
    <3>1. acc[k] = acc[k - 1]
      BY <2>1, WalkSteps
    <3>2. \A m \in DOMAIN L : (m <= k <=> m <= k - 1) /\ (k < m <=> k - 1 < m)
      BY <1>1, <2>1
    <3>3. P(k - 1)
      BY <1>3, <3>1
    <3> QED BY <3>1, <3>2, <3>3
  <2>2. CASE k \in DOMAIN L
    <3>1. L[k] \in Event /\ Stepped(acc[k - 1], L[k], acc[k]) /\ acc[k - 1] \in ServerLocals
      BY <2>2, WalkSteps
    <3>2. ~acc[k - 1].stopped
      BY <3>1 DEF Stepped
    <3>3. acc[k - 1].prev \in Nat /\ L[k].at \in Nat
      BY <3>1 DEF ServerLocals, Event
    <3>4. Larger(L[k].at, acc[k - 1].prev) # NoTime
      BY <3>3 DEF Larger, NoTime
    <3>5. acc[k].open # NoTime <=> L[k].type \in Opening
      BY <3>1, <3>2, <3>4 DEF Stepped
    <3>6. \A m \in DOMAIN L : Last(m, k) => m = k
      BY <1>1, <2>2
    <3>7. ~(\A m \in DOMAIN L : k < m)
      BY <2>2
    <3> QED BY <3>5, <3>6, <3>7
  <2> QED BY <2>1, <2>2
<1>4. \A k \in 0..N : k \in T
  <2> HIDE DEF N, T
  <2> QED BY <1>1, <1>2, <1>3, Upto
<1> QED BY <1>4

LEMMA BeforeIs ==
    ASSUME NEW L, IsLog(L), NEW acc, ServerWalk(L, acc), NEW n \in DOMAIN L
    PROVE  /\ n \in Counted(L) <=> ~acc[n - 1].stopped
           /\ ~acc[n - 1].stopped => (OpenBefore(L, n) <=> acc[n - 1].open # NoTime)
<1>1. /\ Last0(L) \in Nat /\ n \in 1..Last0(L) /\ n - 1 \in 0..Last0(L)
      /\ \A m \in DOMAIN L : m \in 1..Last0(L)
  BY LogEnds
<1>2. n \in Counted(L) <=> ~acc[n - 1].stopped
  <2>1. acc[n - 1].stopped <=> \E s \in Stops(L) : s <= n - 1
    BY <1>1, ServerWalkStopped
  <2>2. \A s \in Stops(L) : s <= n - 1 <=> ~(n <= s)
    BY <1>1 DEF Stops
  <2> QED BY <2>1, <2>2 DEF Counted
<1>3. ASSUME ~acc[n - 1].stopped PROVE OpenBefore(L, n) <=> acc[n - 1].open # NoTime
  <2>1. \A m \in DOMAIN L : m \in Earlier(L, n) <=> m <= n - 1
    BY <1>1 DEF Earlier
  <2>2. CASE Earlier(L, n) = {}
    <3>1. \A m \in DOMAIN L : n - 1 < m
      BY <1>1, <2>1, <2>2
    <3> QED BY <1>1, <1>3, <2>2, <3>1, OpenIs DEF OpenBefore
  <2>3. CASE Earlier(L, n) # {}
    <3> DEFINE m == Max(Earlier(L, n))
    <3>1. m \in Earlier(L, n) /\ \A k \in Earlier(L, n) : k <= m
      <4>1. Earlier(L, n) \in SUBSET (1..Last0(L))
        BY <1>1 DEF Earlier
      <4> QED BY <1>1, <2>3, <4>1, Ends
    <3> HIDE DEF m
    <3>2. m \in DOMAIN L /\ m <= n - 1 /\ \A k \in DOMAIN L : k <= n - 1 => k <= m
      <4>1. m \in DOMAIN L
        BY <3>1 DEF Earlier
      <4> QED BY <2>1, <3>1, <4>1
    <3>3. acc[n - 1].open # NoTime <=> L[m].type \in Opening
      BY <1>1, <1>3, <3>2, OpenIs
    <3> QED BY <2>3, <3>3 DEF OpenBefore, m
  <2> QED BY <2>2, <2>3
<1> QED BY <1>2, <1>3

LEMMA OpensAre ==
    ASSUME NEW L, IsLog(L), NEW acc, ServerWalk(L, acc), NEW n \in DOMAIN L
    PROVE  /\ n \in Opens(L) <=> (/\ ~acc[n - 1].stopped /\ L[n].type \in Opening
                                  /\ acc[n - 1].open = NoTime)
           /\ n \in Closes(L) <=> (/\ ~acc[n - 1].stopped /\ L[n].type \in Closing
                                   /\ acc[n - 1].open # NoTime)
<1>1. /\ n \in Counted(L) <=> ~acc[n - 1].stopped
      /\ ~acc[n - 1].stopped => (OpenBefore(L, n) <=> acc[n - 1].open # NoTime)
  BY BeforeIs
<1>2. /\ n \in Opens(L) <=> n \in Counted(L) /\ L[n].type \in Opening /\ ~OpenBefore(L, n)
      /\ n \in Closes(L) <=> n \in Counted(L) /\ L[n].type \in Closing /\ OpenBefore(L, n)
  BY Zenon DEF Opens, Closes
<1> QED BY <1>1, <1>2

(* The open interval began with the last event that opened one. *)
LEMMA OpenedAt ==
    ASSUME NEW L, IsLog(L), NEW acc, ServerWalk(L, acc), NEW n \in 0..Last0(L),
           acc[n].open # NoTime
    PROVE  \E o \in Opens(L) : /\ o <= n /\ acc[n].open = acc[o].prev
                               /\ \A p \in Opens(L) : p <= n => p <= o
<1> DEFINE N == Last0(L)
           At(o, k) == /\ o <= k /\ acc[k].open = acc[o].prev
                       /\ \A p \in Opens(L) : p <= k => p <= o
           T == {k \in 0..N : acc[k].open # NoTime => \E o \in Opens(L) : At(o, k)}
<1>1. /\ N \in Nat /\ \A m \in DOMAIN L : m \in 1..N
      /\ Opens(L) \subseteq DOMAIN L
  BY LogEnds DEF Opens, Counted
<1>2. 0 \in T
  BY <1>1 DEF ServerWalk, ServerStart
<1>3. ASSUME NEW k \in 1..N, k - 1 \in T PROVE k \in T
  <2> SUFFICES ASSUME acc[k].open # NoTime PROVE \E o \in Opens(L) : At(o, k)
    OBVIOUS
  <2>1. ASSUME k \notin Opens(L), acc[k].open = acc[k - 1].open
        PROVE  \E o \in Opens(L) : At(o, k)
    <3>1. PICK o \in Opens(L) : At(o, k - 1)
      BY <1>3, <2>1
    <3>2. \A p \in Opens(L) : p <= k => p <= k - 1
      BY <1>1, <2>1
    <3>3. o <= k
      BY <1>1, <3>1
    <3>4. At(o, k)
      BY <2>1, <3>1, <3>2, <3>3
    <3> QED BY <3>4
  <2>2. CASE k \notin DOMAIN L
    <3>1. acc[k] = acc[k - 1]
      BY <2>2, WalkSteps
    <3> QED BY <1>1, <2>1, <2>2, <3>1
  <2>3. CASE k \in DOMAIN L
    <3>1. /\ Stepped(acc[k - 1], L[k], acc[k])
          /\ Bounded(acc[k - 1], First(L).at)
      BY <2>3, WalkSteps
    <3>2. ~acc[k - 1].stopped
      BY <3>1 DEF Stepped, Bounded
    <3>3. L[k].type \in Opening
      BY <3>1, <3>2 DEF Stepped
    <3>4. CASE acc[k - 1].open = NoTime
      <4>1. k \in Opens(L)
        BY <2>3, <3>2, <3>3, <3>4, OpensAre
      <4>2. acc[k].open = acc[k].prev
        BY <3>1, <3>2, <3>3, <3>4 DEF Stepped
      <4>3. At(k, k)
        BY <1>1, <4>2
      <4> QED BY <4>1, <4>3
    <3>5. CASE acc[k - 1].open # NoTime
      <4>1. k \notin Opens(L)
        BY <2>3, <3>5, OpensAre
      <4>2. acc[k].open = acc[k - 1].open
        BY <3>1, <3>2, <3>3, <3>5 DEF Stepped
      <4> QED BY <2>1, <4>1, <4>2
    <3> QED BY <3>4, <3>5
  <2> QED BY <2>2, <2>3
<1>4. \A k \in 0..N : k \in T
  <2> HIDE DEF N, T
  <2> QED BY <1>1, <1>2, <1>3, Upto
<1> QED BY <1>4

(* The length of an interval is what the loop adds for it. *)
LEMMA SpanIs ==
    ASSUME NEW L, IsLog(L), NEW acc, ServerWalk(L, acc), NEW n \in Closes(L)
    PROVE  /\ Span(L, n) = Larger(L[n].at, acc[n - 1].prev) - acc[n - 1].open
           /\ Span(L, n) \in Nat
<1>1. /\ n \in DOMAIN L /\ Last0(L) \in Nat /\ n \in 1..Last0(L)
      /\ \A m \in DOMAIN L : m \in 1..Last0(L)
      /\ Opens(L) \subseteq DOMAIN L
  BY LogEnds DEF Closes, Opens, Counted
<1>2. ~acc[n - 1].stopped /\ acc[n - 1].open # NoTime
  BY <1>1, OpensAre
<1>3. /\ n - 1 \in 0..Last0(L) /\ acc[n - 1] \in ServerLocals /\ L[n] \in Event
      /\ Bounded(acc[n - 1], First(L).at) /\ Stepped(acc[n - 1], L[n], acc[n])
  BY <1>1, WalkSteps
<1>4. PICK o \in Opens(L) : /\ o <= n - 1 /\ acc[n - 1].open = acc[o].prev
                            /\ \A p \in Opens(L) : p <= n - 1 => p <= o
  BY <1>2, <1>3, OpenedAt
<1>5. Max(Opens(L) \cap Earlier(L, n)) = o
  <2> DEFINE S == Opens(L) \cap Earlier(L, n)
  <2>1. \A p \in Opens(L) : p \in Int /\ (p < n <=> p <= n - 1)
    BY <1>1
  <2>2. S \in SUBSET Int /\ o \in S /\ \A p \in S : p <= o
    BY <1>1, <1>4, <2>1 DEF Earlier
  <2> HIDE DEF S
  <2> QED BY <2>2, MaxIs DEF S
<1>6. Clamped(L, n) = acc[n].prev /\ Clamped(L, o) = acc[o].prev
  BY <1>1, <1>4, ClampedIs
<1>7. acc[n].prev = Larger(L[n].at, acc[n - 1].prev)
  BY <1>3 DEF Stepped
<1>8. /\ acc[n - 1].prev \in Nat /\ acc[n - 1].open \in Nat /\ L[n].at \in Nat
      /\ acc[n - 1].open <= acc[n - 1].prev
  BY <1>2, <1>3 DEF ServerLocals, Event, Bounded
<1>9. Span(L, n) = acc[n].prev - acc[n - 1].open
  BY <1>4, <1>5, <1>6 DEF Span
<1> QED BY <1>7, <1>8, <1>9 DEF Larger

(* What closing an interval adds to the locals. *)
LEMMA ClosingAdds ==
    ASSUME NEW L, IsLog(L), NEW acc, ServerWalk(L, acc), NEW n \in 1..Last0(L)
    PROVE  /\ acc[n].elapsed = acc[n - 1].elapsed + (IF n \in Closes(L) THEN Span(L, n) ELSE 0)
           /\ acc[n].longest = IF n \in Closes(L) THEN Larger(acc[n - 1].longest, Span(L, n))
                               ELSE acc[n - 1].longest
<1>1. /\ acc[n - 1] \in ServerLocals
      /\ n \notin DOMAIN L => acc[n] = acc[n - 1]
      /\ n \in DOMAIN L => L[n] \in Event /\ Stepped(acc[n - 1], L[n], acc[n])
  BY WalkSteps
<1>2. acc[n - 1].elapsed \in Nat
  BY <1>1 DEF ServerLocals
<1>3. Closes(L) \subseteq DOMAIN L
  BY DEF Closes, Counted
<1>4. CASE n \notin DOMAIN L
  BY <1>1, <1>2, <1>3, <1>4
<1>5. CASE n \in DOMAIN L
  <2> DEFINE a == acc[n - 1]
             at == Larger(L[n].at, a.prev)
             closes == ~a.stopped /\ L[n].type \in Closing /\ a.open # NoTime
  <2>1. n \in Closes(L) <=> closes
    BY <1>5, OpensAre
  <2>2. /\ acc[n].elapsed = IF closes THEN a.elapsed + (at - a.open) ELSE a.elapsed
        /\ acc[n].longest = IF closes THEN Larger(a.longest, at - a.open) ELSE a.longest
    BY <1>1, <1>5 DEF Stepped
  <2>3. n \in Closes(L) => Span(L, n) = at - a.open
    BY SpanIs
  <2> HIDE DEF at, closes
  <2> QED BY <1>2, <2>1, <2>2, <2>3
<1> QED BY <1>4, <1>5

LEMMA ElapsedIs ==
    ASSUME NEW L, IsLog(L), NEW acc, ServerWalk(L, acc)
    PROVE  ClosedTime(L) = acc[Last0(L)].elapsed
<1> DEFINE N == Last0(L)
           h == [n \in 1..N |-> IF n \in Closes(L) THEN Span(L, n) ELSE 0]
           f == [n \in 0..N |-> acc[n].elapsed]
<1>1. N \in Nat /\ N \in 0..N
  BY LogEnds
<1>2. \A c \in Closes(L) : Span(L, c) \in Nat
  BY SpanIs
<1>3. ASSUME NEW n \in 0..N PROVE acc[n].elapsed \in Nat
  <2>1. acc[n] \in ServerLocals
    BY ServerWalkBounded
  <2> QED BY <2>1 DEF ServerLocals
<1>4. ASSUME NEW n \in 1..N PROVE f[n] = f[n - 1] + h[n]
  <2>1. acc[n].elapsed = acc[n - 1].elapsed + (IF n \in Closes(L) THEN Span(L, n) ELSE 0)
    BY ClosingAdds
  <2>2. n \in 0..N /\ n - 1 \in 0..N
    BY <1>1
  <2> HIDE DEF N
  <2> QED BY <2>1, <2>2
<1>5. f[0] = 0
  BY <1>1 DEF ServerWalk, ServerStart
<1>6. Adds(N, h, f)
  <2>1. f \in [0..N -> Nat]
    BY <1>3
  <2> HIDE DEF f, h, N
  <2> QED BY <1>4, <1>5, <2>1 DEF Adds
<1>7. ClosedTime(L) = f[N]
  <2> HIDE DEF f
  <2> QED BY <1>2, <1>6, ClosedTimeIs
<1> QED BY <1>1, <1>7

(* The longest closed interval so far. *)
LEMMA LongestIs ==
    ASSUME NEW L, IsLog(L), NEW acc, ServerWalk(L, acc), NEW n \in 0..Last0(L)
    PROVE  /\ \A c \in Closes(L) : c <= n => Span(L, c) <= acc[n].longest
           /\ \/ acc[n].longest = 0
              \/ \E c \in Closes(L) : c <= n /\ acc[n].longest = Span(L, c)
<1> DEFINE N == Last0(L)
           All(k) == \A c \in Closes(L) : c <= k => Span(L, c) <= acc[k].longest
           Hit(k) == \E c \in Closes(L) : c <= k /\ acc[k].longest = Span(L, c)
           T == {k \in 0..N : All(k) /\ (acc[k].longest = 0 \/ Hit(k))}
<1>1. N \in Nat /\ \A c \in Closes(L) : c \in 1..N /\ Span(L, c) \in Nat
  BY LogEnds, SpanIs DEF Closes, Counted
<1>2. 0 \in T
  BY <1>1 DEF ServerWalk, ServerStart
<1>3. ASSUME NEW k \in 1..N, k - 1 \in T PROVE k \in T
  <2>1. acc[k].longest = IF k \in Closes(L) THEN Larger(acc[k - 1].longest, Span(L, k))
                         ELSE acc[k - 1].longest
    BY ClosingAdds
  <2>2. acc[k - 1].longest \in Nat
    <3>1. k - 1 \in 0..N
      BY <1>1
    <3>2. acc[k - 1] \in ServerLocals
      BY <3>1, ServerWalkBounded
    <3> QED BY <3>2 DEF ServerLocals
  <2>3. \A c \in Closes(L) : c <= k <=> (c <= k - 1 \/ c = k)
    BY <1>1
  <2>4. /\ acc[k].longest >= acc[k - 1].longest /\ acc[k].longest \in Nat
        /\ k \in Closes(L) => acc[k].longest >= Span(L, k)
        /\ acc[k].longest = acc[k - 1].longest \/ (k \in Closes(L) /\ acc[k].longest = Span(L, k))
    BY <1>1, <2>1, <2>2 DEF Larger
  <2>5. ASSUME NEW c \in Closes(L), c <= k PROVE Span(L, c) <= acc[k].longest
    <3>1. c <= k - 1 => Span(L, c) <= acc[k - 1].longest
      BY <1>3
    <3> QED BY <1>1, <2>2, <2>3, <2>4, <2>5, <3>1
  <2>6. CASE k \in Closes(L) /\ acc[k].longest = Span(L, k)
    BY <1>1, <2>5, <2>6
  <2>7. CASE acc[k].longest = acc[k - 1].longest
    <3>1. acc[k].longest = 0 \/ Hit(k - 1)
      BY <1>3, <2>7
    <3>2. Hit(k - 1) => Hit(k)
      BY <2>3, <2>7
    <3> QED BY <2>5, <3>1, <3>2
  <2> QED BY <2>4, <2>6, <2>7
<1>4. \A k \in 0..N : k \in T
  <2> HIDE DEF N, T
  <2> QED BY <1>1, <1>2, <1>3, Upto
<1> QED BY <1>4

(* The problems are what the events add, one after the other. *)
LEMMA ProblemsGather ==
    ASSUME NEW L, IsLog(L), NEW acc, ServerWalk(L, acc), NEW n \in 0..Last0(L), NEW q
    PROVE  q \in acc[n].problems <=>
               \/ q \in ServerStart(L).problems
               \/ \E m \in DOMAIN L : m <= n /\ q \in NewProblems(acc[m - 1], L[m])
<1> DEFINE N == Last0(L)
           P(k) == \/ q \in ServerStart(L).problems
                   \/ \E m \in DOMAIN L : m <= k /\ q \in NewProblems(acc[m - 1], L[m])
           T == {k \in 0..N : q \in acc[k].problems <=> P(k)}
<1>1. N \in Nat /\ \A m \in DOMAIN L : m \in 1..N
  BY LogEnds
<1>2. 0 \in T
  BY <1>1 DEF ServerWalk
<1>3. ASSUME NEW k \in 1..N, k - 1 \in T PROVE k \in T
  <2>1. \A m \in DOMAIN L : m <= k <=> (m <= k - 1 \/ m = k)
    BY <1>1
  <2>2. q \in acc[k - 1].problems <=> P(k - 1)
    BY <1>3
  <2>3. CASE k \notin DOMAIN L
    <3>1. acc[k] = acc[k - 1]
      BY <2>3, WalkSteps
    <3>2. P(k) <=> P(k - 1)
      BY <2>1, <2>3
    <3> QED BY <1>1, <2>2, <3>1, <3>2
  <2>4. CASE k \in DOMAIN L
    <3>1. acc[k].problems = acc[k - 1].problems \cup NewProblems(acc[k - 1], L[k])
      <4>1. Stepped(acc[k - 1], L[k], acc[k])
        BY <2>4, WalkSteps
      <4> QED BY <4>1 DEF Stepped
    <3>2. P(k) <=> P(k - 1) \/ q \in NewProblems(acc[k - 1], L[k])
      BY <2>1, <2>4
    <3> QED BY <1>1, <2>2, <3>1, <3>2
  <2> QED BY <2>3, <2>4
<1>4. \A k \in 0..N : k \in T
  <2> HIDE DEF N, T
  <2> QED BY <1>1, <1>2, <1>3, Upto
<1> QED BY <1>4

LEMMA ProblemsAre ==
    ASSUME NEW L, IsLog(L), NEW acc, ServerWalk(L, acc)
    PROVE  Problems(L) = acc[Last0(L)].problems
<1>1. /\ Last0(L) \in 0..Last0(L)
      /\ \A m \in DOMAIN L : m <= Last0(L) /\ m \in 1..Last0(L)
  BY LogEnds
<1>2. acc[Last0(L)].problems \in SUBSET Problem
  <2>1. acc[Last0(L)] \in ServerLocals
    BY <1>1, ServerWalkBounded
  <2> QED BY <2>1 DEF ServerLocals
<1>3. ASSUME NEW m \in DOMAIN L
      PROVE  /\ L[m].at < Clamped(L, m) <=> L[m].at < acc[m - 1].prev
             /\ m \in Counted(L) <=> ~acc[m - 1].stopped
             /\ ~acc[m - 1].stopped => (OpenBefore(L, m) <=> acc[m - 1].open # NoTime)
  <2>1. /\ acc[m - 1] \in ServerLocals /\ L[m] \in Event
        /\ Stepped(acc[m - 1], L[m], acc[m])
    BY <1>1, WalkSteps
  <2>2. acc[m - 1].prev \in Nat /\ L[m].at \in Nat
    BY <2>1 DEF ServerLocals, Event
  <2>3. Clamped(L, m) = Larger(L[m].at, acc[m - 1].prev)
    BY <2>1, ClampedIs DEF Stepped
  <2>4. L[m].at < Clamped(L, m) <=> L[m].at < acc[m - 1].prev
    BY <2>2, <2>3 DEF Larger
  <2> QED BY <2>4, BeforeIs
<1>4. ASSUME NEW q \in Problem PROVE q \in Problems(L) <=> q \in acc[Last0(L)].problems
  <2>1. q \in acc[Last0(L)].problems <=>
            \/ q \in ServerStart(L).problems
            \/ \E m \in DOMAIN L : q \in NewProblems(acc[m - 1], L[m])
    BY <1>1, ProblemsGather
  <2>2. q \in ServerStart(L).problems <=>
            q = "missing_start" /\ L[Min(DOMAIN L)].type # "start"
    BY DEF ServerStart, First
  <2>3. q \in Problems(L) <=>
            \/ q = "missing_start" /\ L[Min(DOMAIN L)].type # "start"
            \/ q = "non_monotonic" /\ \E n \in DOMAIN L : L[n].at < Clamped(L, n)
            \/ q = "after_stop" /\ Counted(L) # DOMAIN L
            \/ /\ q = "duplicate"
               /\ \E n \in Counted(L) : L[n].type \in Opening /\ OpenBefore(L, n)
            \/ /\ q = "unexpected"
               /\ \E n \in Counted(L) : L[n].type \in Closing /\ ~OpenBefore(L, n)
    BY DEF Problems
  <2>4. \A m \in DOMAIN L : q \in NewProblems(acc[m - 1], L[m]) <=>
            \/ q = "non_monotonic" /\ L[m].at < Clamped(L, m)
            \/ q = "after_stop" /\ m \notin Counted(L)
            \/ q = "duplicate" /\ m \in Counted(L) /\ L[m].type \in Opening /\ OpenBefore(L, m)
            \/ q = "unexpected" /\ m \in Counted(L) /\ L[m].type \in Closing /\ ~OpenBefore(L, m)
    BY <1>3 DEF NewProblems
  <2>5. Counted(L) \subseteq DOMAIN L
    BY DEF Counted
  <2>6. Counted(L) # DOMAIN L <=> \E m \in DOMAIN L : m \notin Counted(L)
    BY <2>5
  <2> QED BY <2>1, <2>2, <2>3, <2>4, <2>5, <2>6
<1> QED BY <1>2, <1>4 DEF Problems

(* A log ends at its first stop. *)
LEMMA EndedIs ==
    ASSUME NEW L, IsLog(L), NEW acc, ServerWalk(L, acc)
    PROVE  /\ acc[Last0(L)].stopped <=> Stopped(L)
           /\ acc[Last0(L)].ended = IF Stopped(L) THEN Clamped(L, Min(Stops(L))) ELSE NoTime
<1>1. /\ Last0(L) \in 0..Last0(L) /\ Last0(L) \in Nat
      /\ \A m \in DOMAIN L : m \in 1..Last0(L)
  BY LogEnds
<1>2. acc[Last0(L)].stopped <=> Stopped(L)
  <2>1. acc[Last0(L)].stopped <=> \E s \in Stops(L) : s <= Last0(L)
    BY <1>1, ServerWalkStopped
  <2> QED BY <1>1, <2>1 DEF Stopped, Stops
<1>3. CASE ~Stopped(L)
  <2>1. Bounded(acc[Last0(L)], First(L).at)
    BY <1>1, ServerWalkBounded
  <2> QED BY <1>2, <1>3, <2>1 DEF Bounded
<1>4. CASE Stopped(L)
  <2> DEFINE s == Min(Stops(L))
  <2>1. s \in Stops(L) /\ \A x \in Stops(L) : s <= x
    <3>1. Stops(L) \in SUBSET (1..Last0(L)) /\ Stops(L) # {}
      BY <1>1, <1>4 DEF Stopped, Stops
    <3> QED BY <1>1, <3>1, Ends
  <2> HIDE DEF s
  <2>2. s \in DOMAIN L /\ L[s].type = "stop" /\ s \in 1..Last0(L)
    BY <1>1, <2>1 DEF Stops
  <2>3. /\ s - 1 \in 0..Last0(L) /\ s \in 0..Last0(L) /\ s <= Last0(L)
        /\ Stepped(acc[s - 1], L[s], acc[s])
    BY <1>1, <2>2, WalkSteps
  <2>4. ~acc[s - 1].stopped
    <3>1. acc[s - 1].stopped <=> \E x \in Stops(L) : x <= s - 1
      BY <2>3, ServerWalkStopped
    <3>2. \A x \in Stops(L) : ~(x <= s - 1)
      BY <1>1, <2>1 DEF Stops
    <3> QED BY <3>1, <3>2
  <2>5. acc[s].stopped /\ acc[s].ended = acc[s].prev
    BY <2>2, <2>3, <2>4 DEF Stepped
  <2>6. acc[Last0(L)].ended = acc[s].ended
    BY <1>1, <2>3, <2>5, ServerWalkFrozen
  <2>7. Clamped(L, s) = acc[s].prev
    BY <2>2, ClampedIs
  <2> QED BY <1>2, <1>4, <2>5, <2>6, <2>7 DEF s
<1> QED BY <1>3, <1>4

(* Behind the last event: the status, and the interval still open. *)
LEMMA StatusIs ==
    ASSUME NEW L, IsLog(L), NEW acc, ServerWalk(L, acc)
    PROVE  TimelineStatus(L) = IF acc[Last0(L)].stopped THEN "completed"
                               ELSE IF acc[Last0(L)].open # NoTime THEN "active" ELSE "paused"
<1> DEFINE N == Last0(L)
<1>1. /\ N \in 0..N /\ N \in DOMAIN L /\ \A m \in DOMAIN L : m <= N
  BY LogEnds
<1>2. acc[N].stopped <=> Stopped(L)
  BY EndedIs
<1>3. ~acc[N].stopped => (acc[N].open # NoTime <=> L[N].type \in Opening)
  <2> HIDE DEF N
  <2> QED BY <1>1, OpenIs DEF N
<1> QED BY <1>2, <1>3 DEF TimelineStatus, Last0

LEMMA OpenSpanIs ==
    ASSUME NEW L, IsLog(L), NEW acc, ServerWalk(L, acc), NEW clock \in Nat,
           acc[Last0(L)].open # NoTime
    PROVE  OpenSpan(L, clock) = Larger(clock - acc[Last0(L)].open, 0)
<1> DEFINE N == Last0(L)
<1>1. /\ N \in 0..N /\ N \in Nat /\ \A m \in DOMAIN L : m \in 1..N
      /\ Opens(L) \subseteq DOMAIN L
  BY LogEnds DEF Opens, Counted
<1>2. PICK o \in Opens(L) : /\ o <= N /\ acc[N].open = acc[o].prev
                            /\ \A p \in Opens(L) : p <= N => p <= o
  BY <1>1, OpenedAt
<1>3. Max(Opens(L)) = o
  <2>1. Opens(L) \in SUBSET Int /\ \A p \in Opens(L) : p <= o
    BY <1>1, <1>2
  <2> QED BY <2>1, MaxIs
<1>4. Clamped(L, o) = acc[N].open
  BY <1>1, <1>2, ClampedIs
<1>5. acc[N].open \in Nat
  <2>1. acc[N] \in ServerLocals
    BY <1>1, ServerWalkBounded
  <2> QED BY <2>1 DEF ServerLocals
<1> DEFINE x == clock - acc[N].open
<1>6. Max({x, 0}) = Larger(x, 0)
  <2>1. x \in Int
    BY <1>5
  <2> HIDE DEF x
  <2>2. /\ {x, 0} \in SUBSET Int /\ Larger(x, 0) \in {x, 0}
        /\ \A y \in {x, 0} : y <= Larger(x, 0)
    BY <2>1 DEF Larger
  <2> QED BY <2>2, MaxIs
<1> QED BY <1>3, <1>4, <1>6 DEF OpenSpan

LEMMA LongestOf ==
    ASSUME NEW L, IsLog(L), NEW acc, ServerWalk(L, acc), NEW span \in Nat
    PROVE  Max({Span(L, n) : n \in Closes(L)} \cup {span}) = Larger(acc[Last0(L)].longest, span)
<1> DEFINE S == {Span(L, n) : n \in Closes(L)} \cup {span}
           x == acc[Last0(L)].longest
<1>1. /\ Last0(L) \in 0..Last0(L) /\ \A c \in Closes(L) : c <= Last0(L)
  BY LogEnds DEF Closes, Counted
<1>2. /\ \A c \in Closes(L) : Span(L, c) <= x
      /\ x = 0 \/ \E c \in Closes(L) : x = Span(L, c)
  BY <1>1, LongestIs
<1>3. \A c \in Closes(L) : Span(L, c) \in Nat
  BY SpanIs
<1>4. x \in Nat
  BY <1>2, <1>3
<1> HIDE DEF x
<1>5. S \in SUBSET Int
  BY <1>3
<1>6. Larger(x, span) \in S
  BY <1>2, <1>4 DEF Larger
<1>7. \A y \in S : y <= Larger(x, span)
  BY <1>2, <1>3, <1>4 DEF Larger
<1> HIDE DEF S
<1>8. Max(S) = Larger(x, span)
  BY <1>5, <1>6, <1>7, MaxIs
<1> QED BY <1>8 DEF S, x
-----------------------------------------------------------------------------
(* The exact sums are those of the definition. *)
LEMMA SumsMeetDefinition ==
    ASSUME LogOK, log # <<>>
    PROVE  LET s == ServerSums(log, now)
               d == DeriveTimeline(log, now)
           IN  /\ s.status = d.status
               /\ s.startedAt = d.startedAt
               /\ s.endedAt = d.endedAt
               /\ s.elapsed = d.elapsed
               /\ s.longest = d.longest
               /\ s.problems = d.problems
<1>1. IsLog(log) /\ now \in Nat
  BY NotEmpty DEF LogOK
<1> DEFINE N == Last0(log)
<1>2. PICK acc :
        /\ ServerWalk(log, acc)
        /\ LET a == acc[N]
               span == IF ~a.stopped /\ a.open # NoTime
                       THEN Larger(now - a.open, 0) ELSE 0
           IN  ServerSums(log, now) =
                   [status |-> IF a.stopped THEN "completed"
                               ELSE IF a.open # NoTime THEN "active" ELSE "paused",
                    startedAt |-> First(log).at, endedAt |-> a.ended,
                    elapsed |-> a.elapsed + span, longest |-> Larger(a.longest, span),
                    whole |-> a.whole /\ WholeSeconds(span), problems |-> a.problems]
  BY <1>1, ServerSumsAre
<1> DEFINE a == acc[N]
           status == TimelineStatus(log)
           open == IF status = "active" THEN OpenSpan(log, now) ELSE 0
           span == IF ~a.stopped /\ a.open # NoTime THEN Larger(now - a.open, 0) ELSE 0
<1>3. a.elapsed \in Nat /\ a.open \in Nat \cup {NoTime}
  <2>1. a \in ServerLocals
    <3>1. N \in 0..N
      BY <1>1, LogEnds
    <3> QED BY <1>1, <1>2, <3>1, ServerWalkBounded
  <2> QED BY <2>1 DEF ServerLocals
<1>4. status = IF a.stopped THEN "completed"
               ELSE IF a.open # NoTime THEN "active" ELSE "paused"
  BY <1>1, <1>2, StatusIs
<1>5. span \in Nat
  BY <1>1, <1>3 DEF Larger, NoTime
<1>6. open = span
  <2>1. a.open # NoTime => OpenSpan(log, now) = Larger(now - a.open, 0)
    BY <1>1, <1>2, OpenSpanIs
  <2>2. status = "active" <=> ~a.stopped /\ a.open # NoTime
    BY <1>4
  <2> HIDE DEF a, status
  <2> QED BY <2>1, <2>2
<1>7. Max({Span(log, n) : n \in Closes(log)} \cup {span}) = Larger(a.longest, span)
  <2> HIDE DEF span
  <2> QED BY <1>1, <1>2, <1>5, LongestOf
<1>8. a.ended = IF Stopped(log) THEN Clamped(log, Min(Stops(log))) ELSE NoTime
  BY <1>1, <1>2, EndedIs
<1>9. ClosedTime(log) = a.elapsed
  BY <1>1, <1>2, ElapsedIs
<1>10. Problems(log) = a.problems
  BY <1>1, <1>2, ProblemsAre
<1>11. DeriveTimeline(log, now) =
           [status |-> status, startedAt |-> log[Min(DOMAIN log)].at,
            endedAt |-> IF Stopped(log) THEN Clamped(log, Min(Stops(log))) ELSE NoTime,
            elapsed |-> open + ClosedTime(log),
            longest |-> Max({Span(log, n) : n \in Closes(log)} \cup {open}),
            problems |-> Problems(log)]
  BY DEF DeriveTimeline
<1>12. ServerSums(log, now) =
           [status |-> status, startedAt |-> log[Min(DOMAIN log)].at, endedAt |-> a.ended,
            elapsed |-> a.elapsed + span, longest |-> Larger(a.longest, span),
            whole |-> a.whole /\ WholeSeconds(span), problems |-> a.problems]
  BY <1>2, <1>4 DEF First
<1>13. open + ClosedTime(log) = a.elapsed + span
  BY <1>3, <1>5, <1>6, <1>9
<1> HIDE DEF a, span, open, status
<1> QED BY <1>6, <1>7, <1>8, <1>10, <1>11, <1>12, <1>13
-----------------------------------------------------------------------------
(* The phone's exact sum is the server's. *)
LEMMA SumsAgree ==
    ASSUME LogOK, log # <<>>
    PROVE  LET p == PhoneSums(log, now)
               s == ServerSums(log, now)
           IN  /\ p = [status |-> p.status, startedAt |-> p.startedAt,
                       endedAt |-> p.endedAt, elapsed |-> p.elapsed]
               /\ p.status = s.status
               /\ p.startedAt = s.startedAt
               /\ p.endedAt = s.endedAt
               /\ p.elapsed = s.elapsed
<1>1. IsLog(log) /\ now \in Nat
  BY NotEmpty DEF LogOK
<1> DEFINE N == Last0(log)
<1>2. PICK acc :
        /\ ServerWalk(log, acc)
        /\ LET a == acc[N]
               span == IF ~a.stopped /\ a.open # NoTime
                       THEN Larger(now - a.open, 0) ELSE 0
           IN  ServerSums(log, now) =
                   [status |-> IF a.stopped THEN "completed"
                               ELSE IF a.open # NoTime THEN "active" ELSE "paused",
                    startedAt |-> First(log).at, endedAt |-> a.ended,
                    elapsed |-> a.elapsed + span, longest |-> Larger(a.longest, span),
                    whole |-> a.whole /\ WholeSeconds(span), problems |-> a.problems]
  BY <1>1, ServerSumsAre
<1>3. PICK pcc :
        /\ PhoneWalk(log, pcc)
        /\ LET p == pcc[N]
               status == IF p.stopped THEN "completed"
                         ELSE IF p.open # NoTime THEN "active" ELSE "paused"
           IN  PhoneSums(log, now) =
                   [status |-> status, startedAt |-> First(log).at, endedAt |-> p.ended,
                    elapsed |-> p.elapsed + (IF status = "active"
                                             THEN Larger(now - p.open, 0) ELSE 0)]
  BY <1>1, PhoneSumsAre
<1>4. N \in 0..N
  BY <1>1, LogEnds
<1>5. pcc[N] = Shared(acc[N])
  BY <1>1, <1>2, <1>3, <1>4, PhoneWalkAgrees
<1> HIDE DEF N
<1>6. /\ pcc[N].open = acc[N].open /\ pcc[N].elapsed = acc[N].elapsed
      /\ pcc[N].stopped = acc[N].stopped /\ pcc[N].ended = acc[N].ended
  BY <1>5 DEF Shared
<1> QED BY <1>2, <1>3, <1>6

(* How the server's exact sums bound each other, and which are certain. *)
LEMMA SumsBounded ==
    ASSUME LogOK, log # <<>>
    PROVE  LET d == ServerSums(log, now)
               upto == IF d.status = "completed" THEN d.endedAt
                       ELSE Max({now, Clamped(log, Last0(log))})
           IN  /\ d.elapsed \in Nat /\ d.longest \in Nat /\ d.whole \in BOOLEAN
               /\ Larger(upto - d.startedAt, 0) \in Nat
               /\ d.elapsed <= Larger(upto - d.startedAt, 0)
               /\ d.longest <= d.elapsed
               /\ d.longest = d.elapsed /\ WholeSeconds(d.elapsed) => d.whole
               /\ AllWhole => d.whole
<1>1. IsLog(log) /\ now \in Nat
  BY NotEmpty DEF LogOK
<1> DEFINE N == Last0(log)
           from == First(log).at
           d == ServerSums(log, now)
<1>2. PICK acc :
        /\ ServerWalk(log, acc)
        /\ LET a == acc[N]
               span == IF ~a.stopped /\ a.open # NoTime
                       THEN Larger(now - a.open, 0) ELSE 0
           IN  ServerSums(log, now) =
                   [status |-> IF a.stopped THEN "completed"
                               ELSE IF a.open # NoTime THEN "active" ELSE "paused",
                    startedAt |-> First(log).at, endedAt |-> a.ended,
                    elapsed |-> a.elapsed + span, longest |-> Larger(a.longest, span),
                    whole |-> a.whole /\ WholeSeconds(span), problems |-> a.problems]
  BY <1>1, ServerSumsAre
<1> DEFINE a == acc[N]
           span == IF ~a.stopped /\ a.open # NoTime THEN Larger(now - a.open, 0) ELSE 0
<1>3. N \in 0..N /\ N \in DOMAIN log /\ First(log) \in Event
  BY <1>1, LogEnds
<1>4. a \in ServerLocals /\ Bounded(a, from)
  BY <1>1, <1>2, <1>3, ServerWalkBounded
<1>5. Clamped(log, N) = a.prev
  BY <1>1, <1>2, <1>3, ClampedIs
<1>6. /\ d.status = (IF a.stopped THEN "completed"
                     ELSE IF a.open # NoTime THEN "active" ELSE "paused")
      /\ d.startedAt = from /\ d.endedAt = a.ended /\ d.elapsed = a.elapsed + span
      /\ d.longest = Larger(a.longest, span)
  BY <1>2
<1>7. /\ a.prev \in Nat /\ a.open \in Nat \cup {NoTime} /\ a.elapsed \in Nat
      /\ a.longest \in Nat /\ a.stopped \in BOOLEAN /\ from \in Nat
  BY <1>3, <1>4 DEF ServerLocals, Event
<1> HIDE DEF a, N, d, from
<1>8. span \in Nat /\ d.longest <= d.elapsed
  <2>1. span \in Nat
    BY <1>1, <1>7 DEF Larger, NoTime
  <2>2. a.longest <= a.elapsed
    BY <1>4 DEF Bounded
  <2> HIDE DEF span
  <2> QED BY <1>6, <1>7, <2>1, <2>2 DEF Larger
<1> DEFINE top == Larger(now, a.prev)
           upto == IF d.status = "completed" THEN d.endedAt ELSE top
<1>9. Max({now, Clamped(log, Last0(log))}) = top
  <2>1. top \in {now, a.prev} /\ \A y \in {now, a.prev} : y <= top
    BY <1>1, <1>7 DEF Larger
  <2>2. {now, a.prev} \in SUBSET Int
    BY <1>1, <1>7
  <2>3. Max({now, a.prev}) = top
    <3> HIDE DEF top
    <3> QED BY <2>1, <2>2, MaxIs
  <2> QED BY <1>5, <2>3 DEF N
<1>10. d.elapsed <= upto - from /\ upto \in Int
  <2> HIDE DEF span
  <2>1. a.elapsed + (IF a.open = NoTime THEN 0 ELSE a.prev - a.open)
           <= (IF a.stopped THEN a.ended ELSE a.prev) - from
    BY <1>4 DEF Bounded
  <2>2. top >= now /\ top >= a.prev /\ top \in Nat
    BY <1>1, <1>7 DEF Larger
  <2> HIDE DEF top
  <2>3. CASE a.stopped
    <3>1. span = 0 /\ a.open = NoTime /\ upto = a.ended /\ a.ended \in Nat
      BY <1>4, <1>6, <2>3 DEF Bounded, span
    <3> QED BY <1>6, <1>7, <2>1, <2>3, <3>1
  <2>4. CASE ~a.stopped /\ a.open = NoTime
    <3>1. span = 0 /\ upto = top
      BY <1>6, <2>4 DEF span
    <3> QED BY <1>6, <1>7, <2>1, <2>2, <2>4, <3>1
  <2>5. CASE ~a.stopped /\ a.open # NoTime
    <3>1. upto = top /\ span = Larger(now - a.open, 0) /\ a.open \in Nat
      BY <1>6, <1>7, <2>5 DEF span
    <3>2. a.open <= a.prev
      BY <1>4, <2>5 DEF Bounded
    <3>3. span <= top - a.open
      BY <1>1, <1>7, <2>2, <3>1, <3>2 DEF Larger
    <3>4. a.elapsed + (a.prev - a.open) <= a.prev - from
      BY <2>1, <2>5
    <3> QED BY <1>6, <1>7, <1>8, <2>2, <3>1, <3>3, <3>4
  <2> QED BY <1>7, <2>3, <2>4, <2>5
<1>11. d.elapsed \in Nat /\ d.longest \in Nat
  BY <1>6, <1>7, <1>8 DEF Larger
<1>12. Larger(upto - d.startedAt, 0) \in Nat /\ d.elapsed <= Larger(upto - d.startedAt, 0)
  <2> HIDE DEF upto
  <2> QED BY <1>6, <1>7, <1>10, <1>11 DEF Larger
<1>13. d.whole = (a.whole /\ WholeSeconds(span))
  BY <1>2 DEF a, d, N
<1>14. d.longest = d.elapsed /\ WholeSeconds(d.elapsed) => d.whole
  <2> SUFFICES ASSUME d.longest = d.elapsed, WholeSeconds(d.elapsed) PROVE d.whole
    OBVIOUS
  <2>1. a.longest = a.elapsed /\ WholeSeconds(a.elapsed) => a.whole
    BY <1>1, <1>2, <1>3, ServerWalkRounds DEF a, N
  <2>2. span \in Nat /\ a.longest <= a.elapsed
    BY <1>4, <1>8 DEF Bounded
  <2> HIDE DEF span
  <2>3. CASE span = 0
    <3>1. a.longest = a.elapsed /\ d.elapsed = a.elapsed
      BY <1>6, <1>7, <2>2, <2>3 DEF Larger
    <3>2. a.whole
      BY <2>1, <3>1
    <3> QED BY <1>13, <2>3, <3>2, WholeZero
  <2>4. CASE span # 0
    <3>1. a.elapsed = 0 /\ a.longest = 0 /\ d.elapsed = span
      BY <1>6, <1>7, <2>2, <2>4 DEF Larger
    <3>2. a.whole /\ WholeSeconds(span)
      BY <2>1, <3>1, WholeZero
    <3> QED BY <1>13, <3>2
  <2> QED BY <2>3, <2>4
<1>15. AllWhole => d.whole
  <2> SUFFICES ASSUME AllWhole PROVE d.whole
    OBVIOUS
  <2>1. a.whole /\ (a.open # NoTime => WholeSeconds(a.open))
    BY <1>1, <1>2, <1>3, ServerWalkWhole DEF AllWhole, a, N
  <2>2. a.open # NoTime => a.open \in Nat
    BY <1>7
  <2>3. CASE span = 0
    BY <1>13, <2>1, <2>3, WholeZero
  <2>4. CASE span # 0
    <3>1. a.open \in Nat /\ a.open # NoTime /\ a.open <= now /\ span = now - a.open
      BY <1>1, <2>2, <2>4 DEF Larger
    <3>2. WholeSeconds(now - a.open)
      BY <1>1, <2>1, <3>1, WholeDifference DEF AllWhole
    <3> QED BY <1>13, <2>1, <3>1, <3>2
  <2> QED BY <2>3, <2>4
<1>16. d.whole \in BOOLEAN
  BY <1>13
<1> HIDE DEF upto
<1> QED BY <1>8, <1>9, <1>11, <1>12, <1>14, <1>15, <1>16 DEF d, N, upto
-----------------------------------------------------------------------------
(* The loop of derive_timeline returns the timeline the rules define, in   *)
(* whole seconds and one of them short at most, for every log and every    *)
(* clock (LoopMeetsDefinition).                                            *)
THEOREM LoopComputesTheTimeline == Spec => []LoopMeetsDefinition
<1>1. LogOK => LoopMeetsDefinition
  <2> SUFFICES ASSUME LogOK, log # <<>>, NEW low \in BOOLEAN
               PROVE  LET s == ServerLoop(log, now, low)
                          d == DeriveTimeline(log, now)
                          exact == d.elapsed \div Second
                      IN  /\ s.status = d.status
                          /\ s.startedAt = d.startedAt
                          /\ s.endedAt = d.endedAt
                          /\ s.problems = d.problems
                          /\ s.longest = d.longest \div Second
                          /\ s.elapsed \in {exact, exact - 1}
                          /\ (AllWhole \/ ~WholeSeconds(d.elapsed)) => s.elapsed = exact
    BY DEF LoopMeetsDefinition
  <2> DEFINE s == ServerSums(log, now)
             d == DeriveTimeline(log, now)
  <2>1. /\ s.status = d.status /\ s.startedAt = d.startedAt /\ s.endedAt = d.endedAt
        /\ s.elapsed = d.elapsed /\ s.longest = d.longest /\ s.problems = d.problems
    BY SumsMeetDefinition
  <2>2. s.elapsed \in Nat /\ s.whole \in BOOLEAN /\ (AllWhole => s.whole)
    BY SumsBounded
  <2>3. /\ Truncated(s.elapsed, s.whole, low) \in {s.elapsed \div Second, s.elapsed \div Second - 1}
        /\ s.whole \/ ~WholeSeconds(s.elapsed) =>
               Truncated(s.elapsed, s.whole, low) = s.elapsed \div Second
    <3> HIDE DEF s
    <3> QED BY <2>2, TruncatedIs
  <2>4. ServerLoop(log, now, low) =
            [status |-> s.status, startedAt |-> s.startedAt, endedAt |-> s.endedAt,
             elapsed |-> Truncated(s.elapsed, s.whole, low),
             longest |-> s.longest \div Second, problems |-> s.problems]
    BY DEF ServerLoop
  <2> HIDE DEF s, d
  <2> QED BY <2>1, <2>2, <2>3, <2>4 DEF d
<1> QED BY <1>1, Logs, PTL
-----------------------------------------------------------------------------
(* The phone shows what the server will credit or one second more, for     *)
(* every log and every clock, and nothing else than it when times are      *)
(* whole seconds (PhoneAgreesWithServer).                                  *)
THEOREM PhoneShowsTheCredit == Spec => []PhoneAgreesWithServer
<1>1. LogOK => PhoneAgreesWithServer
  <2> SUFFICES ASSUME LogOK, log # <<>>, NEW low \in BOOLEAN
               PROVE  LET p == PhoneLoop(log, now)
                          s == ServerLoop(log, now, low)
                      IN  /\ p.status = s.status
                          /\ p.startedAt = s.startedAt
                          /\ p.endedAt = s.endedAt
                          /\ p.elapsed \in {s.elapsed, s.elapsed + 1}
                          /\ AllWhole => p.elapsed = s.elapsed
    BY DEF PhoneAgreesWithServer
  <2> DEFINE s == ServerSums(log, now)
             p == PhoneSums(log, now)
             r == ServerLoop(log, now, low)
             q == s.elapsed \div Second
  <2>1. /\ p = [status |-> p.status, startedAt |-> p.startedAt,
                endedAt |-> p.endedAt, elapsed |-> p.elapsed]
        /\ p.status = s.status /\ p.startedAt = s.startedAt /\ p.endedAt = s.endedAt
        /\ p.elapsed = s.elapsed
    BY SumsAgree
  <2>2. s.elapsed \in Nat /\ s.whole \in BOOLEAN /\ (AllWhole => s.whole)
    BY SumsBounded
  <2>3. /\ r.status = s.status /\ r.startedAt = s.startedAt /\ r.endedAt = s.endedAt
        /\ r.elapsed = Truncated(s.elapsed, s.whole, low)
    BY DEF ServerLoop
  <2>4. PhoneLoop(log, now) = [p EXCEPT !.elapsed = p.elapsed \div Second]
    BY DEF PhoneLoop
  <2> HIDE DEF s, p, r
  <2>5. /\ r.elapsed \in {q, q - 1} /\ q \in Nat
        /\ s.whole => r.elapsed = q
    BY <2>2, <2>3, TruncatedIs, Division
  <2>6. PhoneLoop(log, now) =
            [status |-> p.status, startedAt |-> p.startedAt, endedAt |-> p.endedAt,
             elapsed |-> p.elapsed \div Second]
    BY <2>1, <2>4
  <2> QED BY <2>1, <2>2, <2>3, <2>5, <2>6 DEF r
<1> QED BY <1>1, Logs, PTL
-----------------------------------------------------------------------------
(* No log is credited more than the time between its start and its end, or *)
(* while it runs the later of the clock and the last claimed time, however *)
(* its times are disordered and whatever the rounding (CreditWithinSpan).  *)
THEOREM CreditIsWithinSpan == Spec => []CreditWithinSpan
<1>1. LogOK => CreditWithinSpan
  <2> SUFFICES ASSUME LogOK, log # <<>>, NEW low \in BOOLEAN
               PROVE  LET d == ServerLoop(log, now, low)
                          upto == IF d.status = "completed" THEN d.endedAt
                                  ELSE Max({now, Clamped(log, Last0(log))})
                      IN  /\ d.elapsed \in 0..(Larger(upto - d.startedAt, 0) \div Second)
                          /\ d.longest \in 0..d.elapsed
    BY DEF CreditWithinSpan
  <2> DEFINE s == ServerSums(log, now)
             d == ServerLoop(log, now, low)
             upto == IF s.status = "completed" THEN s.endedAt
                     ELSE Max({now, Clamped(log, Last0(log))})
             span == Larger(upto - s.startedAt, 0)
  <2>1. /\ s.elapsed \in Nat /\ s.longest \in Nat /\ s.whole \in BOOLEAN /\ span \in Nat
        /\ s.elapsed <= span /\ s.longest <= s.elapsed
        /\ s.longest = s.elapsed /\ WholeSeconds(s.elapsed) => s.whole
    BY SumsBounded
  <2>2. /\ d.status = s.status /\ d.startedAt = s.startedAt /\ d.endedAt = s.endedAt
        /\ d.elapsed = Truncated(s.elapsed, s.whole, low)
        /\ d.longest = s.longest \div Second
    BY DEF ServerLoop
  <2> HIDE DEF s, d, span
  <2>3. d.elapsed \in {s.elapsed \div Second, s.elapsed \div Second - 1}
    BY <2>1, <2>2, TruncatedIs
  <2>4. d.longest <= d.elapsed
    BY <2>1, <2>2, TruncatedCovers
  <2>5. d.longest \in Nat /\ s.elapsed \div Second \in Nat /\ span \div Second \in Nat
    BY <2>1, <2>2, Division
  <2>6. s.elapsed \div Second <= span \div Second
    BY <2>1, RoundsDown
  <2>7. d.elapsed \in 0..(span \div Second) /\ d.longest \in 0..d.elapsed
    BY <2>3, <2>4, <2>5, <2>6
  <2> QED BY <2>2, <2>7 DEF span, d
<1> QED BY <1>1, Logs, PTL

(* What a stopped log is credited with, its walk up to a stop says.        *)
LEMMA StoppedLoop ==
    ASSUME NEW L, IsLog(L), NEW clock \in Nat, NEW s \in Stops(L)
    PROVE  \E acc : /\ ServerWalk(L, acc) /\ acc[s].stopped
                    /\ \A low \in BOOLEAN :
                         /\ ServerLoop(L, clock, low).status = "completed"
                         /\ ServerLoop(L, clock, low).endedAt = acc[s].ended
                         /\ ServerLoop(L, clock, low).elapsed =
                                Truncated(acc[s].elapsed, acc[s].whole, low)
<1> DEFINE N == Last0(L)
<1>1. PICK acc :
        /\ ServerWalk(L, acc)
        /\ LET a == acc[N]
               span == IF ~a.stopped /\ a.open # NoTime THEN Larger(clock - a.open, 0) ELSE 0
           IN  ServerSums(L, clock) =
                   [status |-> IF a.stopped THEN "completed"
                               ELSE IF a.open # NoTime THEN "active" ELSE "paused",
                    startedAt |-> First(L).at, endedAt |-> a.ended,
                    elapsed |-> a.elapsed + span, longest |-> Larger(a.longest, span),
                    whole |-> a.whole /\ WholeSeconds(span), problems |-> a.problems]
  BY ServerSumsAre
<1>2. N \in 0..N /\ s \in 0..N /\ s <= N /\ s <= s
  BY LogEnds DEF Stops
<1>3. acc[s].stopped
  BY <1>1, <1>2, ServerWalkStopped
<1>4. /\ acc[N].stopped /\ acc[N].ended = acc[s].ended /\ acc[N].elapsed = acc[s].elapsed
      /\ acc[N].whole = acc[s].whole /\ acc[N].whole \in BOOLEAN /\ acc[N].elapsed \in Nat
  BY <1>1, <1>2, <1>3, ServerWalkFrozen, ServerWalkBounded DEF ServerLocals
<1> HIDE DEF N
<1>5. /\ ServerSums(L, clock).status = "completed"
      /\ ServerSums(L, clock).endedAt = acc[s].ended
      /\ ServerSums(L, clock).elapsed = acc[s].elapsed
      /\ ServerSums(L, clock).whole = acc[s].whole
  BY <1>1, <1>4, WholeZero
<1>6. ASSUME NEW low \in BOOLEAN
      PROVE  /\ ServerLoop(L, clock, low).status = "completed"
             /\ ServerLoop(L, clock, low).endedAt = acc[s].ended
             /\ ServerLoop(L, clock, low).elapsed =
                    Truncated(acc[s].elapsed, acc[s].whole, low)
  BY <1>5 DEF ServerLoop
<1> QED BY <1>1, <1>3, <1>6

(* Once a log has its stop, neither the clock nor what is recorded behind  *)
(* the stop changes status, end or credited time (StopFreezesCredit).      *)
THEOREM StopsFreezeTheCredit == Spec => StopFreezesCredit
<1>1. LogOK /\ LogOK' /\ [Next]_vars =>
        [ (/\ Stopped(log)
           /\ \A n \in DOMAIN log' \ DOMAIN log : \E s \in Stops(log) : s < n)
          => \A low \in BOOLEAN :
             LET before == ServerLoop(log, now, low)
                 after == ServerLoop(log', now', low)
             IN  /\ after.status = "completed"
                 /\ after.endedAt = before.endedAt
                 /\ after.elapsed = before.elapsed ]_vars
  <2> SUFFICES ASSUME LogOK, LogOK', Next, Stopped(log), NEW low \in BOOLEAN,
                      \A n \in DOMAIN log' \ DOMAIN log : \E s \in Stops(log) : s < n
               PROVE  /\ ServerLoop(log', now', low).status = "completed"
                      /\ ServerLoop(log', now', low).endedAt = ServerLoop(log, now, low).endedAt
                      /\ ServerLoop(log', now', low).elapsed = ServerLoop(log, now, low).elapsed
    BY DEF vars
  <2>1. IsLog(log) /\ now \in Nat /\ now' \in Nat
    BY DEF IsLog, LogOK, Stopped
  <2>2. CASE Tick
    <3>1. PICK s \in Stops(log) : TRUE
      BY DEF Stops, Stopped
    <3>2. log' = log
      BY <2>2 DEF Tick
    <3>3. PICK acc : /\ ServerWalk(log, acc)
                     /\ ServerLoop(log, now, low).endedAt = acc[s].ended
                     /\ ServerLoop(log, now, low).elapsed =
                            Truncated(acc[s].elapsed, acc[s].whole, low)
      BY <2>1, StoppedLoop
    <3>4. PICK bcc : /\ ServerWalk(log, bcc)
                     /\ ServerLoop(log, now', low).status = "completed"
                     /\ ServerLoop(log, now', low).endedAt = bcc[s].ended
                     /\ ServerLoop(log, now', low).elapsed =
                            Truncated(bcc[s].elapsed, bcc[s].whole, low)
      BY <2>1, StoppedLoop
    <3>5. s \in Nat /\ s <= Last0(log)
      BY <2>1, LogEnds DEF Stops
    <3>6. acc[s] = bcc[s]
      BY <2>1, <3>3, <3>4, <3>5, SamePrefix
    <3> QED BY <3>2, <3>3, <3>4, <3>6
  <2>3. ASSUME NEW n \in 1..MaxSeq, NEW e, Record(n, e)
        PROVE  /\ ServerLoop(log', now', low).status = "completed"
               /\ ServerLoop(log', now', low).endedAt = ServerLoop(log, now, low).endedAt
               /\ ServerLoop(log', now', low).elapsed = ServerLoop(log, now, low).elapsed
    <3> DEFINE K == log'
    <3>1. /\ n \notin DOMAIN log
          /\ K = [m \in DOMAIN log \cup {n} |-> IF m = n THEN e ELSE log[m]]
          /\ now' = now
      BY <2>3 DEF Record
    <3>2. DOMAIN K = DOMAIN log \cup {n} /\ \A m \in DOMAIN log : K[m] = log[m]
      BY <3>1
    <3>3. PICK s \in Stops(log) : s < n
      BY <3>1, <3>2
    <3>4. IsLog(K)
      BY <2>1, <3>2 DEF LogOK, IsLog
    <3>5. s \in DOMAIN log /\ s \in Stops(K)
      BY <3>2, <3>3 DEF Stops
    <3> HIDE DEF K
    <3>6. First(K) = First(log)
      <4>1. /\ Min(DOMAIN log) \in DOMAIN log
            /\ \A m \in DOMAIN log : Min(DOMAIN log) <= m /\ m \in Nat
        BY <2>1, LogEnds
      <4>2. /\ Min(DOMAIN log) \in DOMAIN K
            /\ \A m \in DOMAIN K : Min(DOMAIN log) <= m
        BY <2>1, <3>2, <3>3, <3>5, <4>1 DEF IsLog
      <4>3. DOMAIN K \in SUBSET Int
        BY <3>4 DEF IsLog
      <4>4. Min(DOMAIN K) = Min(DOMAIN log)
        BY <4>2, <4>3, MinIs
      <4> QED BY <3>2, <4>1, <4>4 DEF First
    <3>7. PICK acc : /\ ServerWalk(log, acc)
                     /\ ServerLoop(log, now, low).endedAt = acc[s].ended
                     /\ ServerLoop(log, now, low).elapsed =
                            Truncated(acc[s].elapsed, acc[s].whole, low)
      BY <2>1, StoppedLoop
    <3>8. PICK bcc : /\ ServerWalk(K, bcc)
                     /\ ServerLoop(K, now, low).status = "completed"
                     /\ ServerLoop(K, now, low).endedAt = bcc[s].ended
                     /\ ServerLoop(K, now, low).elapsed =
                            Truncated(bcc[s].elapsed, bcc[s].whole, low)
      BY <2>1, <3>4, <3>5, StoppedLoop
    <3>9. s \in Nat /\ s <= Last0(log) /\ s <= Last0(K)
      BY <2>1, <3>4, <3>5, LogEnds DEF Stops
    <3>10. \A m \in 1..s : /\ m \in DOMAIN log <=> m \in DOMAIN K
                           /\ m \in DOMAIN log => log[m] = K[m]
      BY <3>2, <3>3, <3>9
    <3>11. acc[s] = bcc[s]
      BY <2>1, <3>4, <3>6, <3>7, <3>8, <3>9, <3>10, SamePrefix
    <3> QED BY <3>1, <3>7, <3>8, <3>11 DEF K
  <2> QED BY <2>2, <2>3 DEF Next
<1> QED BY <1>1, Logs, PTL DEF Spec, StopFreezesCredit

=============================================================================
