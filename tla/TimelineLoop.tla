---------------------------- MODULE TimelineLoop ----------------------------
(***************************************************************************)
(* The two loops that turn a session's events into a timeline: the         *)
(* server's derive_timeline and the phone's deriveTimerState.  Timeline    *)
(* defines what they are to compute; here each is a walk over the events   *)
(* in sequence order, as written in Python and TypeScript, and the run     *)
(* compares them on every log that can build up, in any order of arrival,  *)
(* and at every clock reading.                                             *)
(*                                                                         *)
(* Times are counted in ticks, of which a second has `Second`.  Both loops *)
(* return whole seconds: the phone adds integers and rounds down once; the *)
(* server adds the spans as floats and truncates the sum (int()).          *)
(***************************************************************************)
EXTENDS Timeline

CONSTANTS
    Second,             \* ticks in a second
    MaxSeq, Horizon     \* bounds: sequence numbers, clock

VARIABLES log, now

vars == <<log, now>>

ASSUME BoundsAssumption == MaxSeq \in Nat /\ Horizon \in Nat
ASSUME SecondAssumption == Second \in Nat \ {0}

First(L) == L[Min(DOMAIN L)]
Last0(L) == Max(DOMAIN L)
Larger(x, y) == IF x > y THEN x ELSE y
WholeSeconds(t) == t % Second = 0

\* The loop over the events of L in the order of their numbers: acc[n] are
\* the locals when the events up to number n are done.
Walk(step(_, _), start, L) ==
    LET acc[n \in 0..Last0(L)] ==
            IF n = 0 THEN start
            ELSE IF n \in DOMAIN L THEN step(acc[n - 1], L[n]) ELSE acc[n - 1]
    IN  acc[Last0(L)]
-----------------------------------------------------------------------------
(* The server's loop.  Its locals: previous_at, open_since, ended_at,      *)
(* elapsed, longest, stopped, problems.  `elapsed` is the exact sum; the   *)
(* float of the code is that sum for certain only while every span was a   *)
(* whole number of seconds, which `whole` keeps.                           *)

ServerStart(L) ==
    [prev |-> First(L).at, open |-> NoTime, ended |-> NoTime, elapsed |-> 0,
     longest |-> 0, whole |-> TRUE, stopped |-> FALSE,
     problems |-> IF First(L).type = "start" THEN {} ELSE {"missing_start"}]

\* The clamp comes first, for every event, the ignored ones included.
ServerClamp(acc, e) ==
    [acc EXCEPT !.prev = Larger(e.at, acc.prev),
                !.problems = @ \cup (IF e.at < acc.prev THEN {"non_monotonic"} ELSE {})]

ServerOpen(acc) ==
    IF acc.open # NoTime THEN [acc EXCEPT !.problems = @ \cup {"duplicate"}]
    ELSE [acc EXCEPT !.open = acc.prev]

ServerAdd(acc, span) ==
    [acc EXCEPT !.elapsed = @ + span, !.longest = Larger(@, span),
                !.whole = @ /\ WholeSeconds(span)]

\* Mutation: the interval stays open after it has been counted.
ServerCloseKeeps(acc) ==
    IF acc.open = NoTime THEN acc ELSE ServerAdd(acc, acc.prev - acc.open)

ServerClose(acc) ==
    IF acc.open = NoTime THEN [acc EXCEPT !.problems = @ \cup {"unexpected"}]
    ELSE [ServerAdd(acc, acc.prev - acc.open) EXCEPT !.open = NoTime]

\* Mutation: events behind the stop still count.
ServerStepOn(acc, e) ==
    LET c == ServerClamp(acc, e)
    IN  IF e.type \in Opening THEN ServerOpen(c)
        ELSE LET d == ServerClose(c)
             IN  IF e.type # "stop" THEN d
                 ELSE [d EXCEPT !.stopped = TRUE, !.ended = c.prev]

ServerStep(acc, e) ==
    LET c == ServerClamp(acc, e)
    IN  IF acc.stopped THEN [c EXCEPT !.problems = @ \cup {"after_stop"}]
        ELSE IF e.type \in Opening THEN ServerOpen(c)
        ELSE LET d == ServerClose(c)
             IN  IF e.type # "stop" THEN d
                 ELSE [d EXCEPT !.stopped = TRUE, !.ended = c.prev]

\* The locals at the end, the interval still open included.
ServerSums(L, clock) ==
    LET acc == Walk(ServerStep, ServerStart(L), L)
        span == IF ~acc.stopped /\ acc.open # NoTime
                THEN Larger(clock - acc.open, 0) ELSE 0
    IN  [status    |-> IF acc.stopped THEN "completed"
                       ELSE IF acc.open # NoTime THEN "active" ELSE "paused",
         startedAt |-> First(L).at,
         endedAt   |-> acc.ended,
         elapsed   |-> acc.elapsed + span,
         longest   |-> Larger(acc.longest, span),
         whole     |-> acc.whole /\ WholeSeconds(span),
         problems  |-> acc.problems]

\* int() of the float sum.  Its error is far below a tick, so it shows only
\* where the exact sum is a whole number of seconds: the float is then that
\* number or (`low`) just below it.  Spans of whole seconds add up exactly.
Truncated(sum, whole, low) ==
    IF low /\ ~whole /\ WholeSeconds(sum) THEN sum \div Second - 1 ELSE sum \div Second

ServerLoop(L, clock, low) ==
    LET sums == ServerSums(L, clock)
    IN  [status    |-> sums.status,
         startedAt |-> sums.startedAt,
         endedAt   |-> sums.endedAt,
         elapsed   |-> Truncated(sums.elapsed, sums.whole, low),
         longest   |-> sums.longest \div Second,
         problems  |-> sums.problems]
-----------------------------------------------------------------------------
(* The phone's loop: the same walk without problems and longest interval.  *)

\* Mutation: the phone does not clamp.
PhoneStepRaw(acc, e) ==
    IF acc.stopped THEN acc
    ELSE IF e.type \in Opening
         THEN [acc EXCEPT !.prev = e.at, !.open = IF @ = NoTime THEN e.at ELSE @]
    ELSE [prev    |-> e.at,
          open    |-> NoTime,
          elapsed |-> acc.elapsed + (IF acc.open = NoTime THEN 0 ELSE e.at - acc.open),
          stopped |-> e.type = "stop",
          ended   |-> IF e.type = "stop" THEN e.at ELSE NoTime]

PhoneStep(acc, e) ==
    LET at == Larger(e.at, acc.prev)
    IN  IF acc.stopped THEN [acc EXCEPT !.prev = at]
        ELSE IF e.type \in Opening
             THEN [acc EXCEPT !.prev = at, !.open = IF @ = NoTime THEN at ELSE @]
        ELSE [prev    |-> at,
              open    |-> NoTime,
              elapsed |-> acc.elapsed + (IF acc.open = NoTime THEN 0 ELSE at - acc.open),
              stopped |-> e.type = "stop",
              ended   |-> IF e.type = "stop" THEN at ELSE NoTime]

PhoneStart(L) ==
    [prev |-> First(L).at, open |-> NoTime, elapsed |-> 0, stopped |-> FALSE,
     ended |-> NoTime]

PhoneSums(L, clock) ==
    LET acc == Walk(PhoneStep, PhoneStart(L), L)
        status == IF acc.stopped THEN "completed"
                  ELSE IF acc.open # NoTime THEN "active" ELSE "paused"
    IN  [status    |-> status,
         startedAt |-> First(L).at,
         endedAt   |-> acc.ended,
         elapsed   |-> acc.elapsed
                       + (IF status = "active" THEN Larger(clock - acc.open, 0) ELSE 0)]

PhoneLoop(L, clock) == [PhoneSums(L, clock) EXCEPT !.elapsed = @ \div Second]
-----------------------------------------------------------------------------
(* Every log: events with any sequence number, type and claimed time, in   *)
(* any order of arrival, under a clock that advances.                      *)

Init == log = <<>> /\ now = 0

Record(n, e) ==
    /\ n \notin DOMAIN log
    /\ log' = [m \in DOMAIN log \cup {n} |-> IF m = n THEN e ELSE log[m]]
    /\ UNCHANGED now

Tick == now < Horizon /\ now' = now + 1 /\ UNCHANGED log

Next ==
    \/ \E n \in 1..MaxSeq, type \in EventType, at \in 0..Horizon :
         Record(n, [type |-> type, at |-> at])
    \/ Tick

Spec == Init /\ [][Next]_vars
-----------------------------------------------------------------------------
AllWhole == WholeSeconds(now) /\ \A n \in DOMAIN log : WholeSeconds(log[n].at)

(* The server's loop computes the timeline the rules define, for every log *)
(* and every clock, in whole seconds (timeline.py, derive_timeline).  The  *)
(* credited time is one second short at most, and not even that when every *)
(* time is a whole second or the exact sum is not.                         *)
LoopMeetsDefinition ==
    log # <<>> => \A low \in BOOLEAN :
        LET s == ServerLoop(log, now, low)
            d == DeriveTimeline(log, now)
            exact == d.elapsed \div Second
        IN  /\ s.status = d.status
            /\ s.startedAt = d.startedAt
            /\ s.endedAt = d.endedAt
            /\ s.problems = d.problems
            /\ s.longest = d.longest \div Second
            /\ s.elapsed \in {exact, exact - 1}
            /\ (AllWhole \/ ~WholeSeconds(d.elapsed)) => s.elapsed = exact

(* The phone shows what the server will credit, or one second more; never  *)
(* less, and never anything else when times are whole seconds: the two may *)
(* not "drift in a way that benefits a user"                               *)
(* (apps/mobile/src/features/timer/timeline.ts:7).                         *)
PhoneAgreesWithServer ==
    log # <<>> => \A low \in BOOLEAN :
        LET p == PhoneLoop(log, now)
            s == ServerLoop(log, now, low)
        IN  /\ p.status = s.status
            /\ p.startedAt = s.startedAt
            /\ p.endedAt = s.endedAt
            /\ p.elapsed \in {s.elapsed, s.elapsed + 1}
            /\ AllWhole => p.elapsed = s.elapsed

(* No log, however disordered, is credited more than the wall time between *)
(* its start and its end; while it runs, no more than up to the later of   *)
(* the clock and the last claimed time.  Nor does the rounding ever make   *)
(* the longest interval longer than the whole.                             *)
CreditWithinSpan ==
    log # <<>> => \A low \in BOOLEAN :
        LET d == ServerLoop(log, now, low)
            upto == IF d.status = "completed" THEN d.endedAt
                    ELSE Max({now, Clamped(log, Last0(log))})
        IN  /\ d.elapsed \in 0..(Larger(upto - d.startedAt, 0) \div Second)
            /\ d.longest \in 0..d.elapsed

(* Once a log has its stop, neither the clock nor an event recorded behind *)
(* the stop changes status, end or credited time.                          *)
StopFreezesCredit ==
    [][ (/\ Stopped(log)
         /\ \A n \in DOMAIN log' \ DOMAIN log : \E s \in Stops(log) : s < n)
        => \A low \in BOOLEAN :
           LET before == ServerLoop(log, now, low)
               after == ServerLoop(log', now', low)
           IN  /\ after.status = "completed"
               /\ after.endedAt = before.endedAt
               /\ after.elapsed = before.elapsed ]_vars
=============================================================================
