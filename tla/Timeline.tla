------------------------------ MODULE Timeline ------------------------------
(***************************************************************************)
(* The rules every study session is judged by, free of state:              *)
(*   - what a session's event log says (domain/sessions/timeline.py), and  *)
(*   - whether the session may count for the league                        *)
(*     (domain/sessions/integrity.py).                                     *)
(*                                                                         *)
(* A log is a function from the sequence numbers that have been recorded   *)
(* to events.  Events reach the server in any order and a client may leave *)
(* numbers out, so its domain is any finite set of positive integers.      *)
(* Times are naturals; a tick stands for as much time as the thresholds of *)
(* a configuration make it stand for.  Credited time is the exact sum      *)
(* here; TimelineLoop has its rounding to seconds.                         *)
(*                                                                         *)
(* What the loop of derive_timeline computes is defined here by what it    *)
(* means (intervals, clamped times).  TimelineLoop has the loop itself and *)
(* checks that the two agree.                                              *)
(***************************************************************************)
EXTENDS Integers, FiniteSets, FiniteSetsExt

CONSTANTS
    MaxSession,   \* a longer session is a marathon (max_session_hours)
    MaxInterval,  \* a longer unbroken interval (max_single_interval_hours)
    MaxSkew,      \* tolerated future dating (max_clock_skew_minutes)
    RetroWindow   \* a session may arrive this late (retro_edit_window_hours)

ASSUME ThresholdsAssumption ==
    /\ MaxSession \in Nat
    /\ MaxInterval \in Nat
    /\ MaxSkew \in Nat
    /\ RetroWindow \in Nat

EventType == {"start", "pause", "resume", "stop"}
Opening == {"start", "resume"}
Closing == {"pause", "stop"}

Event == [type : EventType, at : Nat]

Status == {"active", "paused", "completed"}
Running == {"active", "paused"}

NoTime == -1    \* ended_at IS NULL
-----------------------------------------------------------------------------
(* What a log says, event by event.                                        *)

Stops(log) == {n \in DOMAIN log : log[n].type = "stop"}

Stopped(log) == \E n \in DOMAIN log : log[n].type = "stop"

\* Events after the first stop are stored but no longer change anything.
Counted(log) == {n \in DOMAIN log : \A s \in Stops(log) : n <= s}

Earlier(log, n) == {m \in DOMAIN log : m < n}

\* A timestamp that runs backwards is read as the latest one before it.
Clamped(log, n) == Max({log[m].at : m \in Earlier(log, n) \cup {n}})

\* Whether an interval is open when event n arrives, and the events that
\* open and close one: an opening event inside an interval and a closing
\* event outside one change nothing.
OpenBefore(log, n) ==
    /\ Earlier(log, n) # {}
    /\ log[Max(Earlier(log, n))].type \in Opening

Opens(log) ==
    {n \in Counted(log) : log[n].type \in Opening /\ ~OpenBefore(log, n)}

Closes(log) ==
    {n \in Counted(log) : log[n].type \in Closing /\ OpenBefore(log, n)}

Span(log, n) ==
    Clamped(log, n) - Clamped(log, Max(Opens(log) \cap Earlier(log, n)))

\* The interval still open at `now`, which never runs backwards.
OpenSpan(log, now) == Max({now - Clamped(log, Max(Opens(log))), 0})

\* Mutation: judges by the last event alone.
TimelineStatusLast(log) ==
    LET last == log[Max(DOMAIN log)].type
    IN  IF last = "stop" THEN "completed"
        ELSE IF last \in Opening THEN "active" ELSE "paused"

TimelineStatus(log) ==
    IF Stopped(log) THEN "completed"
    ELSE IF log[Max(DOMAIN log)].type \in Opening THEN "active" ELSE "paused"

\* The code names the event in duplicate_* and unexpected_*; the type is left
\* out here because only the presence of a problem is ever looked at.
Problem == {"missing_start", "non_monotonic", "after_stop", "duplicate", "unexpected"}

Problems(log) ==
    {p \in Problem :
        \/ p = "missing_start" /\ log[Min(DOMAIN log)].type # "start"
        \/ p = "non_monotonic" /\ \E n \in DOMAIN log : log[n].at < Clamped(log, n)
        \/ p = "after_stop" /\ Counted(log) # DOMAIN log
        \/ /\ p = "duplicate"
           /\ \E n \in Counted(log) : log[n].type \in Opening /\ OpenBefore(log, n)
        \/ /\ p = "unexpected"
           /\ \E n \in Counted(log) : log[n].type \in Closing /\ ~OpenBefore(log, n)}

\* The time in closed intervals.
ClosedTime(log) == MapThenSumSet(LAMBDA n : Span(log, n), Closes(log))

(* derive_timeline with strict=False, for a log with at least one event.   *)
DeriveTimeline(log, now) ==
    LET status == TimelineStatus(log)
        open == IF status = "active" THEN OpenSpan(log, now) ELSE 0
    IN  [status    |-> status,
         startedAt |-> log[Min(DOMAIN log)].at,
         endedAt   |-> IF Stopped(log) THEN Clamped(log, Min(Stops(log)))
                                       ELSE NoTime,
         elapsed   |-> open + ClosedTime(log),
         longest   |-> Max({Span(log, n) : n \in Closes(log)} \cup {open}),
         problems  |-> Problems(log)]

(* validate_transition: the live events a session accepts in a status.     *)
AllowedFrom(status) ==
    CASE status = "active" -> {"pause", "stop"}
      [] status = "paused" -> {"resume", "stop"}
      [] OTHER -> {}
-----------------------------------------------------------------------------
(* The integrity verdict.                                                  *)

Integrity == {"ok", "flagged", "excluded"}
Reason == {"marathon_session", "long_single_interval", "overlapping_session",
           "timeline_invalid", "clock_skew", "retroactive_edit",
           "event_conflict", "manual_entry"}

Verdict(reasons) ==
    [status |-> IF reasons = {} THEN "ok" ELSE "flagged", reasons |-> reasons]

(* evaluate_session for timer sessions: d is a derived timeline, `latest`  *)
(* the latest time any event claims, `received` the server's clock.        *)
TimerVerdict(d, latest, received, overlaps, conflict) ==
    Verdict({r \in Reason :
        \/ r = "timeline_invalid" /\ d.problems # {}
        \/ r = "event_conflict" /\ conflict
        \/ r = "marathon_session" /\ d.elapsed > MaxSession
        \/ r = "long_single_interval" /\ d.longest > MaxInterval
        \/ r = "overlapping_session" /\ overlaps
        \/ r = "clock_skew" /\ latest - received > MaxSkew
        \/ /\ r = "retroactive_edit"
           /\ d.endedAt # NoTime
           /\ received - d.endedAt > RetroWindow})

ManualVerdict == [status |-> "excluded", reasons |-> {"manual_entry"}]

\* Mutation: judges manual entries by their timeline.
EvaluateAnySource(source, d, latest, received, overlaps, conflict) ==
    TimerVerdict(d, latest, received, overlaps, conflict)

EvaluateSession(source, d, latest, received, overlaps, conflict) ==
    IF source = "manual" THEN ManualVerdict
    ELSE TimerVerdict(d, latest, received, overlaps, conflict)
=============================================================================
