--------------------------- MODULE StudySessions ----------------------------
(***************************************************************************)
(* The server's study-session service (domain/sessions/service.py) and the *)
(* worker that closes abandoned sessions (jobs/session_reaper.py), running *)
(* against one PostgreSQL database at READ COMMITTED.                      *)
(*                                                                         *)
(* Every request is a transaction that reads, flushes inserts and commits  *)
(* in separate steps, so the steps of concurrent requests interleave:      *)
(*   - a read sees what is committed when the statement runs, plus the     *)
(*     transaction's own flushed writes;                                   *)
(*   - a row keeps the attribute values it was loaded with; at commit only *)
(*     the attributes the service gave a different value are written (the  *)
(*     ORM's dirty tracking, no version check);                            *)
(*   - an insert that would break a unique index waits while the rival     *)
(*     transaction is open and fails once it has committed.  A step that   *)
(*     waits or fails is a step that is not enabled; Abort is how the      *)
(*     failed request ends (error 500, rollback in get_db), and also what  *)
(*     a lost connection or a crashed process does.                        *)
(*                                                                         *)
(* Left out: note, went_as_planned, focus mode, device, synced_at and      *)
(* version, which no rule of this component reads.                         *)
(***************************************************************************)
EXTENDS Timeline, Sequences

CONSTANTS
    Users,
    SessionIds,
    Tx,           \* request slots: how many requests can be open at once
    Kinds,        \* the requests a configuration issues
    Uploads,      \* the sessions clients upload to /sync
    Batches,      \* and the sequences they upload them in
    ClaimTimes,   \* occurred_at values sent with live requests, besides now
    ManualSpans,  \* <<started_at, ended_at>> of manual entries
    StaleAfter,   \* the reaper's max_age_hours
    Horizon,      \* bound on the clock
    MaxSeq,       \* bound on sequence numbers
    MaxRequests,  \* bound on the number of user requests
    None          \* no row, no user, no session

Source == {"timer", "manual"}
Steps == {"idle", "load", "insert", "read", "append", "derive", "commit"}
Kind == EventType \cup {"manual", "sync", "reap"}

\* Event logs; a log of one event; two logs put together.
IsLog(L) == \E D \in SUBSET (1..MaxSeq) : L \in [D -> Event]

Only(n, e) == [m \in {n} |-> e]

Merged(A, B) ==
    [n \in DOMAIN A \cup DOMAIN B |-> IF n \in DOMAIN A THEN A[n] ELSE B[n]]

\* One session of an upload: its id, whose subject it names (None: a
\* stranger's), its source and its events.
IsPayload(p) ==
    /\ p.id \in SessionIds
    /\ p.subjectOf \in Users \cup {None}
    /\ p.source \in Source
    /\ IsLog(p.events) /\ p.events # <<>>

ASSUME SessionsAssumption ==
    /\ Kinds \subseteq Kind
    /\ \A p \in Uploads : IsPayload(p)
    /\ Batches \subseteq Seq(Uploads) \ {<<>>}
    /\ ClaimTimes \subseteq Nat
    /\ ManualSpans \subseteq Nat \X Nat
    /\ StaleAfter \in Nat /\ Horizon \in Nat
    /\ MaxSeq \in Nat \ {0} /\ MaxRequests \in Nat
    /\ None \notin Users /\ None \notin SessionIds

Row == [owner : Users, source : Source, status : Status,
        startedAt : Nat, endedAt : Nat \cup {NoTime}, duration : Nat,
        integrity : Integrity, reasons : SUBSET Reason]

ASSUME NoneIsNoRow == None \notin Row

VARIABLES
    now,       \* the server's clock
    sessions,  \* committed study_sessions rows
    log,       \* committed study_session_events, by session and sequence
    audit,     \* committed audit_logs entries, by session
    pc,        \* where each request stands
    req,       \* what each request is about and has read
    work,      \* each request's uncommitted unit of work
    begun      \* user requests so far

db == <<sessions, log, audit>>
vars == <<now, sessions, log, audit, pc, req, work, begun>>
-----------------------------------------------------------------------------
(* Rows.                                                                   *)

IsRunning(row) == row # None /\ row.status \in Running

\* What the table accepts: the column types and the CHECK constraints
\* (duration >= 0 is part of the type).
RowOK(row) ==
    /\ row \in Row
    /\ row.endedAt # NoTime => row.endedAt >= row.startedAt
    /\ row.source = "manual" => row.status = "completed" /\ row.endedAt # NoTime

TimerRow(u, at) ==
    [owner |-> u, source |-> "timer", status |-> "active", startedAt |-> at,
     endedAt |-> NoTime, duration |-> 0, integrity |-> "ok", reasons |-> {}]

ManualRow(u, begin, end) ==
    [owner |-> u, source |-> "manual", status |-> "completed", startedAt |-> begin,
     endedAt |-> end, duration |-> end - begin,
     integrity |-> ManualVerdict.status, reasons |-> ManualVerdict.reasons]

\* One column of an UPDATE: written only if it differs from what was loaded.
Column(committed, loaded, current) == IF current = loaded THEN committed ELSE current

Updated(c, b, o) ==
    [c EXCEPT !.status    = Column(c.status, b.status, o.status),
              !.startedAt = Column(c.startedAt, b.startedAt, o.startedAt),
              !.endedAt   = Column(c.endedAt, b.endedAt, o.endedAt),
              !.duration  = Column(c.duration, b.duration, o.duration),
              !.integrity = Column(c.integrity, b.integrity, o.integrity),
              !.reasons   = Column(c.reasons, b.reasons, o.reasons)]
-----------------------------------------------------------------------------
(* A unit of work: the rows it holds (held), as loaded (base) and as       *)
(* left by the service (obj); the rows it has written to (changed: every   *)
(* change bumps the row's version, so it is written even if nothing else   *)
(* differs); events flushed but not committed (ins); audit entries (notes);*)
(* the rows whose UPDATE has been flushed (locked).  A row it holds without*)
(* a base is one it has inserted.                                          *)

EmptyWork ==
    [held   |-> {}, changed |-> {},
     base   |-> [s \in SessionIds |-> None],
     obj    |-> [s \in SessionIds |-> None],
     ins    |-> [s \in SessionIds |-> <<>>],
     notes  |-> [s \in SessionIds |-> {}],
     locked |-> {}]

NoReq == [kind |-> "none", user |-> None, clock |-> 0, cur |-> None, at |-> 0,
          batch |-> <<>>, stale |-> {}, seen |-> <<>>]

Held(t, s) == s \in work[t].held
Fresh(t, s) == Held(t, s) /\ work[t].base[s] = None
Dirty(t) == {s \in work[t].held : Fresh(t, s) \/ s \in work[t].changed}

\* The row a request would see or leave behind.
Result(t, s) ==
    IF ~Held(t, s) THEN sessions[s]
    ELSE IF Fresh(t, s) THEN work[t].obj[s]
    ELSE Updated(sessions[s], work[t].base[s], work[t].obj[s])

Others(t) == Tx \ {t}

\* UPDATEs wait for the rows that another open request has already updated.
Unlocked(t) == \A t2 \in Others(t) : Dirty(t) \cap work[t2].locked = {}

\* Mutations: without the running index, without the primary key.
InsertableNoIndex(t, u, s) ==
    sessions[s] = None /\ \A t2 \in Others(t) : ~Fresh(t2, s)

InsertableNoKey(t, u, s) ==
    \A r \in SessionIds : IsRunning(Result(t, r)) => Result(t, r).owner # u

\* The primary key and uq_one_running_session_per_user, for an INSERT of a
\* running row s of user u by t.
Insertable(t, u, s) ==
    /\ sessions[s] = None
    /\ \A r \in SessionIds :
         IsRunning(Result(t, r)) => Result(t, r).owner # u
    /\ \A t2 \in Others(t), r \in SessionIds :
         Fresh(t2, r) => r # s /\ work[t2].obj[r].owner # u

\* uq_session_event_sequence, for an INSERT of events N of session s by t.
Appendable(t, s, N) ==
    /\ N \cap DOMAIN log[s] = {}
    /\ \A t2 \in Tx : N \cap DOMAIN work[t2].ins[s] = {}

\* Rows S read by a SELECT.
Loaded(w, S) ==
    LET rows == {s \in S : sessions[s] # None}
    IN  [w EXCEPT !.held = @ \cup rows,
                  !.base = [s \in SessionIds |-> IF s \in rows THEN sessions[s] ELSE @[s]],
                  !.obj  = [s \in SessionIds |-> IF s \in rows THEN sessions[s] ELSE @[s]]]
-----------------------------------------------------------------------------
(* Beginning a request.  Its clock is the `now` its handler passes on.     *)

Begin(t, step, r, S) ==
    /\ pc[t] = "idle"
    /\ pc' = [pc EXCEPT ![t] = step]
    /\ req' = [req EXCEPT ![t] = r]
    /\ work' = [work EXCEPT ![t] = Loaded(EmptyWork, S)]
    /\ UNCHANGED <<now, db>>

UserRequest(kind) ==
    /\ kind \in Kinds
    /\ begun < MaxRequests
    /\ begun' = begun + 1

NewRequest(kind, u) == [NoReq EXCEPT !.kind = kind, !.user = u, !.clock = now]

OccurredAt == {now} \cup ClaimTimes

\* start: refused when get_running finds a session.
BeginStart(t, u, s, at) ==
    /\ UserRequest("start")
    /\ \A r \in SessionIds : IsRunning(sessions[r]) => sessions[r].owner # u
    /\ Begin(t, "insert", [NewRequest("start", u) EXCEPT !.cur = s, !.at = at], {})

\* transition: get_owned and validate_transition, on the row as read here.
BeginTransition(t, u, s, type, at) ==
    /\ UserRequest(type)
    /\ sessions[s] # None
    /\ sessions[s].owner = u
    /\ type \in AllowedFrom(sessions[s].status)
    /\ Begin(t, "read", [NewRequest(type, u) EXCEPT !.cur = s, !.at = at], {s})

BeginSync(t, u, batch) ==
    /\ UserRequest("sync")
    /\ Begin(t, "load", [NewRequest("sync", u) EXCEPT !.batch = batch], {})

\* Mutation: forgets that a paused session is running.
StaleActive == {s \in SessionIds :
                   /\ sessions[s] # None /\ sessions[s].status = "active"
                   /\ sessions[s].startedAt < now - StaleAfter}

Stale == {s \in SessionIds :
             IsRunning(sessions[s]) /\ sessions[s].startedAt < now - StaleAfter}

\* The reaper's candidate query loads all candidate rows at once.
BeginReap(t) ==
    /\ "reap" \in Kinds
    /\ Stale # {}
    /\ Begin(t, "read", [NewRequest("reap", None) EXCEPT !.stale = Stale], Stale)
    /\ UNCHANGED begun
-----------------------------------------------------------------------------
(* The steps of an open request.                                           *)

Step(t, to, r, w) ==
    /\ pc' = [pc EXCEPT ![t] = to]
    /\ req' = [req EXCEPT ![t] = r]
    /\ work' = [work EXCEPT ![t] = w]
    /\ UNCHANGED <<now, db, begun>>

Incoming(t) == Head(req[t].batch)

\* _sync_one, up to the lookup of the row.  A foreign subject or a foreign
\* session ends the whole batch with 404.  The identity map answers for a row
\* this request already holds (a row never changes its owner).
OwnItem(t) ==
    LET row == sessions[Incoming(t).id]
    IN  /\ Incoming(t).subjectOf = req[t].user
        /\ row # None => row.owner = req[t].user

LoadItem(t) ==
    LET s == Incoming(t).id
        known == Held(t, s) \/ sessions[s] # None
    IN  /\ pc[t] = "load"
        /\ OwnItem(t)
        /\ Step(t, IF known THEN "read" ELSE "insert",
                [req[t] EXCEPT !.cur = s],
                IF Held(t, s) THEN work[t] ELSE Loaded(work[t], {s}))

\* Flushing also writes the rows changed earlier in the request.
Flushed(t, w) == [w EXCEPT !.locked = {r \in Dirty(t) : ~Fresh(t, r)}]

\* The new row of a synced session is flushed as a running one, whatever its
\* events say; ck_manual_sessions_are_complete refuses a manual one.
CanInsert(t) ==
    /\ Insertable(t, req[t].user, req[t].cur)
    /\ req[t].kind = "sync" => Incoming(t).source = "timer"
    /\ Unlocked(t)

FlushRow(t) ==
    LET s == req[t].cur
        events == Incoming(t).events
    IN  /\ pc[t] = "insert"
        /\ req[t].kind = "sync"
        /\ CanInsert(t)
        /\ Step(t, "read", req[t],
                [Flushed(t, work[t]) EXCEPT
                    !.held = @ \cup {s},
                    !.obj[s] = TimerRow(req[t].user, events[Min(DOMAIN events)].at)])

\* _load_events: the committed events and this request's own.
ReadLog(t) ==
    /\ pc[t] = "read"
    /\ req[t].kind # "reap"
    /\ Step(t, "append",
            [req[t] EXCEPT !.seen = Merged(log[req[t].cur], work[t].ins[req[t].cur])],
            work[t])

LastEventAt(L) == Max({L[n].at : n \in DOMAIN L})

\* The reaper reads the events of one candidate, and leaves it alone if the
\* last of them is recent.
ReapRead(t, s) ==
    /\ pc[t] = "read"
    /\ req[t].kind = "reap"
    /\ s \in req[t].stale
    /\ IF log[s] # <<>> /\ LastEventAt(log[s]) < req[t].clock - StaleAfter
       THEN Step(t, "append", [req[t] EXCEPT !.cur = s, !.seen = log[s]], work[t])
       ELSE Step(t, IF req[t].stale = {s} THEN "commit" ELSE "read",
                 [req[t] EXCEPT !.stale = @ \ {s}], work[t])

NextSeq(L) == IF L = <<>> THEN 1 ELSE Max(DOMAIN L) + 1

\* Mutation: the reaper writes the wrong closing event.
AddedPause(t) ==
    LET r == req[t]
    IN  IF r.kind = "sync"
        THEN [n \in DOMAIN Incoming(t).events \ DOMAIN r.seen |-> Incoming(t).events[n]]
        ELSE Only(NextSeq(r.seen),
                  [type |-> IF r.kind = "reap" THEN "pause" ELSE r.kind,
                   at   |-> IF r.kind = "reap" THEN LastEventAt(r.seen) ELSE r.at])

\* Mutation: the reaper closes a session when it finds it.
AddedLate(t) ==
    LET r == req[t]
    IN  IF r.kind = "sync"
        THEN [n \in DOMAIN Incoming(t).events \ DOMAIN r.seen |-> Incoming(t).events[n]]
        ELSE Only(NextSeq(r.seen),
                  [type |-> IF r.kind = "reap" THEN "stop" ELSE r.kind,
                   at   |-> IF r.kind = "reap" THEN r.clock ELSE r.at])

\* The events a request adds, given the log it has read.
Added(t) ==
    LET r == req[t]
    IN  CASE r.kind = "sync" ->
               [n \in DOMAIN Incoming(t).events \ DOMAIN r.seen |-> Incoming(t).events[n]]
          [] r.kind = "reap" ->
               Only(NextSeq(r.seen), [type |-> "stop", at |-> LastEventAt(r.seen)])
          [] OTHER ->
               Only(NextSeq(r.seen), [type |-> r.kind, at |-> r.at])

\* The columns' types, ck_event_sequence_positive and the bound on numbers are
\* all in IsLog.
CanAppend(t) ==
    /\ IsLog(Added(t))
    /\ Appendable(t, req[t].cur, DOMAIN Added(t))
    /\ Unlocked(t)

FlushEvents(t) ==
    LET s == req[t].cur
    IN  /\ pc[t] = "append"
        /\ CanAppend(t)
        /\ Step(t, "derive", req[t],
                [Flushed(t, work[t]) EXCEPT !.ins[s] = Merged(@, Added(t))])
-----------------------------------------------------------------------------
(* _apply_timeline: the derived state is put on the row object.            *)

\* Mutation: adds to what is there.
WithTimelineAdded(row, d) ==
    [row EXCEPT !.status = d.status, !.startedAt = d.startedAt,
                !.endedAt = d.endedAt, !.duration = @ + d.elapsed]

WithTimeline(row, d) ==
    [row EXCEPT !.status = d.status, !.startedAt = d.startedAt,
                !.endedAt = d.endedAt, !.duration = d.elapsed]

WithVerdict(row, v) == [row EXCEPT !.integrity = v.status, !.reasons = v.reasons]

\* An audit_logs entry: its action and the reasons it gives.
Entry(action, reasons) == [action |-> action, reasons |-> reasons]
Synced == Entry("synced", {})
AutoClose == Entry("auto_closed", {})
ManualCreated == Entry("manual_created", {})

\* Mutation: compares with the status after it has been overwritten.
FlagNoteLate(row, v) ==
    IF v.status # "ok" /\ v.status # WithVerdict(row, v).integrity
    THEN {Entry("integrity_flagged", v.reasons)} ELSE {}

FlagNote(row, v) ==
    IF v.status # "ok" /\ v.status # row.integrity
    THEN {Entry("integrity_flagged", v.reasons)} ELSE {}

\* _overlaps_existing: another completed timer session of the user.
Overlaps(t, s, d) ==
    /\ d.endedAt # NoTime
    /\ \E r \in SessionIds \ {s} :
         LET other == Result(t, r)
         IN  /\ Held(t, r) \/ sessions[r] # None
             /\ other.owner = req[t].user
             /\ other.source = "timer"
             /\ other.status = "completed"
             /\ other.endedAt # NoTime
             /\ other.startedAt < d.endedAt
             /\ other.endedAt > d.startedAt

\* Mutation: derives from the events as read before the flush.
DeriveTransitionEarly(t) ==
    LET s == req[t].cur
        d == DeriveTimeline(req[t].seen, req[t].clock)
    IN  /\ pc[t] = "derive"
        /\ req[t].kind \in {"pause", "resume", "stop"}
        /\ Step(t, "commit", req[t],
                [work[t] EXCEPT !.changed = @ \cup {s},
                                !.obj[s] = WithTimeline(@, d)])

\* The events as loaded again after the flush.
DeriveTransition(t) ==
    LET s == req[t].cur
        L == Merged(log[s], work[t].ins[s])
        d == DeriveTimeline(L, req[t].clock)
        row == WithTimeline(work[t].obj[s], d)
        v == EvaluateSession(row.source, d, LastEventAt(L), req[t].clock, FALSE, FALSE)
    IN  /\ pc[t] = "derive"
        /\ req[t].kind \in {"pause", "resume", "stop"}
        /\ Step(t, "commit", req[t],
                IF req[t].kind # "stop"
                THEN [work[t] EXCEPT !.changed = @ \cup {s}, !.obj[s] = row]
                ELSE [work[t] EXCEPT !.changed = @ \cup {s},
                                     !.obj[s] = WithVerdict(row, v),
                                     !.notes[s] = @ \cup FlagNote(row, v)])

DeriveSync(t) ==
    LET s == req[t].cur
        sent == Incoming(t).events
        L == Merged(log[s], work[t].ins[s])
        d == DeriveTimeline(L, req[t].clock)
        row == WithTimeline(work[t].obj[s], d)
        conflict == \E n \in DOMAIN sent \cap DOMAIN req[t].seen :
                        sent[n] # req[t].seen[n]
        appended == DOMAIN sent \ DOMAIN req[t].seen # {}
        v == EvaluateSession(row.source, d, LastEventAt(L), req[t].clock,
                             Overlaps(t, s, d), conflict)
    IN  /\ pc[t] = "derive"
        /\ req[t].kind = "sync"
        /\ Step(t, IF Len(req[t].batch) = 1 THEN "commit" ELSE "load",
                [req[t] EXCEPT !.batch = Tail(@)],
                [work[t] EXCEPT
                    !.changed = @ \cup {s},
                    !.obj[s] = WithVerdict(row, v),
                    !.notes[s] = @ \cup FlagNote(row, v)
                                   \cup (IF appended \/ conflict THEN {Synced} ELSE {})])

AutoClosed(row, d) ==
    [row EXCEPT !.status = "completed", !.endedAt = d.endedAt, !.duration = d.elapsed]

\* The reaper judges from the events it read, without loading them again.
DeriveReap(t) ==
    LET s == req[t].cur
        d == DeriveTimeline(Merged(req[t].seen, Added(t)), req[t].clock)
    IN  /\ pc[t] = "derive"
        /\ req[t].kind = "reap"
        /\ Step(t, IF req[t].stale = {s} THEN "commit" ELSE "read",
                [req[t] EXCEPT !.stale = @ \ {s}],
                [work[t] EXCEPT
                    !.changed = @ \cup {s},
                    !.obj[s] = WithVerdict(AutoClosed(@, d), Verdict({"marathon_session"})),
                    !.notes[s] = @ \cup {AutoClose}])
-----------------------------------------------------------------------------
(* The ends of a request.                                                  *)

Finish(t) ==
    /\ pc' = [pc EXCEPT ![t] = "idle"]
    /\ req' = [req EXCEPT ![t] = NoReq]
    /\ work' = [work EXCEPT ![t] = EmptyWork]
    /\ UNCHANGED <<now, begun>>

\* Mutation: numbers the first event 0.
CommitStartZero(t) ==
    LET s == req[t].cur
    IN  /\ pc[t] = "insert"
        /\ req[t].kind = "start"
        /\ CanInsert(t)
        /\ sessions' = [sessions EXCEPT ![s] = TimerRow(req[t].user, req[t].at)]
        /\ log' = [log EXCEPT ![s] = Merged(Only(0, [type |-> "start", at |-> req[t].at]), @)]
        /\ UNCHANGED audit
        /\ Finish(t)

\* start flushes its row and first event in the commit itself.
CommitStart(t) ==
    LET s == req[t].cur
    IN  /\ pc[t] = "insert"
        /\ req[t].kind = "start"
        /\ CanInsert(t)
        /\ sessions' = [sessions EXCEPT ![s] = TimerRow(req[t].user, req[t].at)]
        /\ log' = [log EXCEPT ![s] = Merged(Only(1, [type |-> "start", at |-> req[t].at]), @)]
        /\ UNCHANGED audit
        /\ Finish(t)

\* The constraints the last UPDATEs have to meet.
Committable(t) ==
    /\ Unlocked(t)
    /\ \A s \in Dirty(t) :
         LET row == Result(t, s)
         IN  /\ RowOK(row)
             /\ row.status \in Running =>
                  /\ \A r \in SessionIds \ {s} :
                       IsRunning(Result(t, r)) => Result(t, r).owner # row.owner
                  /\ \A t2 \in Others(t), r \in SessionIds :
                       Fresh(t2, r) => work[t2].obj[r].owner # row.owner

Commit(t) ==
    /\ pc[t] = "commit"
    /\ Committable(t)
    /\ sessions' = [s \in SessionIds |-> Result(t, s)]
    /\ log' = [s \in SessionIds |-> Merged(work[t].ins[s], log[s])]
    /\ audit' = [s \in SessionIds |-> audit[s] \cup work[t].notes[s]]
    /\ Finish(t)

Abort(t) ==
    /\ pc[t] # "idle"
    /\ UNCHANGED db
    /\ Finish(t)

\* create_manual reads nothing another request could change and inserts a row
\* under a new id.
CreateManual(u, s, span) ==
    /\ UserRequest("manual")
    /\ span[1] < span[2]
    /\ sessions[s] = None
    /\ \A t \in Tx : ~Held(t, s)
    /\ sessions' = [sessions EXCEPT ![s] = ManualRow(u, span[1], span[2])]
    /\ audit' = [audit EXCEPT ![s] = @ \cup {ManualCreated}]
    /\ UNCHANGED <<now, log, pc, req, work>>

Tick == now < Horizon /\ now' = now + 1 /\ UNCHANGED <<db, pc, req, work, begun>>
-----------------------------------------------------------------------------
Init ==
    /\ now = 0
    /\ sessions = [s \in SessionIds |-> None]
    /\ log = [s \in SessionIds |-> <<>>]
    /\ audit = [s \in SessionIds |-> {}]
    /\ pc = [t \in Tx |-> "idle"]
    /\ req = [t \in Tx |-> NoReq]
    /\ work = [t \in Tx |-> EmptyWork]
    /\ begun = 0

Arrive(t) ==
    \/ \E u \in Users, s \in SessionIds, at \in OccurredAt :
         \/ BeginStart(t, u, s, at)
         \/ \E type \in {"pause", "resume", "stop"} : BeginTransition(t, u, s, type, at)
    \/ \E u \in Users, batch \in Batches : BeginSync(t, u, batch)

Proceed(t) ==
    \/ LoadItem(t)
    \/ FlushRow(t)
    \/ ReadLog(t)
    \/ \E s \in SessionIds : ReapRead(t, s)
    \/ FlushEvents(t)
    \/ DeriveTransition(t)
    \/ DeriveSync(t)
    \/ DeriveReap(t)
    \/ CommitStart(t)
    \/ Commit(t)

Next ==
    \/ Tick
    \/ \E u \in Users, s \in SessionIds, span \in ManualSpans : CreateManual(u, s, span)
    \/ \E t \in Tx : Arrive(t) \/ BeginReap(t) \/ Proceed(t) \/ Abort(t)

Spec == Init /\ [][Next]_vars

(* Fair schedules: the clock and the worker's cron keep going, an open     *)
(* request comes to its end, and requests end early only when they are     *)
(* stuck (waiting or failed), not because of endless crashes.              *)
Stuck(t) ==
    \/ pc[t] = "load" /\ ~OwnItem(t)
    \/ pc[t] = "insert" /\ ~CanInsert(t)
    \/ pc[t] = "append" /\ ~CanAppend(t)
    \/ pc[t] = "commit" /\ ~Committable(t)

AbortStuck(t) == Stuck(t) /\ Abort(t)

SteadyNext ==
    \/ Tick
    \/ \E u \in Users, s \in SessionIds, span \in ManualSpans : CreateManual(u, s, span)
    \/ \E t \in Tx : Arrive(t) \/ BeginReap(t) \/ Proceed(t) \/ AbortStuck(t)

FairSpec ==
    /\ Init /\ [][SteadyNext]_vars
    /\ WF_vars(Tick)
    /\ WF_vars(\E t \in Tx : BeginReap(t))
    /\ \A t \in Tx : []<>(pc[t] = "idle")
-----------------------------------------------------------------------------
AuditEntry ==
    {Synced, AutoClose, ManualCreated} \cup
    {Entry("integrity_flagged", R) : R \in SUBSET Reason}

\* The fields of requests, rows and units of work.
HasFields(F, r) == r = [f \in F |-> r[f]]

RequestShape(r) ==
    /\ HasFields({"kind", "user", "clock", "cur", "at", "batch", "stale", "seen"}, r)
    /\ r.kind \in Kind \cup {"none"} /\ r.user \in Users \cup {None}
    /\ r.clock \in Nat /\ r.at \in Nat
    /\ r.cur \in SessionIds \cup {None} /\ r.stale \subseteq SessionIds
    /\ r.batch \in Seq(Uploads) /\ IsLog(r.seen)

\* A row object has a row's columns; only the database checks their types.
RowShape(o) ==
    HasFields({"owner", "source", "status", "startedAt", "endedAt", "duration",
               "integrity", "reasons"}, o)

WorkShape(w) ==
    /\ HasFields({"held", "changed", "base", "obj", "ins", "notes", "locked"}, w)
    /\ w.held \subseteq SessionIds /\ w.changed \subseteq w.held
    /\ w.locked \subseteq w.changed
    /\ w.base \in [SessionIds -> Row \cup {None}]
    /\ w.obj = [s \in SessionIds |-> w.obj[s]]
    /\ \A s \in w.held : RowShape(w.obj[s])
    /\ w.ins = [s \in SessionIds |-> w.ins[s]] /\ \A s \in SessionIds : IsLog(w.ins[s])
    /\ w.notes \in [SessionIds -> SUBSET AuditEntry]

TypeOK ==
    /\ now \in Nat
    /\ sessions \in [SessionIds -> Row \cup {None}]
    /\ log = [s \in SessionIds |-> log[s]] /\ \A s \in SessionIds : IsLog(log[s])
    /\ audit \in [SessionIds -> SUBSET AuditEntry]
    /\ pc \in [Tx -> Steps]
    /\ req = [t \in Tx |-> req[t]] /\ \A t \in Tx : RequestShape(req[t])
    /\ work = [t \in Tx |-> work[t]] /\ \A t \in Tx : WorkShape(work[t])
    /\ begun \in Nat

(* One running session per user, whatever requests of one user's devices   *)
(* and the reaper interleave: "a race between two devices fails at the     *)
(* database" (service.py:7, DATA_MODEL.md:118).                            *)
OneRunningPerUser ==
    \A s, r \in SessionIds :
        (IsRunning(sessions[s]) /\ IsRunning(sessions[r])
            /\ sessions[s].owner = sessions[r].owner) => s = r

(* Recorded events are never changed or lost, whichever requests race to   *)
(* append (study.py:140, "Rows are never updated or deleted").             *)
LogAppendOnly ==
    [][\A s \in SessionIds :
          /\ DOMAIN log[s] \subseteq DOMAIN log'[s]
          /\ \A n \in DOMAIN log[s] : log'[s][n] = log[s][n]]_vars

Owner(s) == IF sessions[s] = None THEN None ELSE sessions[s].owner

AutoClosedRows == {s \in SessionIds : AutoClose \in audit[s]}

Promised == INSTANCE Ledger WITH
    owner <- [s \in SessionIds |-> Owner(s)], closed <- AutoClosedRows

(* The service and the reaper together implement the ledger: a session's   *)
(* record belongs to its first owner, who alone adds to it, and "a         *)
(* forgotten timer never inflates study time" (session_reaper.py:8): what  *)
(* the reaper adds, while the record grows under it, is one stop at a time *)
(* that was on record, and it leaves an audit entry.                       *)
ImplementsLedger == Promised!Spec

(* A timer session is completed only if its event log says so: no request  *)
(* or race completes a session without a stop on record.                   *)
CompletedHasStop ==
    \A s \in SessionIds :
        (/\ sessions[s] # None
         /\ sessions[s].source = "timer"
         /\ sessions[s].status = "completed") => Stopped(log[s])

(* A stop on record ends the session for good: while only live requests    *)
(* and the reaper race, no stale write brings a stopped session back.      *)
StopEndsSession ==
    \A s \in SessionIds : Stopped(log[s]) => sessions[s].status = "completed"

(* A client never writes another user's session, also when two users upload *)
(* the same id at once (OFFLINE_SYNC.md, sync step 1): a user's request     *)
(* changes only rows that are, and stay, that user's.                       *)
WritesOwnRows ==
    [][\A t \in Tx, s \in SessionIds :
          (/\ pc[t] # "idle" /\ pc'[t] = "idle" /\ req[t].kind # "reap"
           /\ <<sessions[s], log[s]>>' # <<sessions[s], log[s]>>)
             => /\ sessions'[s].owner = req[t].user
                /\ sessions[s] # None => sessions[s].owner = req[t].user]_vars

(* Time entered by hand never becomes verified, also when events are later *)
(* synced onto the entry (ASSUMPTIONS.md:51, SECURITY.md).                 *)
ManualNeverVerified ==
    \A s \in SessionIds :
        (sessions[s] # None /\ sessions[s].source = "manual")
            => sessions[s].integrity # "ok"

Excluded(row) == row # None /\ row.integrity # "ok"

\* No upload names a session twice, as no phone does.
NamedOnce ==
    \A batch \in Batches : \A i, j \in DOMAIN batch :
        batch[i].id = batch[j].id => i = j

\* The reasons an entry gives for an exclusion; the reaper's are its action.
Given(entry) ==
    IF entry = AutoClose THEN {"marathon_session"} ELSE entry.reasons

(* "suspicious records are flagged and explained" (README.md:26): a commit *)
(* that takes a row out of competition brings an audit entry of it that    *)
(* was written for it in the same unit of work and gives reasons; they are *)
(* those the row then has, unless the row changed between the request's    *)
(* read and its commit or was uploaded twice in one batch.                 *)
ExclusionIsAudited ==
    [][\A s \in SessionIds : (~Excluded(sessions[s]) /\ Excluded(sessions'[s])) =>
          \/ sessions'[s].source = "manual" /\ ManualCreated \in audit'[s]
          \/ \E t \in Tx : \E entry \in work[t].notes[s] :
                /\ pc[t] = "commit" /\ pc'[t] = "idle"
                /\ entry \in audit'[s]
                /\ Given(entry) # {}
                /\ (NamedOnce /\ work[t].base[s] = sessions[s])
                     => sessions'[s].reasons = Given(entry)]_vars

(* What the row of a timer session caches is what its log derives          *)
(* (ADR-0002: duration_seconds is a cache, recomputable at any time).  The *)
(* duration of a running session moves with the clock and is left out.     *)
CacheMatchesLog ==
    \A s \in SessionIds :
        (sessions[s] # None /\ sessions[s].source = "timer") =>
            LET row == sessions[s]
                d == DeriveTimeline(log[s], now)
            IN  /\ row.status = d.status
                /\ row.startedAt = d.startedAt
                /\ row.endedAt = d.endedAt
                /\ row.status = "completed" => row.duration = d.elapsed

Verified(row) ==
    row # None /\ row.source = "timer" /\ row.status = "completed" /\ row.integrity = "ok"

(* No stretch of time is verified twice: two verified sessions of a user   *)
(* do not overlap (integrity.py:53, "only one of them can count").  It     *)
(* holds of sessions that are uploaded whole, also when two devices send   *)
(* theirs at once; a live session with a claimed start is not compared     *)
(* with the others, and two uploads that write different columns of one    *)
(* row can leave it verified.                                              *)
VerifiedDisjoint ==
    \A s, r \in SessionIds :
        (/\ s # r
         /\ Verified(sessions[s]) /\ Verified(sessions[r])
         /\ sessions[s].owner = sessions[r].owner)
            => \/ sessions[s].endedAt <= sessions[r].startedAt
               \/ sessions[r].endedAt <= sessions[s].startedAt

(* A session whose last event the reaper's cutoff has passed does not stay *)
(* running (session_reaper.py:3): its user can start the next one.         *)
AbandonedIsClosed ==
    \A s \in SessionIds :
        []<>~(/\ IsRunning(sessions[s])
              /\ LastEventAt(log[s]) < Horizon - StaleAfter)

(* "retries can never double-count" (OFFLINE_SYNC.md:7): a sync that adds no *)
(* event to a finished session leaves the time it is credited as it was, if *)
(* sessions are uploaded whole or one request follows another.              *)
RetryKeepsCredit ==
    [][\A t \in Tx, s \in SessionIds :
          (/\ req[t].kind = "sync" /\ pc[t] = "commit" /\ pc'[t] = "idle"
           /\ s \in work[t].changed /\ work[t].ins[s] = <<>>
           /\ sessions[s].status = "completed")
             => LET row == sessions'[s] old == sessions[s]
                IN  /\ row.status = "completed" /\ row.duration = old.duration
                    /\ row.startedAt = old.startedAt /\ row.endedAt = old.endedAt]_vars
=============================================================================
