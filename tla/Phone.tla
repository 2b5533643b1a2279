------------------------------- MODULE Phone --------------------------------
(***************************************************************************)
(* The mobile app's offline timer: the timer store (timerStore.ts), the    *)
(* SQLite tables it writes (database.ts), the outbox that uploads finished *)
(* sessions (outbox.ts, run by useSync.ts), and the sign-in state          *)
(* (AuthProvider.tsx).                                                     *)
(*                                                                         *)
(* The app runs on one JavaScript thread: a handler runs without           *)
(* interruption up to its next await, so each step below ends at one.      *)
(* Between two steps another button press, a flush of either screen that   *)
(* mounts useSync, a sign-out or the death of the process can take place.  *)
(*                                                                         *)
(* Sessions are numbered in the order they are started, which is the order *)
(* the queries sort them in.  Event times are left out (Timeline models    *)
(* what they do), and so is the server's side of an upload beyond what the *)
(* phone can observe: StudySessions models it, here it is one step.  A     *)
(* session's note is left out: no screen passes one to stop().             *)
(***************************************************************************)
EXTENDS Naturals, FiniteSets, FiniteSetsExt

CONSTANTS
    Accounts,
    Nobody,       \* no account is signed in
    None,         \* no row, no session
    Taps,         \* button presses that can be in progress at once
    Flushers,     \* mounted screens that run useSync
    MaxBatch,     \* sessions the server accepts in one upload
    MaxLog,       \* events the server accepts of one session
    FaultKinds,   \* what may go wrong, besides the network
    MaxFaults,    \* bound on how often it does
    MaxSessions,  \* bound on the sessions started
    MaxEvents     \* bound on a session's events when a button is pressed

EventType == {"start", "pause", "resume", "stop"}
SyncState == {"local_only", "syncing", "synced", "rejected"}
Fault == {"crash", "write", "read", "auth", "signout", "press"}
Session == 1..MaxSessions

ASSUME PhoneAssumption ==
    /\ Nobody \notin Accounts
    /\ MaxBatch \in Nat /\ MaxLog \in Nat /\ MaxFaults \in Nat
    /\ MaxSessions \in Nat /\ MaxEvents \in Nat
    /\ FaultKinds \subseteq Fault
    /\ IsFiniteSet(Flushers)

Row == [status : {"active", "paused", "completed"}, sync : SyncState, by : Accounts]

ASSUME NoneIsNothing == None \notin Row /\ None \notin Session

VARIABLES
    account,  \* who is signed in
    rows,     \* local_sessions; by is the account whose subject it names
    events,   \* local_events: each session's event types by sequence number
    ui,       \* the timer store: hydrated or not, its session, its events
    tap,      \* the button presses in progress
    fl,       \* the flushes in progress
    late,     \* requests whose sender has given up and that may still arrive
    server,   \* the events the server has of each session
    made,     \* sessions started so far
    faults,   \* what has gone wrong so far
    crossed   \* whether a button was pressed while a press was handled

local == <<rows, events>>
vars == <<account, rows, events, ui, tap, fl, late, server, made, faults, crossed>>
-----------------------------------------------------------------------------
(* Event logs.                                                             *)

\* Mutation: INSERT OR REPLACE.
InsertReplacing(L, n, e) == [m \in DOMAIN L \cup {n} |-> IF m = n THEN e ELSE L[m]]

\* INSERT OR IGNORE under UNIQUE (session_id, sequence).
Insert(L, n, e) == [m \in DOMAIN L \cup {n} |-> IF m \in DOMAIN L THEN L[m] ELSE e]

\* Mutation: the last number is used again.
NextSequenceLast(L) == IF L = <<>> THEN 1 ELSE Max(DOMAIN L)

NextSequence(L) == Max(DOMAIN L \cup {0}) + 1

\* What the server adds to a session: the sequence numbers it has not seen.
Absorb(L, M) == [m \in DOMAIN L \cup DOMAIN M |-> IF m \in DOMAIN L THEN L[m] ELSE M[m]]

IsLast(L, n) == n \in DOMAIN L /\ \A m \in DOMAIN L : m <= n

DeriveTimerState(L) ==
    IF L = <<>> THEN "idle"
    ELSE IF \E n \in DOMAIN L : L[n] = "stop" THEN "completed"
    ELSE IF \E n \in DOMAIN L : IsLast(L, n) /\ L[n] = "pause" THEN "paused"
    ELSE "active"

CanTransition(status, e) ==
    \/ status = "idle" /\ e = "start"
    \/ status = "active" /\ e \in {"pause", "stop"}
    \/ status = "paused" /\ e \in {"resume", "stop"}
-----------------------------------------------------------------------------
(* Rows.                                                                   *)

Exists(s) == rows[s] # None
Running(s) == Exists(s) /\ rows[s].status \in {"active", "paused"}
\* Mutation: a row left syncing is not picked up.
PendingLocal(s) == Exists(s) /\ rows[s].sync = "local_only"

Pending(s) == Exists(s) /\ rows[s].sync \in {"local_only", "syncing"}
Eligible == {s \in Session : Pending(s) /\ rows[s].status = "completed"}

\* An UPDATE of a row that is not there changes nothing.
SetSync(s, state) ==
    rows' = IF Exists(s) THEN [rows EXCEPT ![s].sync = state] ELSE rows

\* DELETE FROM local_sessions, whose events go with it (ON DELETE CASCADE).
Delete(S) ==
    /\ rows' = [s \in Session |-> IF s \in S THEN None ELSE rows[s]]
    /\ events' = [s \in Session |-> IF s \in S THEN <<>> ELSE events[s]]

NoTap == [step |-> "none", kind |-> "start", s |-> None, n |-> 0, seen |-> <<>>, by |-> Nobody]
NoFlush == [step |-> "idle", elig |-> {}, todo |-> {}, payload |-> <<>>,
            from |-> Nobody, reply |-> "none"]
Cold == [ready |-> FALSE, session |-> None, events |-> <<>>]

Init ==
    /\ account = Nobody
    /\ rows = [s \in Session |-> None]
    /\ events = [s \in Session |-> <<>>]
    /\ ui = Cold
    /\ tap = [t \in Taps |-> NoTap]
    /\ fl = [f \in Flushers |-> NoFlush]
    /\ late = {}
    /\ server = [s \in Session |-> <<>>]
    /\ made = 0 /\ faults = 0 /\ crossed = FALSE

Happens(kind) ==
    /\ kind \in FaultKinds /\ faults < MaxFaults
    /\ faults' = faults + 1
-----------------------------------------------------------------------------
(* The timer's buttons: start, pause, resume, stop.  A handler checks the  *)
(* state it sees on the screen, then awaits the database.                  *)

Screen == ui.ready /\ account # Nobody

\* No button is disabled while a press is handled; how often one is pressed
\* then is bounded like the faults, and remembered.
Overlap ==
    IF \E t \in Taps : tap[t].step # "none"
    THEN Happens("press") /\ crossed' = TRUE
    ELSE UNCHANGED <<faults, crossed>>

TapStart(t) ==
    /\ Screen /\ tap[t].step = "none"
    /\ DeriveTimerState(ui.events) \notin {"active", "paused"}
    /\ made < MaxSessions
    /\ made' = made + 1
    /\ tap' = [tap EXCEPT ![t] = [step |-> "insert", kind |-> "start", s |-> made + 1,
                                  n |-> 1, seen |-> <<>>, by |-> account]]
    /\ Overlap
    /\ UNCHANGED <<account, rows, events, ui, fl, late, server>>

TapOther(t, e) ==
    /\ Screen /\ tap[t].step = "none"
    /\ e # "start" /\ ui.session # None
    /\ CanTransition(DeriveTimerState(ui.events), e)
    /\ Cardinality(DOMAIN events[ui.session]) < MaxEvents
    /\ tap' = [tap EXCEPT ![t] = [step |-> "number", kind |-> e, s |-> ui.session,
                                  n |-> 0, seen |-> ui.events, by |-> account]]
    /\ Overlap
    /\ UNCHANGED <<account, rows, events, ui, fl, late, server, made>>

InsertSession(t) ==
    /\ tap[t].step = "insert"
    /\ rows' = [rows EXCEPT ![tap[t].s] = [status |-> "active", sync |-> "local_only",
                                           by |-> tap[t].by]]
    /\ tap' = [tap EXCEPT ![t].step = "append"]
    /\ UNCHANGED <<account, events, ui, fl, late, server, made, faults, crossed>>

GetNextSequence(t) ==
    /\ tap[t].step = "number"
    /\ tap' = [tap EXCEPT ![t].step = "append", ![t].n = NextSequence(events[tap[t].s])]
    /\ UNCHANGED <<account, rows, events, ui, fl, late, server, made, faults, crossed>>

\* The events the handler saw when it was called, and its own.
Shown(t) ==
    [ready |-> TRUE, session |-> tap[t].s,
     events |-> [m \in DOMAIN tap[t].seen \cup {tap[t].n} |->
                     IF m = tap[t].n THEN tap[t].kind ELSE tap[t].seen[m]]]

\* The foreign key refuses an event of a session that is gone: the handler
\* ends with an error.  A start is on the screen once its event is stored.
AppendEvent(t) ==
    /\ tap[t].step = "append"
    /\ LET s == tap[t].s IN
       \/ /\ ~Exists(s)
          /\ tap' = [tap EXCEPT ![t] = NoTap]
          /\ UNCHANGED <<events, ui>>
       \/ /\ Exists(s)
          /\ events' = [events EXCEPT ![s] = Insert(@, tap[t].n, tap[t].kind)]
          /\ IF tap[t].kind = "start"
             THEN /\ tap' = [tap EXCEPT ![t] = NoTap]
                  /\ ui' = Shown(t)
             ELSE /\ tap' = [tap EXCEPT ![t].step = "persist"]
                  /\ UNCHANGED ui
    /\ UNCHANGED <<account, rows, fl, late, server, made, faults, crossed>>

\* The row's status and the screen follow what the handler shows, not what
\* is stored by now.
PersistStatus(t) ==
    /\ tap[t].step = "persist"
    /\ LET s == tap[t].s IN
       rows' = IF Exists(s)
               THEN [rows EXCEPT ![s].status = DeriveTimerState(Shown(t).events)]
               ELSE rows
    /\ ui' = Shown(t)
    /\ tap' = [tap EXCEPT ![t] = NoTap]
    /\ UNCHANGED <<account, events, fl, late, server, made, faults, crossed>>

\* The awaited database call throws; the handler reports it and ends.
TapFails(t) ==
    /\ tap[t].step # "none"
    /\ Happens("write")
    /\ tap' = [tap EXCEPT ![t] = NoTap]
    /\ UNCHANGED <<account, rows, events, ui, fl, late, server, made, crossed>>
-----------------------------------------------------------------------------
(* The process dies; the next launch restores the timer.                   *)

Request(f) == [from |-> fl[f].from, payload |-> fl[f].payload]
Waiting(f) == fl[f].step = "wait" /\ fl[f].reply = "none"

Crash ==
    /\ Happens("crash")
    /\ ui' = Cold
    /\ tap' = [t \in Taps |-> NoTap]
    /\ fl' = [f \in Flushers |-> NoFlush]
    /\ late' = late \cup {Request(f) : f \in {g \in Flushers : Waiting(g)}}
    /\ UNCHANGED <<account, rows, events, server, made, crossed>>

\* Mutation: the oldest running session is restored.
HydrateOldest ==
    /\ ~ui.ready
    /\ \/ \E s \in Session :
             /\ Running(s) /\ \A r \in Session : Running(r) => r >= s
             /\ ui' = [ready |-> TRUE, session |-> s, events |-> events[s]]
       \/ /\ \A s \in Session : ~Running(s)
          /\ ui' = [Cold EXCEPT !.ready = TRUE]
    /\ UNCHANGED <<account, rows, events, tap, fl, late, server, made, faults, crossed>>

Hydrate ==
    /\ ~ui.ready
    /\ \/ \E s \in Session :
             /\ Running(s) /\ \A r \in Session : Running(r) => r <= s
             /\ ui' = [ready |-> TRUE, session |-> s, events |-> events[s]]
       \/ /\ \A s \in Session : ~Running(s)
          /\ ui' = [Cold EXCEPT !.ready = TRUE]
    /\ UNCHANGED <<account, rows, events, tap, fl, late, server, made, faults, crossed>>

HydrateFails ==
    /\ ~ui.ready
    /\ Happens("read")
    /\ ui' = [Cold EXCEPT !.ready = TRUE]
    /\ UNCHANGED <<account, rows, events, tap, fl, late, server, made, crossed>>
-----------------------------------------------------------------------------
(* A flush: read the finished sessions that wait, build their payloads,    *)
(* mark them, send one request, settle every row.  Loops go through the    *)
(* sessions in order; todo is what is left of the loop.                    *)

First(f, s) == s \in fl[f].todo /\ \A r \in fl[f].todo : s <= r

Goto(f, step) == [fl EXCEPT ![f].step = step, ![f].todo = fl[f].elig]

BeginFlush(f) ==
    /\ account # Nobody
    /\ fl[f].step = "idle" /\ Eligible # {}
    /\ fl' = [fl EXCEPT ![f] = [NoFlush EXCEPT !.step = "build",
                                               !.elig = Eligible, !.todo = Eligible]]
    /\ UNCHANGED <<account, rows, events, ui, tap, late, server, made, faults, crossed>>

Entry(s) == [m \in {s} |-> [by |-> rows[s].by, log |-> events[s]]]

\* A session without events is skipped; so is one wiped in the meantime.
BuildPayload(f) ==
    /\ fl[f].step = "build"
    /\ \E s \in Session :
          /\ First(f, s)
          /\ fl' = [fl EXCEPT ![f].todo = @ \ {s},
                              ![f].payload = IF Exists(s) /\ events[s] # <<>>
                                             THEN Absorb(@, Entry(s)) ELSE @]
    /\ UNCHANGED <<account, rows, events, ui, tap, late, server, made, faults, crossed>>

PayloadsBuilt(f) ==
    /\ fl[f].step = "build" /\ fl[f].todo = {}
    /\ fl' = IF fl[f].payload = <<>> THEN [fl EXCEPT ![f] = NoFlush] ELSE Goto(f, "mark")
    /\ UNCHANGED <<account, rows, events, ui, tap, late, server, made, faults, crossed>>

MarkSyncing(f) ==
    /\ fl[f].step = "mark"
    /\ \E s \in Session :
          /\ First(f, s)
          /\ SetSync(s, "syncing")
          /\ fl' = [fl EXCEPT ![f].todo = @ \ {s}]
    /\ UNCHANGED <<account, events, ui, tap, late, server, made, faults, crossed>>

\* The request carries the access token stored when it is sent.
Send(f) ==
    /\ fl[f].step = "mark" /\ fl[f].todo = {}
    /\ fl' = [fl EXCEPT ![f].step = "wait", ![f].from = account]
    /\ UNCHANGED <<account, rows, events, ui, tap, late, server, made, faults, crossed>>

\* The server refuses an upload as a whole: too many sessions, too many events
\* of a session, or a session of a subject the sender does not own.
Refused(r) ==
    \/ Cardinality(DOMAIN r.payload) > MaxBatch
    \/ \E s \in DOMAIN r.payload :
          \/ Cardinality(DOMAIN r.payload[s].log) > MaxLog
          \/ r.payload[s].by # r.from

Sync(r) ==
    server' = IF Refused(r) THEN server
              ELSE [s \in Session |-> IF s \in DOMAIN r.payload
                                      THEN Absorb(server[s], r.payload[s].log)
                                      ELSE server[s]]

Serve(f) ==
    /\ Waiting(f) /\ fl[f].from # Nobody
    /\ Sync(Request(f))
    /\ fl' = [fl EXCEPT ![f].reply = IF Refused(Request(f)) THEN "refused" ELSE "accepted"]
    /\ UNCHANGED <<account, rows, events, ui, tap, late, made, faults, crossed>>

ServeLate(r) ==
    /\ r.from # Nobody
    /\ Sync(r)
    /\ late' = late \ {r}
    /\ UNCHANGED <<account, rows, events, ui, tap, fl, made, faults, crossed>>

\* Mutations: every session that waits is settled, uploaded or not; a refused
\* request is taken for an accepted one.
ReceiveAll(f) ==
    /\ fl[f].step = "wait" /\ fl[f].reply # "none"
    /\ fl' = IF fl[f].reply = "accepted"
             THEN [fl EXCEPT ![f].step = "settle", ![f].todo = Eligible]
             ELSE Goto(f, "requeue")
    /\ UNCHANGED <<account, rows, events, ui, tap, late, server, made, faults, crossed>>

ReceiveAny(f) ==
    /\ fl[f].step = "wait" /\ fl[f].reply # "none"
    /\ fl' = [fl EXCEPT ![f].step = "settle", ![f].todo = DOMAIN fl[f].payload]
    /\ UNCHANGED <<account, rows, events, ui, tap, late, server, made, faults, crossed>>

\* Every payload gets a result; the refused request throws instead.
Receive(f) ==
    /\ fl[f].step = "wait" /\ fl[f].reply # "none"
    /\ fl' = IF fl[f].reply = "accepted"
             THEN [fl EXCEPT ![f].step = "settle", ![f].todo = DOMAIN fl[f].payload]
             ELSE Goto(f, "requeue")
    /\ UNCHANGED <<account, rows, events, ui, tap, late, server, made, faults, crossed>>

\* Offline, a timeout, a 5xx or 429 answer: the request, or its answer, is
\* lost, or the request arrives later.
NetworkError(f) ==
    /\ fl[f].step = "wait"
    /\ late' = IF Waiting(f) THEN late \cup {Request(f)} ELSE late
    /\ fl' = [Goto(f, "requeue") EXCEPT ![f].reply = "none"]
    /\ UNCHANGED <<account, rows, events, ui, tap, server, made, faults, crossed>>

\* 401, and the refresh succeeds: the request is sent again with the tokens
\* of whoever is signed in by then.
Retry(f) ==
    /\ Waiting(f) /\ account # Nobody /\ fl[f].from # account
    /\ fl' = [fl EXCEPT ![f].from = account]
    /\ UNCHANGED <<account, rows, events, ui, tap, late, server, made, faults, crossed>>

\* 401, and the refresh fails: the tokens are dropped and the user is sent
\* to the sign-in screen.
Unauthorized(f) ==
    /\ Waiting(f)
    /\ \/ account = Nobody /\ UNCHANGED faults
       \/ account # Nobody /\ Happens("auth")
    /\ account' = Nobody
    /\ fl' = Goto(f, "requeue")
    /\ UNCHANGED <<rows, events, ui, tap, late, server, made, crossed>>

Settle(f) ==
    /\ fl[f].step = "settle"
    /\ \E s \in Session :
          /\ First(f, s)
          /\ SetSync(s, "synced")
          /\ fl' = [fl EXCEPT ![f].todo = @ \ {s}]
    /\ UNCHANGED <<account, events, ui, tap, late, server, made, faults, crossed>>

\* Mutation: whatever is old is deleted, unless it was never sent.
PruneSent(f) ==
    /\ fl[f].step = "settle" /\ fl[f].todo = {}
    /\ \E last \in 0..MaxSessions :
           Delete({s \in 1..last : Exists(s) /\ rows[s].sync # "local_only"})
    /\ fl' = [fl EXCEPT ![f] = NoFlush]
    /\ UNCHANGED <<account, ui, tap, late, server, made, faults, crossed>>

\* Synced sessions started before some moment are deleted.
Prune(f) ==
    /\ fl[f].step = "settle" /\ fl[f].todo = {}
    /\ \E last \in 0..MaxSessions :
           Delete({s \in 1..last : Exists(s) /\ rows[s].sync = "synced"})
    /\ fl' = [fl EXCEPT ![f] = NoFlush]
    /\ UNCHANGED <<account, ui, tap, late, server, made, faults, crossed>>

Requeue(f) ==
    /\ fl[f].step = "requeue"
    /\ \E s \in Session :
          /\ First(f, s)
          /\ SetSync(s, "local_only")
          /\ fl' = [fl EXCEPT ![f].todo = @ \ {s}]
    /\ UNCHANGED <<account, events, ui, tap, late, server, made, faults, crossed>>

Requeued(f) ==
    /\ fl[f].step = "requeue" /\ fl[f].todo = {}
    /\ fl' = IF fl[f].reply = "refused" THEN Goto(f, "reject")
             ELSE [fl EXCEPT ![f] = NoFlush]
    /\ UNCHANGED <<account, rows, events, ui, tap, late, server, made, faults, crossed>>

Reject(f) ==
    /\ fl[f].step = "reject"
    /\ \E s \in Session :
          /\ First(f, s)
          /\ SetSync(s, "rejected")
          /\ fl' = IF fl[f].todo = {s} THEN [fl EXCEPT ![f] = NoFlush]
                   ELSE [fl EXCEPT ![f].todo = @ \ {s}]
    /\ UNCHANGED <<account, events, ui, tap, late, server, made, faults, crossed>>

\* A database call of a flush throws.  While the results are settled that is
\* an error like any other of the request; elsewhere the flush just ends.
FlushFails(f) ==
    /\ \/ fl[f].step \in {"mark", "requeue", "reject"} /\ fl[f].todo # {}
       \/ fl[f].step \in {"build", "settle"}
    /\ Happens("write")
    /\ fl' = IF fl[f].step = "settle"
             THEN [Goto(f, "requeue") EXCEPT ![f].reply = "none"]
             ELSE [fl EXCEPT ![f] = NoFlush]
    /\ UNCHANGED <<account, rows, events, ui, tap, late, server, made, crossed>>
-----------------------------------------------------------------------------
(* Signing in and out.                                                     *)

SignIn(a) ==
    /\ account = Nobody
    /\ account' = a
    /\ UNCHANGED <<rows, events, ui, tap, fl, late, server, made, faults, crossed>>

\* The local tables are wiped; the timer store is not reset.
SignOut ==
    /\ account # Nobody
    /\ Happens("signout")
    /\ account' = Nobody
    /\ Delete(Session)
    /\ UNCHANGED <<ui, tap, fl, late, server, made, crossed>>

\* Another request of the app gets a 401 and cannot refresh.
Expire ==
    /\ account # Nobody
    /\ Happens("auth")
    /\ account' = Nobody
    /\ UNCHANGED <<rows, events, ui, tap, fl, late, server, made, crossed>>
-----------------------------------------------------------------------------
TapStep(t) ==
    \/ InsertSession(t) \/ GetNextSequence(t) \/ AppendEvent(t) \/ PersistStatus(t)

LocalStep(f) ==
    \/ BuildPayload(f) \/ PayloadsBuilt(f) \/ MarkSyncing(f) \/ Send(f) \/ Settle(f)
    \/ Prune(f) \/ Requeue(f) \/ Requeued(f) \/ Reject(f)

Next ==
    \/ \E t \in Taps : TapStart(t) \/ TapStep(t) \/ TapFails(t)
    \/ \E t \in Taps, e \in EventType : TapOther(t, e)
    \/ Crash \/ Hydrate \/ HydrateFails
    \/ \E f \in Flushers :
          \/ BeginFlush(f) \/ LocalStep(f)
          \/ Serve(f) \/ Receive(f) \/ NetworkError(f) \/ Retry(f) \/ Unauthorized(f)
          \/ FlushFails(f)
    \/ \E r \in late : ServeLate(r)
    \/ \E a \in Accounts : SignIn(a)
    \/ SignOut \/ Expire

Spec == Init /\ [][Next]_vars

\* Code that has been started runs on; the app is launched again after it
\* died; useSync tries again (on mount, in the foreground, every 30 seconds
\* while something waits); a 401 is followed by the retry; and the network
\* does not fail for ever: a request sent again and again is served at some
\* point, and its answer received.
Fairness ==
    /\ WF_vars(Hydrate)
    /\ \A t \in Taps : WF_vars(TapStep(t))
    /\ \A f \in Flushers :
          /\ WF_vars(BeginFlush(f)) /\ WF_vars(LocalStep(f))
          /\ WF_vars(Retry(f))
          /\ SF_vars(Serve(f)) /\ SF_vars(Receive(f))

FairSpec == Spec /\ Fairness
-----------------------------------------------------------------------------
(* What the phone promises.                                                *)

IsLog(L) == /\ DOMAIN L \subseteq Nat \ {0}
            /\ L \in [DOMAIN L -> EventType]

IsPayload(p) ==
    /\ DOMAIN p \subseteq Session
    /\ \A s \in DOMAIN p : p[s].by \in Accounts /\ IsLog(p[s].log)

IsTap(p) ==
    /\ p = [step |-> p.step, kind |-> p.kind, s |-> p.s, n |-> p.n, seen |-> p.seen, by |-> p.by]
    /\ p.step \in {"none", "insert", "number", "append", "persist"}
    /\ p.step # "none" => p.s \in Session /\ p.by \in Accounts
    /\ p.step \in {"append", "persist"} => p.n > 0
    /\ p.kind \in EventType /\ p.n \in Nat /\ IsLog(p.seen)

IsFlush(p) ==
    /\ p = [step |-> p.step, elig |-> p.elig, todo |-> p.todo, payload |-> p.payload,
            from |-> p.from, reply |-> p.reply]
    /\ p.step \in {"idle", "build", "mark", "wait", "settle", "requeue", "reject"}
    /\ p.elig \subseteq Session /\ p.todo \subseteq p.elig
    /\ IsPayload(p.payload) /\ DOMAIN p.payload \subseteq p.elig
    /\ p.from \in Accounts \cup {Nobody}
    /\ p.reply \in {"none", "accepted", "refused"}

IsRequest(r) ==
    /\ r = [from |-> r.from, payload |-> r.payload]
    /\ r.from \in Accounts \cup {Nobody} /\ IsPayload(r.payload)

\* The shape of the state.
TypeOK ==
    /\ account \in Accounts \cup {Nobody}
    /\ rows \in [Session -> Row \cup {None}]
    /\ events = [s \in Session |-> events[s]] /\ \A s \in Session : IsLog(events[s])
    /\ server = [s \in Session |-> server[s]] /\ \A s \in Session : IsLog(server[s])
    /\ ui = [ready |-> ui.ready, session |-> ui.session, events |-> ui.events]
    /\ ui.ready \in BOOLEAN /\ ui.session \in Session \cup {None} /\ IsLog(ui.events)
    /\ tap = [t \in Taps |-> tap[t]] /\ \A t \in Taps : IsTap(tap[t])
    /\ fl = [f \in Flushers |-> fl[f]] /\ \A f \in Flushers : IsFlush(fl[f])
    /\ \A r \in late : IsRequest(r)
    /\ made \in 0..MaxSessions /\ faults \in 0..MaxFaults
    /\ crossed \in BOOLEAN

\* Two logs that say the same wherever both say something.
Agree(L, M) == \A n \in DOMAIN L \cap DOMAIN M : L[n] = M[n]

\* Whatever is pressed at the same time, dies, is retried or arrives late:
\* the phone never gives the server two different events under the same
\* sequence number of a session, which the server would flag as a conflict.
NoContradiction ==
    \A s \in Session :
        /\ Agree(server[s], events[s])
        /\ \A r \in late : s \in DOMAIN r.payload => Agree(r.payload[s].log, server[s])

\* The others hold as long as no button is pressed while a press is handled
\* (crossed), which nothing in the code prevents.

\* A session marked synced is on the server with all of its events: none was
\* added after the payload was built.
SyncedIsUploaded ==
    ~crossed => \A s \in Session :
        Exists(s) /\ rows[s].sync = "synced" => server[s] = events[s]

\* The screen shows only events that are stored, while the session is kept:
\* "append, then show" holds through failed writes, crashes and flushes.
ShownIsStored ==
    ~crossed /\ ui.session # None /\ Exists(ui.session) => \A n \in DOMAIN ui.events :
        n \in DOMAIN events[ui.session] /\ events[ui.session][n] = ui.events[n]

\* A running session is never forgotten: while the screen offers "start" and
\* nothing is in progress, no session on the phone is still running.
NoneForgotten ==
    (/\ ~crossed /\ ui.ready
     /\ DeriveTimerState(ui.events) \in {"idle", "completed"}
     /\ \A t \in Taps : tap[t].step = "none")
        => \A s \in Session : DeriveTimerState(events[s]) \notin {"active", "paused"}

\* Only what the server has leaves the phone, except by signing out.
DroppedIsUploaded ==
    [][~crossed => \A s \in Session :
           Exists(s) /\ rows'[s] = None /\ account' = account
               => server[s] = events[s]]_vars

\* A finished session that waits is uploaded and settled, although requests
\* fail, processes die in the middle of a flush, logins expire and both
\* screens flush: unless it is wiped, or its owner is signed out meanwhile.
EventuallySettled ==
    \A s \in Session :
        s \in Eligible ~>
            \/ ~Exists(s) \/ rows[s].sync = "synced"
            \/ rows[s].by # account \/ crossed
=============================================================================
