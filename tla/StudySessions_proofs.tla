------------------------ MODULE StudySessions_proofs ------------------------
(***************************************************************************)
(* Theorems about StudySessions, for any users, session ids, number of     *)
(* concurrent requests, uploads, thresholds and bounds.  Its invariants    *)
(* come first, then the refinement of Ledger and what needs it.            *)
(*                                                                         *)
(* The invariants of the committed database are not inductive: a commit    *)
(* writes what a unit of work prepared many steps, and other requests'     *)
(* commits, ago.  IInv adds what is true of every unit of work on the way  *)
(* (WorkInv), of a unit of work and the step its request is at (Progress), *)
(* and of two units of work (Apart).  Two more invariants rest on it: XInv,*)
(* that what a request is about to commit explains itself, and SInv, that  *)
(* the events a request adds come after the last one it has seen.          *)
(***************************************************************************)
EXTENDS StudySessions, SequenceTheorems, FiniteSetTheorems, WellFoundedInduction, TLAPS

\* A session without a row has no events.
NoRowNoLog == \A s \in SessionIds : sessions[s] = None => DOMAIN log[s] = {}

Committed == OneRunningPerUser /\ CompletedHasStop /\ ManualNeverVerified /\ NoRowNoLog

\* What a unit of work holds is there, keeps its source, and is what it was
\* when it was loaded unless the service changed it; the service completes a
\* timer session only with a stop on record, and never verifies a manual one;
\* the numbers of its new events are free.
WorkInv(w) ==
    \A s \in SessionIds :
        /\ s \notin w.held => w.base[s] = None /\ DOMAIN w.ins[s] = {}
        /\ s \in w.held =>
             /\ w.base[s] = None =>
                  sessions[s] = None /\ w.obj[s].source = "timer"
             /\ w.base[s] # None =>
                  sessions[s] # None /\ w.obj[s].source = sessions[s].source
             /\ (w.base[s] # None /\ s \notin w.changed) => w.obj[s] = w.base[s]
             /\ w.obj[s].source = "manual" => w.obj[s].integrity # "ok"
             /\ (w.obj[s].source = "timer" /\ w.obj[s].status = "completed") =>
                  Stopped(log[s]) \/ Stopped(w.ins[s])
        /\ DOMAIN w.ins[s] \cap DOMAIN log[s] = {}

\* The rows a user's request holds are the user's.
Own(r, w) ==
    \A s \in w.held :
        IF w.base[s] = None THEN w.obj[s].owner = r.user
        ELSE sessions[s].owner = r.user

\* Where a request stands says what it holds.
Progress(step, r, w) ==
    /\ r.kind = "none" <=> step = "idle"
    /\ r.kind \notin {"none", "reap"} => Own(r, w)
    /\ r.kind = "start" =>
         step = "insert" /\ w.held = {} /\ r.user \in Users /\ r.cur \in SessionIds
    /\ step = "insert" => r.kind \in {"start", "sync"}
    /\ step = "load" => r.kind = "sync"
    /\ r.kind = "sync" =>
         /\ step # "commit" => r.batch # <<>>
         /\ step \in {"insert", "read", "append", "derive"} => r.cur = Head(r.batch).id
         /\ step = "insert" => r.cur \in SessionIds \ w.held
    /\ (step \in {"read", "append", "derive"} /\ r.kind # "reap") => r.cur \in w.held
    /\ r.kind = "reap" =>
         /\ r.stale \subseteq w.held
         /\ step \in {"append", "derive"} => r.cur \in r.stale
         /\ step = "derive" => Stopped(w.ins[r.cur])

\* Two requests never add the same event or insert the same row.
Apart(v, w) ==
    \A s \in SessionIds :
        /\ DOMAIN v.ins[s] \cap DOMAIN w.ins[s] = {}
        /\ ~(s \in v.held /\ v.base[s] = None /\ s \in w.held /\ w.base[s] = None)

IInv ==
    /\ TypeOK
    /\ Committed
    /\ \A t \in Tx : WorkInv(work[t]) /\ Progress(pc[t], req[t], work[t])
    /\ \A t \in Tx, t2 \in Tx : t # t2 => Apart(work[t], work[t2])
-----------------------------------------------------------------------------
(* Logs.                                                                   *)

(* A log without events is a log. *)
LEMMA EmptyIsLog == IsLog(<<>>) /\ DOMAIN <<>> = {}
<1>1. <<>> = [x \in {} |-> x]
  OBVIOUS
<1>. QED
  BY <1>1 DEF IsLog

(* Merging two logs gives a log of all their numbers, and keeps the first
   as it is. *)
LEMMA MergedLog ==
    ASSUME NEW A, NEW B, IsLog(A), IsLog(B)
    PROVE  /\ IsLog(Merged(A, B))
           /\ DOMAIN Merged(A, B) = DOMAIN A \cup DOMAIN B
           /\ \A n \in DOMAIN A : Merged(A, B)[n] = A[n]
           /\ \A n \in DOMAIN B \ DOMAIN A : Merged(A, B)[n] = B[n]
<1>1. PICK D1 \in SUBSET (1..MaxSeq) : A \in [D1 -> Event]
  BY DEF IsLog
<1>2. PICK D2 \in SUBSET (1..MaxSeq) : B \in [D2 -> Event]
  BY DEF IsLog
<1>3. Merged(A, B) \in [D1 \cup D2 -> Event]
  BY <1>1, <1>2 DEF Merged
<1>. QED
  BY <1>1, <1>2, <1>3 DEF IsLog, Merged

(* A stop is not lost when disjoint logs are merged. *)
LEMMA MergedStopped ==
    ASSUME NEW A, NEW B, IsLog(A), IsLog(B), DOMAIN A \cap DOMAIN B = {}
    PROVE  Stopped(Merged(A, B)) <=> Stopped(A) \/ Stopped(B)
<1>. DEFINE M == Merged(A, B)
<1>1. /\ DOMAIN M = DOMAIN A \cup DOMAIN B
      /\ \A n \in DOMAIN A : M[n] = A[n]
      /\ \A n \in DOMAIN B \ DOMAIN A : M[n] = B[n]
  BY MergedLog
<1>. HIDE DEF M
<1>2. Stopped(M) => Stopped(A) \/ Stopped(B)
  BY <1>1 DEF Stopped
<1>3. ASSUME Stopped(A) PROVE Stopped(M)
  BY <1>1, <1>3 DEF Stopped
<1>4. ASSUME Stopped(B) PROVE Stopped(M)
  <2>1. PICK n \in DOMAIN B : B[n].type = "stop"
    BY <1>4 DEF Stopped
  <2>. QED
    BY <1>1, <2>1 DEF Stopped
<1>. QED
  BY <1>2, <1>3, <1>4 DEF M

(* A log that derives to "completed" has a stop. *)
LEMMA DerivedStatus ==
    ASSUME NEW L, NEW clock
    PROVE  /\ DeriveTimeline(L, clock).status = TimelineStatus(L)
           /\ TimelineStatus(L) = "completed" => Stopped(L)
  BY DEF DeriveTimeline, TimelineStatus

(* Logs of this kind have only the numbers up to MaxSeq. *)
LEMMA OneEventLog ==
    ASSUME NEW e \in Event
    PROVE  /\ IsLog(Only(1, e))
           /\ DOMAIN Only(1, e) = {1}
<1>1. {1} \in SUBSET (1..MaxSeq)
  BY SessionsAssumption
<1>2. Only(1, e) \in [{1} -> Event]
  BY DEF Only
<1>. QED
  BY <1>1, <1>2 DEF IsLog, Only
-----------------------------------------------------------------------------
(* Rows.                                                                   *)

(* A row of the table has the columns of a row. *)
LEMMA RowHasShape == ASSUME NEW row \in Row PROVE RowShape(row)
  BY DEF Row, RowShape, HasFields

(* Putting a timeline on a row changes neither source, owner nor verdict. *)
LEMMA WithTimelineShape ==
    ASSUME NEW o, NEW d, RowShape(o)
    PROVE  /\ RowShape(WithTimeline(o, d))
           /\ WithTimeline(o, d).source = o.source
           /\ WithTimeline(o, d).owner = o.owner
           /\ WithTimeline(o, d).status = d.status
           /\ WithTimeline(o, d).integrity = o.integrity
  BY DEF WithTimeline, RowShape, HasFields

(* Putting a verdict on a row changes nothing else. *)
LEMMA WithVerdictShape ==
    ASSUME NEW o, NEW v, RowShape(o)
    PROVE  /\ RowShape(WithVerdict(o, v))
           /\ WithVerdict(o, v).source = o.source
           /\ WithVerdict(o, v).owner = o.owner
           /\ WithVerdict(o, v).status = o.status
           /\ WithVerdict(o, v).integrity = v.status
  BY DEF WithVerdict, RowShape, HasFields

(* No evaluation verifies a manual session. *)
LEMMA ManualIsExcluded ==
    ASSUME NEW d, NEW latest, NEW received, NEW overlaps, NEW conflict
    PROVE  EvaluateSession("manual", d, latest, received, overlaps, conflict).status # "ok"
  BY DEF EvaluateSession, ManualVerdict

(* An UPDATE leaves a row as it is if the object is as it was loaded; it never
   changes owner or source; status and verdict are the committed or the
   object's. *)
LEMMA UpdatedRow ==
    ASSUME NEW c \in Row, NEW b, NEW o
    PROVE  /\ b = o => Updated(c, b, o) = c
           /\ Updated(c, b, o).owner = c.owner
           /\ Updated(c, b, o).source = c.source
           /\ Updated(c, b, o).status \in {c.status, o.status}
           /\ Updated(c, b, o).integrity \in {c.integrity, o.integrity}
  BY DEF Updated, Column, Row
-----------------------------------------------------------------------------
(* Steps that leave the database alone.                                    *)

\* What a step of t may leave in its slot.
Good(t, step, r, w) ==
    /\ step \in Steps
    /\ RequestShape(r)
    /\ WorkShape(w)
    /\ WorkInv(w)
    /\ Progress(step, r, w)
    /\ \A t2 \in Tx \ {t} : Apart(w, work[t2])

(* A step that only moves request t on, to a good slot, preserves the
   invariant. *)
LEMMA Moved ==
    ASSUME IInv, NEW t \in Tx, NEW step, NEW r, NEW w, Good(t, step, r, w),
           pc' = [pc EXCEPT ![t] = step],
           req' = [req EXCEPT ![t] = r],
           work' = [work EXCEPT ![t] = w],
           UNCHANGED db, now' \in Nat, begun' \in Nat
    PROVE  IInv'
<1>1. /\ pc'[t] = step /\ req'[t] = r /\ work'[t] = w
      /\ \A t2 \in Tx \ {t} :
           pc'[t2] = pc[t2] /\ req'[t2] = req[t2] /\ work'[t2] = work[t2]
  BY DEF IInv, TypeOK
<1>2. TypeOK'
  <2>1. pc' \in [Tx -> Steps]
    BY DEF IInv, TypeOK, Good
  <2>2. req' = [t2 \in Tx |-> req'[t2]] /\ \A t2 \in Tx : RequestShape(req'[t2])
    BY <1>1 DEF IInv, TypeOK, Good
  <2>3. work' = [t2 \in Tx |-> work'[t2]] /\ \A t2 \in Tx : WorkShape(work'[t2])
    BY <1>1 DEF IInv, TypeOK, Good
  <2>4. QED
    BY <2>1, <2>2, <2>3 DEF IInv, TypeOK, db
<1>3. Committed'
  BY DEF IInv, Committed, OneRunningPerUser, CompletedHasStop, ManualNeverVerified,
         NoRowNoLog, Stopped, IsRunning, db
<1>4. ASSUME NEW t2 \in Tx PROVE (WorkInv(work[t2]) /\ Progress(pc[t2], req[t2], work[t2]))'
  <2>1. WorkInv(work'[t2]) /\ Progress(pc'[t2], req'[t2], work'[t2])
    BY <1>1, <1>4 DEF IInv, Good
  <2>. QED
    BY <2>1 DEF WorkInv, Progress, Own, db
<1>5. ASSUME NEW t2 \in Tx, NEW t3 \in Tx, t2 # t3 PROVE Apart(work[t2], work[t3])'
  <2>1. Apart(work'[t2], work'[t3])
    BY <1>1, <1>5 DEF IInv, Good, Apart
  <2>. QED
    BY <2>1 DEF Apart
<1>. QED
  BY <1>2, <1>3, <1>4, <1>5 DEF IInv

(* A new unit of work is well formed and apart from every other. *)
LEMMA EmptyWorkGood ==
    /\ WorkShape(EmptyWork)
    /\ WorkInv(EmptyWork)
    /\ \A w : Apart(EmptyWork, w)
<1>1. /\ EmptyWork.held = {} /\ EmptyWork.changed = {} /\ EmptyWork.locked = {}
      /\ EmptyWork.base = [s \in SessionIds |-> None]
      /\ EmptyWork.obj = [s \in SessionIds |-> None]
      /\ EmptyWork.ins = [s \in SessionIds |-> <<>>]
      /\ EmptyWork.notes = [s \in SessionIds |-> {}]
  BY DEF EmptyWork
<1>2. HasFields({"held", "changed", "base", "obj", "ins", "notes", "locked"}, EmptyWork)
  BY DEF EmptyWork, HasFields
<1>3. WorkShape(EmptyWork)
  BY <1>1, <1>2, EmptyIsLog DEF WorkShape
<1>4. WorkInv(EmptyWork)
  BY <1>1, EmptyIsLog DEF WorkInv
<1>. QED
  BY <1>1, <1>3, <1>4, EmptyIsLog DEF Apart

(* Loading rows that are not held yet keeps a unit of work in order. *)
LEMMA LoadedGood ==
    ASSUME IInv, NEW t \in Tx, NEW w, WorkShape(w), WorkInv(w),
           \A t2 \in Tx \ {t} : Apart(w, work[t2]),
           NEW S \in SUBSET SessionIds, S \cap w.held = {}
    PROVE  LET l == Loaded(w, S)
               rows == {s \in S : sessions[s] # None}
           IN  /\ WorkShape(l)
               /\ WorkInv(l)
               /\ \A t2 \in Tx \ {t} : Apart(l, work[t2])
               /\ l.held = w.held \cup rows
               /\ \A s \in SessionIds :
                    /\ s \in rows => l.base[s] = sessions[s] /\ l.base[s] # None
                    /\ s \notin rows => l.base[s] = w.base[s] /\ l.obj[s] = w.obj[s]
<1>. DEFINE rows == {s \in S : sessions[s] # None}
            l == Loaded(w, S)
<1>1. /\ HasFields({"held", "changed", "base", "obj", "ins", "notes", "locked"}, l)
      /\ l.held = w.held \cup rows
      /\ l.base = [s \in SessionIds |-> IF s \in rows THEN sessions[s] ELSE w.base[s]]
      /\ l.obj = [s \in SessionIds |-> IF s \in rows THEN sessions[s] ELSE w.obj[s]]
      /\ l.changed = w.changed /\ l.ins = w.ins
      /\ l.notes = w.notes /\ l.locked = w.locked
  BY DEF WorkShape, HasFields, Loaded
<1>. HIDE DEF l
<1>2. WorkShape(l)
  <2>1. ASSUME NEW s \in l.held PROVE RowShape(l.obj[s])
    <3>1. CASE s \in rows
      <4>1. sessions[s] \in Row
        BY <3>1 DEF IInv, TypeOK
      <4>. QED
        BY <1>1, <3>1, <4>1, RowHasShape
    <3>2. CASE s \notin rows
      BY <1>1, <2>1, <3>2 DEF WorkShape
    <3>. QED
      BY <3>1, <3>2
  <2>2. l.base \in [SessionIds -> Row \cup {None}]
    BY <1>1 DEF WorkShape, IInv, TypeOK
  <2>3. l.held \subseteq SessionIds /\ l.changed \subseteq l.held /\ l.locked \subseteq l.changed
    BY <1>1 DEF WorkShape
  <2>4. l.obj = [s \in SessionIds |-> l.obj[s]]
    BY <1>1
  <2>. QED
    BY <1>1, <2>1, <2>2, <2>3, <2>4 DEF WorkShape
<1>3. WorkInv(l)
  <2>. SUFFICES ASSUME NEW s \in SessionIds
                PROVE  WorkInv(l)!(s)
    BY DEF WorkInv
  <2>1. CASE s \in rows
    <3>1. sessions[s] \in Row /\ sessions[s] # None
      BY <2>1 DEF IInv, TypeOK
    <3>2. l.base[s] = sessions[s] /\ l.obj[s] = sessions[s] /\ s \notin w.held
      BY <1>1, <2>1
    <3>3. sessions[s].source = "manual" => sessions[s].integrity # "ok"
      BY <3>1 DEF IInv, Committed, ManualNeverVerified
    <3>4. (sessions[s].source = "timer" /\ sessions[s].status = "completed")
            => Stopped(log[s])
      BY <3>1 DEF IInv, Committed, CompletedHasStop
    <3>. QED
      BY <1>1, <2>1, <3>1, <3>2, <3>3, <3>4 DEF WorkInv
  <2>2. CASE s \notin rows
    BY <1>1, <2>2 DEF WorkInv
  <2>. QED
    BY <2>1, <2>2
<1>4. \A t2 \in Tx \ {t} : Apart(l, work[t2])
  BY <1>1 DEF Apart, IInv, TypeOK
<1>. QED
  BY <1>1, <1>2, <1>3, <1>4 DEF l, IInv, TypeOK, WorkShape
-----------------------------------------------------------------------------
(* Beginning a request.                                                    *)

(* No request, and a new one, are well formed. *)
LEMMA NoReqShape ==
    /\ RequestShape(NoReq)
    /\ NoReq.kind = "none"
<1>1. HasFields({"kind", "user", "clock", "cur", "at", "batch", "stale", "seen"}, NoReq)
  BY DEF NoReq, HasFields
<1>2. <<>> \in Seq(Uploads)
  OBVIOUS
<1>. QED
  BY <1>1, <1>2, EmptyIsLog DEF RequestShape, NoReq

(* A request that has just begun is well formed. *)
LEMMA NewRequestShape ==
    ASSUME NEW kind \in Kind, NEW u \in Users \cup {None}, now \in Nat
    PROVE  /\ RequestShape(NewRequest(kind, u))
           /\ NewRequest(kind, u).kind = kind
           /\ NewRequest(kind, u).user = u
           /\ NewRequest(kind, u).cur = NoReq.cur
           /\ NewRequest(kind, u).batch = NoReq.batch
  BY NoReqShape DEF NewRequest, RequestShape, HasFields

(* Beginning a request preserves the invariant if what it loads is what its
   first step needs. *)
LEMMA Begins ==
    ASSUME IInv, NEW t \in Tx, NEW step \in Steps, NEW r, NEW S \in SUBSET SessionIds,
           Begin(t, step, r, S), RequestShape(r), begun' \in Nat,
           Progress(step, r, Loaded(EmptyWork, S))
    PROVE  IInv'
<1>. DEFINE w == Loaded(EmptyWork, S)
<1>1. WorkShape(w) /\ WorkInv(w) /\ \A t2 \in Tx \ {t} : Apart(w, work[t2])
  <2>1. S \cap EmptyWork.held = {}
    BY DEF EmptyWork
  <2>. QED
    BY <2>1, EmptyWorkGood, LoadedGood
<1>2. Good(t, step, r, w)
  BY <1>1 DEF Good
<1>3. /\ pc' = [pc EXCEPT ![t] = step] /\ req' = [req EXCEPT ![t] = r]
      /\ work' = [work EXCEPT ![t] = w] /\ UNCHANGED db /\ now' \in Nat
  BY DEF Begin, IInv, TypeOK
<1>. QED
  BY <1>2, <1>3, Moved

(* What Loaded(EmptyWork, S) holds. *)
LEMMA FirstLoad ==
    ASSUME IInv, NEW t \in Tx, NEW S \in SUBSET SessionIds
    PROVE  /\ Loaded(EmptyWork, S).held = {s \in S : sessions[s] # None}
           /\ \A s \in Loaded(EmptyWork, S).held :
                /\ Loaded(EmptyWork, S).base[s] = sessions[s]
                /\ sessions[s] # None
<1>1. EmptyWork.held = {}
  BY DEF EmptyWork
<1>. QED
  BY <1>1, EmptyWorkGood, LoadedGood

(* Counting a user request keeps the counter a number. *)
LEMMA BegunNat == ASSUME IInv, NEW kind, UserRequest(kind) PROVE kind \in Kind /\ begun' \in Nat
  BY SessionsAssumption DEF UserRequest, IInv, TypeOK

(* Opening a start request keeps the invariant. *)
LEMMA BeginStartSafe ==
    ASSUME IInv, NEW t \in Tx, NEW u \in Users, NEW s \in SessionIds, NEW at \in OccurredAt,
           BeginStart(t, u, s, at)
    PROVE  IInv'
<1>. DEFINE r == [NewRequest("start", u) EXCEPT !.cur = s, !.at = at]
<1>1. "start" \in Kind /\ begun' \in Nat /\ now \in Nat
  BY BegunNat DEF BeginStart, IInv, TypeOK
<1>2. at \in Nat
  BY SessionsAssumption, <1>1 DEF OccurredAt
<1>3. RequestShape(r) /\ r.kind = "start" /\ r.user = u /\ r.cur = s
  <2>1. PICK q : q = NewRequest("start", u)
    OBVIOUS
  <2>2. RequestShape(q) /\ q.kind = "start" /\ q.user = u
    BY <1>1, <2>1, NewRequestShape
  <2>3. r = [q EXCEPT !.cur = s, !.at = at]
    BY <2>1
  <2>. HIDE DEF r
  <2>4. /\ HasFields({"kind", "user", "clock", "cur", "at", "batch", "stale", "seen"}, r)
        /\ r.kind = q.kind /\ r.user = q.user /\ r.clock = q.clock /\ r.cur = s /\ r.at = at
        /\ r.batch = q.batch /\ r.stale = q.stale /\ r.seen = q.seen
    BY <2>2, <2>3 DEF RequestShape, HasFields
  <2>. QED
    BY <1>2, <2>2, <2>4 DEF RequestShape
<1>. HIDE DEF r
<1>4. Progress("insert", r, Loaded(EmptyWork, {}))
  BY <1>3, FirstLoad DEF Progress, Own
<1>5. Begin(t, "insert", r, {})
  BY DEF BeginStart, r
<1>. QED
  BY <1>1, <1>3, <1>4, <1>5, Begins DEF Steps

(* Opening a pause, resume or stop keeps the invariant. *)
LEMMA BeginTransitionSafe ==
    ASSUME IInv, NEW t \in Tx, NEW u \in Users, NEW s \in SessionIds,
           NEW type \in {"pause", "resume", "stop"}, NEW at \in OccurredAt,
           BeginTransition(t, u, s, type, at)
    PROVE  IInv'
<1>. DEFINE r == [NewRequest(type, u) EXCEPT !.cur = s, !.at = at]
<1>1. type \in Kind /\ begun' \in Nat /\ now \in Nat
  BY BegunNat DEF BeginTransition, IInv, TypeOK
<1>2. at \in Nat
  BY SessionsAssumption, <1>1 DEF OccurredAt
<1>3. RequestShape(r) /\ r.kind = type /\ r.user = u /\ r.cur = s
  <2>1. PICK q : q = NewRequest(type, u)
    OBVIOUS
  <2>2. RequestShape(q) /\ q.kind = type /\ q.user = u
    BY <1>1, <2>1, NewRequestShape
  <2>3. r = [q EXCEPT !.cur = s, !.at = at]
    BY <2>1
  <2>. HIDE DEF r
  <2>4. /\ HasFields({"kind", "user", "clock", "cur", "at", "batch", "stale", "seen"}, r)
        /\ r.kind = q.kind /\ r.user = q.user /\ r.clock = q.clock /\ r.cur = s /\ r.at = at
        /\ r.batch = q.batch /\ r.stale = q.stale /\ r.seen = q.seen
    BY <2>2, <2>3 DEF RequestShape, HasFields
  <2>. QED
    BY <1>2, <2>2, <2>4 DEF RequestShape
<1>. HIDE DEF r
<1>4. sessions[s] # None /\ sessions[s].owner = u
  BY DEF BeginTransition
<1>5. Progress("read", r, Loaded(EmptyWork, {s}))
  BY <1>3, <1>4, FirstLoad DEF Progress, Own
<1>6. Begin(t, "read", r, {s})
  BY DEF BeginTransition, r
<1>. QED
  BY <1>1, <1>3, <1>5, <1>6, Begins DEF Steps

(* Opening a sync keeps the invariant. *)
LEMMA BeginSyncSafe ==
    ASSUME IInv, NEW t \in Tx, NEW u \in Users, NEW batch \in Batches,
           BeginSync(t, u, batch)
    PROVE  IInv'
<1>. DEFINE r == [NewRequest("sync", u) EXCEPT !.batch = batch]
<1>1. "sync" \in Kind /\ begun' \in Nat /\ now \in Nat
  BY BegunNat DEF BeginSync, IInv, TypeOK
<1>2. batch \in Seq(Uploads) /\ batch # <<>>
  BY SessionsAssumption
<1>3. RequestShape(r) /\ r.kind = "sync" /\ r.user = u /\ r.batch = batch
  BY <1>1, <1>2, NewRequestShape DEF RequestShape, HasFields
<1>. HIDE DEF r
<1>4. Progress("load", r, Loaded(EmptyWork, {}))
  BY <1>2, <1>3, FirstLoad DEF Progress, Own
<1>5. Begin(t, "load", r, {})
  BY DEF BeginSync, r
<1>. QED
  BY <1>1, <1>3, <1>4, <1>5, Begins DEF Steps

(* The reaper's candidate query keeps the invariant. *)
LEMMA BeginReapSafe == ASSUME IInv, NEW t \in Tx, BeginReap(t) PROVE IInv'
<1>. DEFINE r == [NewRequest("reap", None) EXCEPT !.stale = Stale]
<1>1. "reap" \in Kind /\ begun' \in Nat /\ now \in Nat
  BY SessionsAssumption DEF BeginReap, IInv, TypeOK
<1>2. Stale \in SUBSET SessionIds /\ \A s \in Stale : sessions[s] # None
  BY DEF Stale, IsRunning
<1>3. RequestShape(r) /\ r.kind = "reap" /\ r.stale = Stale
  BY <1>1, <1>2, NewRequestShape DEF RequestShape, HasFields
<1>. HIDE DEF r
<1>4. Progress("read", r, Loaded(EmptyWork, Stale))
  BY <1>2, <1>3, FirstLoad DEF Progress
<1>5. Begin(t, "read", r, Stale)
  BY DEF BeginReap, r
<1>. QED
  BY <1>1, <1>2, <1>3, <1>4, <1>5, Begins DEF Steps
-----------------------------------------------------------------------------
(* The steps of an open request.                                           *)

(* What the invariant says of one slot. *)
LEMMA SlotGood ==
    ASSUME IInv, NEW t \in Tx
    PROVE  Good(t, pc[t], req[t], work[t])
  BY DEF IInv, TypeOK, Good

(* What the invariant says of a slot after one of its steps. *)
LEMMA StepGood ==
    ASSUME IInv, NEW t \in Tx, NEW to, NEW r, NEW w, Step(t, to, r, w), Good(t, to, r, w)
    PROVE  IInv'
<1>1. now' \in Nat /\ begun' \in Nat
  BY DEF Step, IInv, TypeOK
<1>. QED
  BY <1>1, Moved DEF Step

(* The upload a sync request is at. *)
LEMMA IncomingShape ==
    ASSUME IInv, NEW t \in Tx, req[t].kind = "sync", pc[t] # "commit"
    PROVE  /\ Incoming(t).id \in SessionIds
           /\ IsLog(Incoming(t).events)
           /\ req[t].batch \in Seq(Uploads) /\ req[t].batch # <<>>
<1>1. req[t].batch \in Seq(Uploads) /\ req[t].batch # <<>>
  BY DEF IInv, TypeOK, RequestShape, Progress
<1>2. Incoming(t) \in Uploads
  BY <1>1 DEF Incoming
<1>. QED
  BY <1>1, <1>2, SessionsAssumption DEF IsPayload

(* Looking up the row of an upload keeps the invariant. *)
LEMMA LoadItemSafe == ASSUME IInv, NEW t \in Tx, LoadItem(t) PROVE IInv'
<1>. DEFINE s == Incoming(t).id
            r == [req[t] EXCEPT !.cur = s]
            known == Held(t, s) \/ sessions[s] # None
            to == IF known THEN "read" ELSE "insert"
            w == IF Held(t, s) THEN work[t] ELSE Loaded(work[t], {s})
<1>1. pc[t] = "load" /\ OwnItem(t) /\ Step(t, to, r, w)
  BY DEF LoadItem
<1>2. req[t].kind = "sync"
  BY <1>1 DEF IInv, Progress
<1>3. s \in SessionIds /\ req[t].batch # <<>>
  BY <1>1, <1>2, IncomingShape
<1>4. /\ RequestShape(r) /\ r.kind = "sync" /\ r.cur = s
      /\ r.batch = req[t].batch /\ r.user = req[t].user
  BY <1>2, <1>3, SlotGood DEF Good, RequestShape, HasFields
<1>. HIDE DEF r
<1>5. CASE Held(t, s)
  <2>1. w = work[t] /\ to = "read"
    BY <1>5
  <2>2. Progress("read", r, work[t])
    <3>1. Own(r, work[t])
      BY <1>2, <1>4, SlotGood DEF Good, Progress, Own
    <3>. QED
      BY <1>3, <1>4, <1>5, <3>1 DEF Progress, Held, Incoming
  <2>3. Good(t, "read", r, work[t])
    BY <1>4, <2>2, SlotGood DEF Good, Steps
  <2>. QED
    BY <1>1, <2>1, <2>3, StepGood
<1>6. CASE ~Held(t, s)
  <2>. DEFINE rows == {x \in {s} : sessions[x] # None}
              l == Loaded(work[t], {s})
  <2>1. /\ WorkShape(l) /\ WorkInv(l)
        /\ \A t2 \in Tx \ {t} : Apart(l, work[t2])
        /\ l.held = work[t].held \cup rows
        /\ \A x \in SessionIds :
             /\ x \in rows => l.base[x] = sessions[x] /\ l.base[x] # None
             /\ x \notin rows => l.base[x] = work[t].base[x] /\ l.obj[x] = work[t].obj[x]
    <3>1. {s} \in SUBSET SessionIds /\ {s} \cap work[t].held = {}
      BY <1>3, <1>6 DEF Held
    <3>. QED
      BY <3>1, SlotGood, LoadedGood DEF Good
  <2>. HIDE DEF l
  <2>2. Own(r, l)
    <3>. SUFFICES ASSUME NEW x \in l.held
                  PROVE  Own(r, l)!(x)
      BY DEF Own
    <3>1. CASE x \in rows
      BY <1>1, <1>3, <1>4, <2>1, <3>1 DEF OwnItem
    <3>2. CASE x \notin rows
      <4>1. x \in work[t].held /\ x \in SessionIds
        BY <2>1, <3>2, SlotGood DEF Good, WorkShape
      <4>2. Own(req[t], work[t])
        BY <1>2, SlotGood DEF Good, Progress
      <4>. QED
        BY <1>4, <2>1, <3>2, <4>1, <4>2 DEF Own
    <3>. QED
      BY <3>1, <3>2
  <2>3. Progress(to, r, l)
    <3>1. CASE sessions[s] # None
      BY <1>3, <1>4, <2>1, <2>2, <3>1 DEF Progress, Incoming
    <3>2. CASE sessions[s] = None
      BY <1>3, <1>4, <1>6, <2>1, <2>2, <3>2 DEF Progress, Incoming, Held
    <3>. QED
      BY <3>1, <3>2
  <2>4. Good(t, to, r, l)
    BY <1>4, <2>1, <2>3 DEF Good, Steps
  <2>. QED
    BY <1>1, <1>6, <2>4, StepGood DEF l
<1>. QED
  BY <1>5, <1>6

(* Loading the events of a session keeps the invariant. *)
LEMMA ReadLogSafe == ASSUME IInv, NEW t \in Tx, ReadLog(t) PROVE IInv'
<1>. DEFINE s == req[t].cur
            L == Merged(log[s], work[t].ins[s])
            r == [req[t] EXCEPT !.seen = L]
<1>1. pc[t] = "read" /\ req[t].kind # "reap" /\ Step(t, "append", r, work[t])
  BY DEF ReadLog
<1>2. s \in SessionIds /\ IsLog(L)
  BY <1>1, SlotGood, MergedLog DEF Good, Progress, WorkShape, IInv, TypeOK
<1>. HIDE DEF L
<1>3. /\ RequestShape(r) /\ r.kind = req[t].kind /\ r.cur = s
      /\ r.batch = req[t].batch /\ r.user = req[t].user
  BY <1>2, SlotGood DEF Good, RequestShape, HasFields
<1>. HIDE DEF r
<1>4. Progress("append", r, work[t])
  BY <1>1, <1>3, SlotGood DEF Good, Progress, Own
<1>5. Good(t, "append", r, work[t])
  BY <1>3, <1>4, SlotGood DEF Good, Steps
<1>. QED
  BY <1>1, <1>5, StepGood

(* The reaper reading a candidate keeps the invariant. *)
LEMMA ReapReadSafe ==
    ASSUME IInv, NEW t \in Tx, NEW s \in SessionIds, ReapRead(t, s)
    PROVE  IInv'
<1>1. pc[t] = "read" /\ req[t].kind = "reap" /\ s \in req[t].stale
  BY DEF ReapRead
<1>2. CASE Step(t, "append", [req[t] EXCEPT !.cur = s, !.seen = log[s]], work[t])
  <2>. DEFINE r == [req[t] EXCEPT !.cur = s, !.seen = log[s]]
  <2>1. IsLog(log[s])
    BY DEF IInv, TypeOK
  <2>2. RequestShape(r) /\ r.kind = "reap" /\ r.cur = s /\ r.stale = req[t].stale
    BY <1>1, <2>1, SlotGood DEF Good, RequestShape, HasFields
  <2>. HIDE DEF r
  <2>3. Good(t, "append", r, work[t])
    BY <1>1, <2>2, SlotGood DEF Good, Progress, Steps
  <2>. QED
    BY <1>2, <2>3, StepGood DEF r
<1>3. CASE Step(t, IF req[t].stale = {s} THEN "commit" ELSE "read",
                [req[t] EXCEPT !.stale = @ \ {s}], work[t])
  <2>. DEFINE r == [req[t] EXCEPT !.stale = @ \ {s}]
              to == IF req[t].stale = {s} THEN "commit" ELSE "read"
  <2>1. RequestShape(r) /\ r.kind = "reap" /\ r.stale \subseteq req[t].stale
    BY <1>1, SlotGood DEF Good, RequestShape, HasFields
  <2>. HIDE DEF r
  <2>2. Good(t, to, r, work[t])
    BY <1>1, <2>1, SlotGood DEF Good, Progress, Steps
  <2>. QED
    BY <1>3, <2>2, StepGood DEF r
<1>. QED
  BY <1>2, <1>3 DEF ReapRead

(* Flushing marks rows as locked and changes nothing else. *)
LEMMA FlushedGood ==
    ASSUME IInv, NEW t \in Tx
    PROVE  LET w == Flushed(t, work[t])
           IN  /\ WorkShape(w)
               /\ w.held = work[t].held /\ w.changed = work[t].changed
               /\ w.base = work[t].base /\ w.obj = work[t].obj
               /\ w.ins = work[t].ins /\ w.notes = work[t].notes
<1>. DEFINE w == Flushed(t, work[t])
<1>1. WorkShape(work[t])
  BY DEF IInv, TypeOK
<1>2. {r \in Dirty(t) : ~Fresh(t, r)} \subseteq work[t].changed
  BY DEF Dirty
<1>3. /\ HasFields({"held", "changed", "base", "obj", "ins", "notes", "locked"}, w)
      /\ w.held = work[t].held /\ w.changed = work[t].changed
      /\ w.base = work[t].base /\ w.obj = work[t].obj
      /\ w.ins = work[t].ins /\ w.notes = work[t].notes
      /\ w.locked \subseteq work[t].changed
  BY <1>1, <1>2 DEF WorkShape, HasFields, Flushed
<1>. HIDE DEF w
<1>4. WorkShape(w)
  BY <1>1, <1>3 DEF WorkShape
<1>. QED
  BY <1>3, <1>4 DEF w

(* A new timer row is a row. *)
LEMMA TimerRowShape ==
    ASSUME NEW u, NEW at
    PROVE  /\ RowShape(TimerRow(u, at))
           /\ TimerRow(u, at).source = "timer" /\ TimerRow(u, at).owner = u
           /\ TimerRow(u, at).status = "active"
  BY DEF TimerRow, RowShape, HasFields

(* Flushing a new row keeps the invariant. *)
LEMMA FlushRowSafe == ASSUME IInv, NEW t \in Tx, FlushRow(t) PROVE IInv'
<1>. DEFINE s == req[t].cur
            row == TimerRow(req[t].user, Incoming(t).events[Min(DOMAIN Incoming(t).events)].at)
            f == Flushed(t, work[t])
            w == [f EXCEPT !.held = @ \cup {s}, !.obj[s] = row]
<1>1. /\ pc[t] = "insert" /\ req[t].kind = "sync"
      /\ Insertable(t, req[t].user, s)
      /\ Step(t, "read", req[t], w)
  BY DEF FlushRow, CanInsert
<1>2. s \in SessionIds /\ s \notin work[t].held /\ sessions[s] = None
  BY <1>1, SlotGood DEF Good, Progress, Insertable
<1>3. /\ WorkShape(f)
      /\ f.held = work[t].held /\ f.changed = work[t].changed
      /\ f.base = work[t].base /\ f.obj = work[t].obj
      /\ f.ins = work[t].ins /\ f.notes = work[t].notes
  BY FlushedGood
<1>4. /\ RowShape(row) /\ row.source = "timer" /\ row.owner = req[t].user
      /\ row.status = "active"
  BY TimerRowShape
<1>. HIDE DEF f, row
<1>5. /\ HasFields({"held", "changed", "base", "obj", "ins", "notes", "locked"}, w)
      /\ w.held = work[t].held \cup {s} /\ w.changed = work[t].changed
      /\ w.base = work[t].base /\ w.ins = work[t].ins /\ w.notes = work[t].notes
      /\ w.locked = f.locked
      /\ w.obj = [x \in SessionIds |-> IF x = s THEN row ELSE work[t].obj[x]]
  BY <1>2, <1>3 DEF WorkShape, HasFields
<1>. HIDE DEF w
<1>6. WorkShape(w)
  BY <1>2, <1>3, <1>4, <1>5 DEF WorkShape
<1>7. WorkInv(w)
  <2>1. WorkInv(work[t])
    BY SlotGood DEF Good
  <2>. QED
    BY <1>2, <1>4, <1>5, <2>1 DEF WorkInv
<1>8. \A t2 \in Tx \ {t} : Apart(w, work[t2])
  <2>. SUFFICES ASSUME NEW t2 \in Tx \ {t} PROVE Apart(w, work[t2])
    OBVIOUS
  <2>1. ~Fresh(t2, s)
    BY <1>1, <1>2 DEF Insertable, Others
  <2>2. Apart(work[t], work[t2])
    BY SlotGood DEF Good
  <2>. QED
    BY <1>5, <2>1, <2>2 DEF Apart, Fresh, Held
<1>9. Progress("read", req[t], w)
  <2>1. Progress("insert", req[t], work[t]) /\ Own(req[t], work[t])
    BY <1>1, SlotGood DEF Good, Progress
  <2>2. WorkInv(work[t]) /\ work[t].held \subseteq SessionIds
    BY SlotGood DEF Good, WorkShape
  <2>3. Own(req[t], w)
    BY <1>2, <1>4, <1>5, <2>1, <2>2 DEF Own, WorkInv
  <2>. QED
    BY <1>1, <1>5, <2>1, <2>3 DEF Progress
<1>10. Good(t, "read", req[t], w)
  BY <1>6, <1>7, <1>8, <1>9, SlotGood DEF Good, Steps
<1>. QED
  BY <1>1, <1>10, StepGood

(* Flushing new events keeps the invariant. *)
LEMMA FlushEventsSafe == ASSUME IInv, NEW t \in Tx, FlushEvents(t) PROVE IInv'
<1>. DEFINE s == req[t].cur
            f == Flushed(t, work[t])
            A == Added(t)
            M == Merged(work[t].ins[s], A)
            w == [f EXCEPT !.ins[s] = Merged(@, A)]
<1>1. /\ pc[t] = "append" /\ IsLog(A) /\ Appendable(t, s, DOMAIN A)
      /\ Step(t, "derive", req[t], w)
  BY DEF FlushEvents, CanAppend
<1>2. /\ Progress("append", req[t], work[t]) /\ WorkInv(work[t]) /\ WorkShape(work[t])
      /\ s \in work[t].held /\ s \in SessionIds
  BY <1>1, SlotGood DEF Good, Progress, WorkShape
<1>3. /\ WorkShape(f)
      /\ f.held = work[t].held /\ f.changed = work[t].changed
      /\ f.base = work[t].base /\ f.obj = work[t].obj
      /\ f.ins = work[t].ins /\ f.notes = work[t].notes
  BY FlushedGood
<1>4. /\ DOMAIN A \cap DOMAIN log[s] = {}
      /\ \A t2 \in Tx : DOMAIN A \cap DOMAIN work[t2].ins[s] = {}
  BY <1>1 DEF Appendable
<1>5. /\ IsLog(M) /\ DOMAIN M = DOMAIN work[t].ins[s] \cup DOMAIN A
      /\ Stopped(M) <=> Stopped(work[t].ins[s]) \/ Stopped(A)
  <2>1. IsLog(work[t].ins[s])
    BY <1>2 DEF WorkShape
  <2>2. DOMAIN work[t].ins[s] \cap DOMAIN A = {}
    BY <1>4
  <2>. HIDE DEF A
  <2>. QED
    BY <1>1, <2>1, <2>2, MergedLog, MergedStopped
<1>6. req[t].kind = "reap" => Stopped(A)
  BY DEF Added, Only, Stopped
<1>. HIDE DEF f, A
<1>7. /\ HasFields({"held", "changed", "base", "obj", "ins", "notes", "locked"}, w)
      /\ w.held = work[t].held /\ w.changed = work[t].changed
      /\ w.base = work[t].base /\ w.obj = work[t].obj /\ w.notes = work[t].notes
      /\ w.locked = f.locked
      /\ w.ins = [x \in SessionIds |-> IF x = s THEN M ELSE work[t].ins[x]]
  BY <1>2, <1>3 DEF WorkShape, HasFields
<1>. HIDE DEF M, w
<1>8. WorkShape(w)
  BY <1>2, <1>3, <1>5, <1>7 DEF WorkShape
<1>9. WorkInv(w)
  BY <1>2, <1>4, <1>5, <1>7 DEF WorkInv
<1>10. \A t2 \in Tx \ {t} : Apart(w, work[t2])
  <2>. SUFFICES ASSUME NEW t2 \in Tx \ {t} PROVE Apart(w, work[t2])
    OBVIOUS
  <2>1. Apart(work[t], work[t2])
    BY SlotGood DEF Good
  <2>. QED
    BY <1>4, <1>5, <1>7, <2>1 DEF Apart
<1>11. Progress("derive", req[t], w)
  <2>1. Own(req[t], work[t]) => Own(req[t], w)
    BY <1>7 DEF Own
  <2>. QED
    BY <1>2, <1>5, <1>6, <1>7, <2>1 DEF Progress
<1>12. Good(t, "derive", req[t], w)
  BY <1>8, <1>9, <1>10, <1>11, SlotGood DEF Good, Steps
<1>. QED
  BY <1>1, <1>12, StepGood

(* The service may put on a row any object that keeps source and owner, does
   not verify a manual session, and completes a timer session only with a stop
   on record. *)
LEMMA RowChanged ==
    ASSUME IInv, NEW t \in Tx, NEW s \in work[t].held, NEW o, RowShape(o),
           o.source = work[t].obj[s].source, o.owner = work[t].obj[s].owner,
           o.source = "manual" => o.integrity # "ok",
           (o.source = "timer" /\ o.status = "completed")
             => Stopped(log[s]) \/ Stopped(work[t].ins[s]),
           NEW w,
           HasFields({"held", "changed", "base", "obj", "ins", "notes", "locked"}, w),
           w.held = work[t].held, w.changed = work[t].changed \cup {s},
           w.base = work[t].base, w.ins = work[t].ins, w.locked = work[t].locked,
           w.obj = [work[t].obj EXCEPT ![s] = o],
           w.notes \in [SessionIds -> SUBSET AuditEntry]
    PROVE  /\ WorkShape(w)
           /\ WorkInv(w)
           /\ \A t2 \in Tx \ {t} : Apart(w, work[t2])
           /\ Own(req[t], work[t]) => Own(req[t], w)
<1>1. WorkShape(work[t]) /\ WorkInv(work[t])
  BY SlotGood DEF Good
<1>2. s \in SessionIds
  BY <1>1 DEF WorkShape
<1>3. w.obj = [x \in SessionIds |-> IF x = s THEN o ELSE work[t].obj[x]]
  BY <1>1, <1>2 DEF WorkShape
<1>4. WorkShape(w)
  BY <1>1, <1>2, <1>3 DEF WorkShape
<1>5. WorkInv(w)
  BY <1>1, <1>2, <1>3 DEF WorkInv
<1>6. \A t2 \in Tx \ {t} : Apart(w, work[t2])
  <2>. SUFFICES ASSUME NEW t2 \in Tx \ {t} PROVE Apart(w, work[t2])
    OBVIOUS
  <2>1. Apart(work[t], work[t2])
    BY SlotGood DEF Good
  <2>. QED
    BY <2>1 DEF Apart
<1>7. Own(req[t], work[t]) => Own(req[t], w)
  BY <1>1, <1>2, <1>3 DEF Own, WorkShape
<1>. QED
  BY <1>4, <1>5, <1>6, <1>7

(* The audit entries of an evaluation. *)
LEMMA FlagNoteKind ==
    ASSUME NEW row, NEW v, v.reasons \in SUBSET Reason
    PROVE  FlagNote(row, v) \subseteq AuditEntry
  BY DEF FlagNote, AuditEntry

(* A verdict gives some of the known reasons, and one at least for an exclusion. *)
LEMMA EvaluationReasons ==
    ASSUME NEW source, NEW d, NEW latest, NEW received, NEW overlaps, NEW conflict
    PROVE  LET v == EvaluateSession(source, d, latest, received, overlaps, conflict)
           IN  v.reasons \in SUBSET Reason /\ (v.status # "ok" => v.reasons # {})
  BY DEF EvaluateSession, TimerVerdict, ManualVerdict, Verdict, Reason

(* Applying a live event to the row keeps the invariant. *)
LEMMA DeriveTransitionSafe == ASSUME IInv, NEW t \in Tx, DeriveTransition(t) PROVE IInv'
<1>. DEFINE s == req[t].cur
            L == Merged(log[s], work[t].ins[s])
            d == DeriveTimeline(L, req[t].clock)
            row == WithTimeline(work[t].obj[s], d)
            v == EvaluateSession(row.source, d, LastEventAt(L), req[t].clock, FALSE, FALSE)
            done == WithVerdict(row, v)
            plain == [work[t] EXCEPT !.changed = @ \cup {s}, !.obj[s] = row]
            judged == [work[t] EXCEPT !.changed = @ \cup {s}, !.obj[s] = done,
                                      !.notes[s] = @ \cup FlagNote(row, v)]
            w == IF req[t].kind # "stop" THEN plain ELSE judged
<1>1. /\ pc[t] = "derive" /\ req[t].kind \in {"pause", "resume", "stop"}
      /\ Step(t, "commit", req[t], w)
  BY DEF DeriveTransition
<1>2. /\ WorkShape(work[t]) /\ WorkInv(work[t])
      /\ s \in work[t].held /\ s \in SessionIds /\ Own(req[t], work[t])
  BY <1>1, SlotGood DEF Good, Progress, WorkShape
<1>3. Stopped(L) => Stopped(log[s]) \/ Stopped(work[t].ins[s])
  BY <1>2, MergedStopped DEF WorkShape, WorkInv, IInv, TypeOK
<1>. HIDE DEF L
<1>4. d.status = "completed" => Stopped(log[s]) \/ Stopped(work[t].ins[s])
  BY <1>3, DerivedStatus
<1>. HIDE DEF d
<1>5. /\ RowShape(row) /\ row.source = work[t].obj[s].source
      /\ row.owner = work[t].obj[s].owner /\ row.status = d.status
      /\ row.integrity = work[t].obj[s].integrity
  BY <1>2, WithTimelineShape DEF WorkShape
<1>. HIDE DEF row
<1>6. /\ row.source = "manual" => v.status # "ok"
      /\ v.reasons \in SUBSET Reason
  BY ManualIsExcluded, EvaluationReasons
<1>. HIDE DEF v
<1>7. /\ RowShape(done) /\ done.source = row.source /\ done.owner = row.owner
      /\ done.status = row.status /\ done.integrity = v.status
  BY <1>5, WithVerdictShape
<1>. HIDE DEF done
<1>8. CASE req[t].kind # "stop"
  <2>1. /\ HasFields({"held", "changed", "base", "obj", "ins", "notes", "locked"}, plain)
        /\ plain.held = work[t].held /\ plain.changed = work[t].changed \cup {s}
        /\ plain.base = work[t].base /\ plain.ins = work[t].ins
        /\ plain.locked = work[t].locked /\ plain.notes = work[t].notes
        /\ plain.obj = [work[t].obj EXCEPT ![s] = row]
    BY <1>2 DEF WorkShape, HasFields
  <2>2. row.source = "manual" => row.integrity # "ok"
    BY <1>2, <1>5 DEF WorkInv
  <2>5. plain.notes \in [SessionIds -> SUBSET AuditEntry]
    BY <1>2, <2>1 DEF WorkShape
  <2>. HIDE DEF plain
  <2>3. /\ WorkShape(plain) /\ WorkInv(plain)
        /\ \A t2 \in Tx \ {t} : Apart(plain, work[t2])
        /\ Own(req[t], plain)
    BY <1>2, <1>4, <1>5, <2>1, <2>2, <2>5, RowChanged
  <2>4. Good(t, "commit", req[t], plain)
    BY <1>1, <2>1, <2>3, SlotGood DEF Good, Steps, Progress
  <2>. QED
    BY <1>1, <1>8, <2>4, StepGood
<1>9. CASE req[t].kind = "stop"
  <2>1. /\ HasFields({"held", "changed", "base", "obj", "ins", "notes", "locked"}, judged)
        /\ judged.held = work[t].held /\ judged.changed = work[t].changed \cup {s}
        /\ judged.base = work[t].base /\ judged.ins = work[t].ins
        /\ judged.locked = work[t].locked
        /\ judged.notes = [work[t].notes EXCEPT ![s] = @ \cup FlagNote(row, v)]
        /\ judged.obj = [work[t].obj EXCEPT ![s] = done]
    BY <1>2 DEF WorkShape, HasFields
  <2>. HIDE DEF judged
  <2>2. judged.notes \in [SessionIds -> SUBSET AuditEntry]
    BY <1>2, <1>6, <2>1, FlagNoteKind DEF WorkShape
  <2>3. /\ WorkShape(judged) /\ WorkInv(judged)
        /\ \A t2 \in Tx \ {t} : Apart(judged, work[t2])
        /\ Own(req[t], judged)
    BY <1>2, <1>4, <1>5, <1>6, <1>7, <2>1, <2>2, RowChanged
  <2>4. Good(t, "commit", req[t], judged)
    BY <1>1, <2>1, <2>3, SlotGood DEF Good, Steps, Progress
  <2>. QED
    BY <1>1, <1>9, <2>4, StepGood
<1>. QED
  BY <1>8, <1>9

(* Applying a synced log to the row keeps the invariant. *)
LEMMA DeriveSyncSafe == ASSUME IInv, NEW t \in Tx, DeriveSync(t) PROVE IInv'
<1>. DEFINE s == req[t].cur
            sent == Incoming(t).events
            L == Merged(log[s], work[t].ins[s])
            d == DeriveTimeline(L, req[t].clock)
            row == WithTimeline(work[t].obj[s], d)
            conflict == \E n \in DOMAIN sent \cap DOMAIN req[t].seen :
                            sent[n] # req[t].seen[n]
            appended == DOMAIN sent \ DOMAIN req[t].seen # {}
            v == EvaluateSession(row.source, d, LastEventAt(L), req[t].clock,
                                 Overlaps(t, s, d), conflict)
            done == WithVerdict(row, v)
            more == FlagNote(row, v)
                      \cup (IF appended \/ conflict THEN {Synced} ELSE {})
            w == [work[t] EXCEPT !.changed = @ \cup {s}, !.obj[s] = done,
                                 !.notes[s] = @ \cup FlagNote(row, v)
                                   \cup (IF appended \/ conflict THEN {Synced} ELSE {})]
            r == [req[t] EXCEPT !.batch = Tail(@)]
            to == IF Len(req[t].batch) = 1 THEN "commit" ELSE "load"
<1>1. /\ pc[t] = "derive" /\ req[t].kind = "sync"
      /\ Step(t, to, r, w)
  BY DEF DeriveSync
<1>2. /\ WorkShape(work[t]) /\ WorkInv(work[t])
      /\ s \in work[t].held /\ s \in SessionIds /\ Own(req[t], work[t])
  BY <1>1, SlotGood DEF Good, Progress, WorkShape
<1>3. Stopped(L) => Stopped(log[s]) \/ Stopped(work[t].ins[s])
  BY <1>2, MergedStopped DEF WorkShape, WorkInv, IInv, TypeOK
<1>. HIDE DEF L, conflict, appended
<1>4. d.status = "completed" => Stopped(log[s]) \/ Stopped(work[t].ins[s])
  BY <1>3, DerivedStatus
<1>. HIDE DEF d
<1>5. /\ RowShape(row) /\ row.source = work[t].obj[s].source
      /\ row.owner = work[t].obj[s].owner /\ row.status = d.status
  BY <1>2, WithTimelineShape DEF WorkShape
<1>. HIDE DEF row
<1>6. /\ row.source = "manual" => v.status # "ok"
      /\ v.reasons \in SUBSET Reason
  BY ManualIsExcluded, EvaluationReasons
<1>. HIDE DEF v
<1>7. /\ RowShape(done) /\ done.source = row.source /\ done.owner = row.owner
      /\ done.status = row.status /\ done.integrity = v.status
  BY <1>5, WithVerdictShape
<1>8. more \subseteq AuditEntry
  BY <1>6, FlagNoteKind DEF AuditEntry
<1>. HIDE DEF done
<1>9. /\ HasFields({"held", "changed", "base", "obj", "ins", "notes", "locked"}, w)
      /\ w.held = work[t].held /\ w.changed = work[t].changed \cup {s}
      /\ w.base = work[t].base /\ w.ins = work[t].ins /\ w.locked = work[t].locked
      /\ w.notes = [work[t].notes EXCEPT ![s] = @ \cup more]
      /\ w.obj = [work[t].obj EXCEPT ![s] = done]
  BY <1>2 DEF WorkShape, HasFields
<1>. HIDE DEF w, more
<1>10. w.notes \in [SessionIds -> SUBSET AuditEntry]
  BY <1>2, <1>8, <1>9 DEF WorkShape
<1>11. /\ WorkShape(w) /\ WorkInv(w)
       /\ \A t2 \in Tx \ {t} : Apart(w, work[t2])
       /\ Own(req[t], w)
  BY <1>2, <1>4, <1>5, <1>6, <1>7, <1>9, <1>10, RowChanged
<1>12. /\ req[t].batch \in Seq(Uploads) /\ req[t].batch # <<>>
  BY <1>1, IncomingShape
<1>13. /\ Tail(req[t].batch) \in Seq(Uploads)
       /\ Len(req[t].batch) # 1 => Tail(req[t].batch) # <<>>
  <2>1. /\ Tail(req[t].batch) \in Seq(Uploads)
        /\ Len(Tail(req[t].batch)) = Len(req[t].batch) - 1
    BY <1>12, HeadTailProperties
  <2>2. Len(req[t].batch) \in Nat /\ Len(req[t].batch) # 0
    BY <1>12, EmptySeq, LenProperties
  <2>3. Len(req[t].batch) # 1 => Len(Tail(req[t].batch)) # 0
    BY <2>1, <2>2
  <2>. QED
    BY <2>1, <2>3, EmptySeq
<1>14. /\ RequestShape(r) /\ r.kind = "sync" /\ r.user = req[t].user
       /\ r.batch = Tail(req[t].batch)
  BY <1>1, <1>13, SlotGood DEF Good, RequestShape, HasFields
<1>. HIDE DEF r
<1>15. Own(r, w)
  BY <1>11, <1>14 DEF Own
<1>16. Progress(to, r, w)
  BY <1>13, <1>14, <1>15 DEF Progress
<1>17. Good(t, to, r, w)
  BY <1>11, <1>14, <1>16 DEF Good, Steps
<1>. QED
  BY <1>1, <1>17, StepGood

(* Closing a row changes neither source nor owner. *)
LEMMA AutoClosedShape ==
    ASSUME NEW o, NEW d, RowShape(o)
    PROVE  /\ RowShape(AutoClosed(o, d))
           /\ AutoClosed(o, d).source = o.source
           /\ AutoClosed(o, d).owner = o.owner
  BY DEF AutoClosed, RowShape, HasFields

(* Closing an abandoned session keeps the invariant. *)
LEMMA DeriveReapSafe == ASSUME IInv, NEW t \in Tx, DeriveReap(t) PROVE IInv'
<1>. DEFINE s == req[t].cur
            d == DeriveTimeline(Merged(req[t].seen, Added(t)), req[t].clock)
            closed == AutoClosed(work[t].obj[s], d)
            v == Verdict({"marathon_session"})
            done == WithVerdict(closed, v)
            w == [work[t] EXCEPT !.changed = @ \cup {s},
                    !.obj[s] = WithVerdict(AutoClosed(@, d), v),
                    !.notes[s] = @ \cup {AutoClose}]
            r == [req[t] EXCEPT !.stale = @ \ {s}]
            to == IF req[t].stale = {s} THEN "commit" ELSE "read"
<1>1. /\ pc[t] = "derive" /\ req[t].kind = "reap"
      /\ Step(t, to, r, w)
  BY DEF DeriveReap
<1>2. /\ WorkShape(work[t]) /\ WorkInv(work[t])
      /\ s \in work[t].held /\ s \in SessionIds
      /\ Stopped(work[t].ins[s]) /\ req[t].stale \subseteq work[t].held
  BY <1>1, SlotGood DEF Good, Progress, WorkShape
<1>. HIDE DEF d
<1>3. /\ RowShape(closed) /\ closed.source = work[t].obj[s].source
      /\ closed.owner = work[t].obj[s].owner
  <2>1. RowShape(work[t].obj[s])
    BY <1>2 DEF WorkShape
  <2>. QED
    BY <2>1, AutoClosedShape
<1>4. v.status # "ok"
  BY DEF Verdict
<1>. HIDE DEF closed, v
<1>5. /\ RowShape(done) /\ done.source = work[t].obj[s].source
      /\ done.owner = work[t].obj[s].owner /\ done.integrity = v.status
  BY <1>3, WithVerdictShape
<1>6. /\ HasFields({"held", "changed", "base", "obj", "ins", "notes", "locked"}, w)
      /\ w.held = work[t].held /\ w.changed = work[t].changed \cup {s}
      /\ w.base = work[t].base /\ w.ins = work[t].ins /\ w.locked = work[t].locked
      /\ w.notes = [work[t].notes EXCEPT ![s] = @ \cup {AutoClose}]
      /\ w.obj = [work[t].obj EXCEPT ![s] = done]
  BY <1>2 DEF WorkShape, HasFields, closed
<1>. HIDE DEF done, w
<1>7. w.notes \in [SessionIds -> SUBSET AuditEntry]
  BY <1>2, <1>6 DEF WorkShape, AuditEntry
<1>8. /\ WorkShape(w) /\ WorkInv(w)
      /\ \A t2 \in Tx \ {t} : Apart(w, work[t2])
  BY <1>2, <1>4, <1>5, <1>6, <1>7, RowChanged
<1>9. /\ RequestShape(r) /\ r.kind = "reap" /\ r.stale = req[t].stale \ {s}
  BY <1>1, SlotGood DEF Good, RequestShape, HasFields
<1>. HIDE DEF r
<1>10. Progress(to, r, w)
  BY <1>2, <1>6, <1>9 DEF Progress
<1>11. Good(t, to, r, w)
  BY <1>8, <1>9, <1>10 DEF Good, Steps
<1>. QED
  BY <1>1, <1>11, StepGood
-----------------------------------------------------------------------------
(* The steps that change the database.                                     *)

(* A unit of work stays in order when another request commits, as long as rows
   keep owner and source, stops stay on record, and neither its new rows nor
   its new events are taken. *)
LEMMA OtherWork ==
    ASSUME IInv, NEW t2 \in Tx, work'[t2] = work[t2], req'[t2] = req[t2], pc'[t2] = pc[t2],
           \A s \in SessionIds :
             /\ sessions[s] # None =>
                  /\ sessions'[s] # None
                  /\ sessions'[s].owner = sessions[s].owner
                  /\ sessions'[s].source = sessions[s].source
             /\ Stopped(log[s]) => Stopped(log'[s])
             /\ Fresh(t2, s) => sessions'[s] = None
             /\ DOMAIN work[t2].ins[s] \cap DOMAIN log'[s] = {}
    PROVE  (WorkInv(work[t2]) /\ Progress(pc[t2], req[t2], work[t2]))'
<1>1. WorkInv(work[t2]) /\ WorkShape(work[t2]) /\ Progress(pc[t2], req[t2], work[t2])
  BY SlotGood DEF Good
<1>2. WorkInv(work[t2])'
  <2>. SUFFICES ASSUME NEW s \in SessionIds PROVE WorkInv(work[t2])!(s)'
    BY DEF WorkInv
  <2>1. WorkInv(work[t2])!(s)
    BY <1>1 DEF WorkInv
  <2>. QED
    BY <2>1 DEF Fresh, Held
<1>3. Own(req[t2], work[t2]) => Own(req[t2], work[t2])'
  BY <1>1 DEF Own, WorkInv, WorkShape
<1>. QED
  BY <1>1, <1>2, <1>3 DEF Progress

(* A finished request leaves an empty slot. *)
LEMMA Finished ==
    ASSUME IInv, NEW t \in Tx, Finish(t),
           sessions' \in [SessionIds -> Row \cup {None}],
           log' = [s \in SessionIds |-> log'[s]], \A s \in SessionIds : IsLog(log'[s]),
           audit' \in [SessionIds -> SUBSET AuditEntry],
           Committed',
           \A t2 \in Tx \ {t} : (WorkInv(work[t2]) /\ Progress(pc[t2], req[t2], work[t2]))'
    PROVE  IInv'
<1>1. /\ pc'[t] = "idle" /\ req'[t] = NoReq /\ work'[t] = EmptyWork
      /\ \A t2 \in Tx \ {t} :
           pc'[t2] = pc[t2] /\ req'[t2] = req[t2] /\ work'[t2] = work[t2]
      /\ UNCHANGED <<now, begun>>
  BY DEF Finish, IInv, TypeOK
<1>2. TypeOK'
  <2>1. pc' \in [Tx -> Steps]
    BY DEF Finish, IInv, TypeOK, Steps
  <2>2. req' = [t2 \in Tx |-> req'[t2]] /\ \A t2 \in Tx : RequestShape(req'[t2])
    BY <1>1, NoReqShape DEF Finish, IInv, TypeOK
  <2>3. work' = [t2 \in Tx |-> work'[t2]] /\ \A t2 \in Tx : WorkShape(work'[t2])
    BY <1>1, EmptyWorkGood DEF Finish, IInv, TypeOK
  <2>. QED
    BY <1>1, <2>1, <2>2, <2>3 DEF IInv, TypeOK
<1>3. WorkInv(work[t])'
  <2>1. \A s \in SessionIds : s \notin work'[t].held /\ work'[t].base[s] = None
                              /\ DOMAIN work'[t].ins[s] = {}
    BY <1>1, EmptyIsLog DEF EmptyWork
  <2>. QED
    BY <2>1 DEF WorkInv
<1>4. Progress(pc[t], req[t], work[t])'
  <2>1. Progress("idle", NoReq, EmptyWork)
    BY NoReqShape DEF Progress
  <2>. QED
    BY <1>1, NoReqShape DEF Progress
<1>5. ASSUME NEW t2 \in Tx, NEW t3 \in Tx, t2 # t3 PROVE Apart(work[t2], work[t3])'
  <2>1. Apart(work'[t2], work'[t3])
    <3>1. CASE t2 = t
      BY <1>1, <1>5, <3>1, EmptyWorkGood
    <3>2. CASE t3 = t
      <4>1. Apart(EmptyWork, work'[t2])
        BY EmptyWorkGood
      <4>. QED
        BY <1>1, <1>5, <3>2, <4>1 DEF Apart
    <3>3. CASE t2 # t /\ t3 # t
      BY <1>1, <1>5, <3>3 DEF IInv
    <3>. QED
      BY <3>1, <3>2, <3>3
  <2>. QED
    BY <2>1 DEF Apart
<1>. QED
  BY <1>2, <1>3, <1>4, <1>5 DEF IInv

(* A request that fails leaves the invariant as it was. *)
LEMMA AbortSafe == ASSUME IInv, NEW t \in Tx, Abort(t) PROVE IInv'
<1>1. Finish(t) /\ UNCHANGED db
  BY DEF Abort
<1>2. Committed'
  BY <1>1 DEF IInv, Committed, OneRunningPerUser, CompletedHasStop, ManualNeverVerified,
              NoRowNoLog, Stopped, IsRunning, db
<1>3. ASSUME NEW t2 \in Tx \ {t}
      PROVE  (WorkInv(work[t2]) /\ Progress(pc[t2], req[t2], work[t2]))'
  <2>1. pc'[t2] = pc[t2] /\ req'[t2] = req[t2] /\ work'[t2] = work[t2]
    BY <1>1 DEF Finish, IInv, TypeOK
  <2>2. WorkInv(work[t2]) /\ t2 \in Tx
    BY DEF IInv
  <2>3. \A s \in SessionIds :
          /\ Fresh(t2, s) => sessions[s] = None
          /\ DOMAIN work[t2].ins[s] \cap DOMAIN log[s] = {}
    BY <2>2 DEF WorkInv, Fresh, Held
  <2>. QED
    BY <1>1, <2>1, <2>2, <2>3, OtherWork DEF db
<1>. QED
  BY <1>1, <1>2, <1>3, Finished DEF IInv, TypeOK, db

(* Time passing keeps the invariant. *)
LEMMA TickSafe == ASSUME IInv, Tick PROVE IInv'
<1>1. now' \in Nat /\ UNCHANGED <<db, pc, req, work, begun>>
  BY DEF Tick, IInv, TypeOK
<1>2. TypeOK' /\ Committed'
  BY <1>1 DEF IInv, TypeOK, Committed, OneRunningPerUser, CompletedHasStop,
              ManualNeverVerified, NoRowNoLog, Stopped, IsRunning, db
<1>. QED
  BY <1>1, <1>2 DEF IInv, WorkInv, Progress, Own, Apart, Stopped, db

(* Committing a new session keeps the invariant. *)
LEMMA CommitStartSafe == ASSUME IInv, NEW t \in Tx, CommitStart(t) PROVE IInv'
<1>. DEFINE s == req[t].cur
            row == TimerRow(req[t].user, req[t].at)
            e == [type |-> "start", at |-> req[t].at]
<1>1. /\ pc[t] = "insert" /\ req[t].kind = "start"
      /\ Insertable(t, req[t].user, s)
      /\ sessions' = [sessions EXCEPT ![s] = row]
      /\ log' = [log EXCEPT ![s] = Merged(Only(1, e), @)]
      /\ audit' = audit /\ Finish(t)
  BY DEF CommitStart, CanInsert
<1>2. /\ s \in SessionIds /\ req[t].user \in Users /\ work[t].held = {}
      /\ req[t].at \in Nat
  BY <1>1, SlotGood DEF Good, Progress, RequestShape
<1>3. row \in Row /\ row # None /\ row.owner = req[t].user /\ row.source = "timer"
      /\ row.status = "active"
  BY <1>2, NoneIsNoRow DEF TimerRow, Row, Source, Status, Integrity
<1>4. sessions[s] = None /\ DOMAIN log[s] = {}
  BY <1>1, <1>2 DEF Insertable, IInv, Committed, NoRowNoLog
<1>5. IsLog(log'[s]) /\ DOMAIN log'[s] = {1}
  <2>1. e \in Event
    BY <1>2 DEF Event, EventType
  <2>. HIDE DEF e
  <2>2. IsLog(Only(1, e)) /\ DOMAIN Only(1, e) = {1}
    BY <2>1, OneEventLog
  <2>3. IsLog(log[s])
    BY <1>2 DEF IInv, TypeOK
  <2>4. log'[s] = Merged(Only(1, e), log[s])
    BY <1>1, <1>2 DEF IInv, TypeOK
  <2>5. \A A, B : IsLog(A) /\ IsLog(B) =>
               IsLog(Merged(A, B)) /\ DOMAIN Merged(A, B) = DOMAIN A \cup DOMAIN B
    BY MergedLog
  <2>6. /\ IsLog(Merged(Only(1, e), log[s]))
        /\ DOMAIN Merged(Only(1, e), log[s]) = DOMAIN Only(1, e) \cup DOMAIN log[s]
    BY <2>2, <2>3, <2>5
  <2>. QED
    BY <1>4, <2>2, <2>4, <2>6
<1>6. /\ sessions'[s] = row
      /\ \A x \in SessionIds \ {s} : sessions'[x] = sessions[x] /\ log'[x] = log[x]
      /\ \A x \in SessionIds : IsLog(log'[x])
      /\ log' = [x \in SessionIds |-> log'[x]]
      /\ sessions' \in [SessionIds -> Row \cup {None}]
  BY <1>1, <1>2, <1>3, <1>5 DEF IInv, TypeOK
<1>. HIDE DEF row, e
<1>7. Committed'
  <2>1. OneRunningPerUser'
    <3>1. \A x \in SessionIds : IsRunning(sessions[x]) => sessions[x].owner # req[t].user
      BY <1>1, <1>2 DEF Insertable, Result, Held
    <3>2. OneRunningPerUser
      BY DEF IInv, Committed
    <3>. QED
      BY <1>2, <1>3, <1>6, <3>1, <3>2 DEF OneRunningPerUser, IsRunning
  <2>2. CompletedHasStop'
    BY <1>2, <1>3, <1>6 DEF IInv, Committed, CompletedHasStop
  <2>3. ManualNeverVerified'
    BY <1>2, <1>3, <1>6 DEF IInv, Committed, ManualNeverVerified
  <2>4. NoRowNoLog'
    BY <1>2, <1>3, <1>6 DEF IInv, Committed, NoRowNoLog
  <2>. QED
    BY <2>1, <2>2, <2>3, <2>4 DEF Committed
<1>8. ASSUME NEW t2 \in Tx \ {t}
      PROVE  (WorkInv(work[t2]) /\ Progress(pc[t2], req[t2], work[t2]))'
  <2>1. pc'[t2] = pc[t2] /\ req'[t2] = req[t2] /\ work'[t2] = work[t2]
    BY <1>1 DEF Finish, IInv, TypeOK
  <2>2. WorkInv(work[t2]) /\ t2 \in Tx
    BY DEF IInv
  <2>3. ~Fresh(t2, s) /\ DOMAIN work[t2].ins[s] = {}
    <3>1. ~Fresh(t2, s)
      BY <1>1, <1>2 DEF Insertable, Others
    <3>. QED
      BY <1>2, <1>4, <2>2, <3>1 DEF WorkInv, Fresh, Held
  <2>4. ASSUME NEW x \in SessionIds
        PROVE  /\ sessions[x] # None =>
                    /\ sessions'[x] # None
                    /\ sessions'[x].owner = sessions[x].owner
                    /\ sessions'[x].source = sessions[x].source
               /\ Stopped(log[x]) => Stopped(log'[x])
               /\ Fresh(t2, x) => sessions'[x] = None
               /\ DOMAIN work[t2].ins[x] \cap DOMAIN log'[x] = {}
    <3>1. CASE x = s
      BY <1>4, <2>3, <3>1 DEF Stopped
    <3>2. CASE x # s
      BY <1>6, <2>2, <3>2 DEF WorkInv, Fresh, Held
    <3>. QED
      BY <3>1, <3>2
  <2>. QED
    BY <2>1, <2>2, <2>4, OtherWork
<1>. QED
  BY <1>1, <1>6, <1>7, <1>8, Finished DEF IInv, TypeOK

(* What a committing request leaves of a row: a row stays a row of the same
   owner and source; what it did not change stays as it is; a row it inserted
   is a timer row under a free id. *)
LEMMA ResultRow ==
    ASSUME IInv, NEW t \in Tx, NEW s \in SessionIds, s \in Dirty(t) => RowOK(Result(t, s))
    PROVE  /\ Result(t, s) \in Row \cup {None}
           /\ sessions[s] # None =>
                /\ Result(t, s) # None
                /\ Result(t, s).owner = sessions[s].owner
                /\ Result(t, s).source = sessions[s].source
           /\ s \notin Dirty(t) => Result(t, s) = sessions[s]
           /\ Result(t, s) = None => s \notin work[t].held
           /\ (Result(t, s) # None /\ sessions[s] = None) => Fresh(t, s)
           /\ Fresh(t, s) => sessions[s] = None /\ Result(t, s) = work[t].obj[s]
           /\ (Held(t, s) /\ Result(t, s) # None) =>
                /\ Result(t, s).source = work[t].obj[s].source
                /\ sessions[s] = None => /\ Result(t, s).status = work[t].obj[s].status
                                         /\ Result(t, s).integrity = work[t].obj[s].integrity
                /\ sessions[s] # None =>
                     /\ Result(t, s).status \in {sessions[s].status, work[t].obj[s].status}
                     /\ Result(t, s).integrity \in {sessions[s].integrity, work[t].obj[s].integrity}
<1>1. WorkInv(work[t])!(s) /\ WorkShape(work[t]) /\ sessions[s] \in Row \cup {None}
  BY SlotGood DEF Good, WorkInv, IInv, TypeOK
<1>2. CASE ~Held(t, s)
  BY <1>1, <1>2 DEF Result, Dirty, Fresh, Held
<1>3. CASE Fresh(t, s)
  <2>1. Held(t, s) /\ s \in Dirty(t) /\ Result(t, s) = work[t].obj[s] /\ sessions[s] = None
    BY <1>1, <1>3 DEF Fresh, Held, Dirty, Result
  <2>2. Result(t, s) \in Row
    BY <2>1 DEF RowOK
  <2>. QED
    BY <1>3, <2>1, <2>2, NoneIsNoRow
<1>4. CASE Held(t, s) /\ ~Fresh(t, s)
  <2>. DEFINE b == work[t].base[s]
              o == work[t].obj[s]
  <2>1. /\ sessions[s] \in Row /\ sessions[s] # None
        /\ o.source = sessions[s].source
        /\ s \notin work[t].changed => o = b
        /\ Result(t, s) = Updated(sessions[s], b, o)
        /\ s \in Dirty(t) <=> s \in work[t].changed
    BY <1>1, <1>4 DEF Fresh, Held, Dirty, Result
  <2>. HIDE DEF b
  <2>2. /\ b = o => Result(t, s) = sessions[s]
        /\ Result(t, s).owner = sessions[s].owner
        /\ Result(t, s).source = sessions[s].source
        /\ Result(t, s).status \in {sessions[s].status, o.status}
        /\ Result(t, s).integrity \in {sessions[s].integrity, o.integrity}
    BY <2>1, UpdatedRow
  <2>3. Result(t, s) \in Row
    BY <2>1, <2>2 DEF RowOK
  <2>. QED
    BY <1>4, <2>1, <2>2, <2>3, NoneIsNoRow
<1>. QED
  BY <1>2, <1>3, <1>4 DEF Fresh

(* What a committing request leaves of a log: everything, and its own events. *)
LEMMA CommittedLog ==
    ASSUME IInv, NEW t \in Tx, NEW s \in SessionIds
    PROVE  LET L == Merged(work[t].ins[s], log[s])
           IN  /\ IsLog(L)
               /\ DOMAIN L = DOMAIN work[t].ins[s] \cup DOMAIN log[s]
               /\ \A n \in DOMAIN log[s] : L[n] = log[s][n]
               /\ Stopped(L) <=> Stopped(log[s]) \/ Stopped(work[t].ins[s])
<1>1. /\ IsLog(work[t].ins[s]) /\ IsLog(log[s])
      /\ DOMAIN work[t].ins[s] \cap DOMAIN log[s] = {}
  BY SlotGood DEF Good, WorkShape, WorkInv, IInv, TypeOK
<1>2. PICK A, B : A = work[t].ins[s] /\ B = log[s]
  OBVIOUS
<1>3. /\ IsLog(Merged(A, B))
      /\ DOMAIN Merged(A, B) = DOMAIN A \cup DOMAIN B
      /\ \A n \in DOMAIN B \ DOMAIN A : Merged(A, B)[n] = B[n]
      /\ Stopped(Merged(A, B)) <=> Stopped(A) \/ Stopped(B)
  BY <1>1, <1>2, MergedLog, MergedStopped
<1>. QED
  BY <1>1, <1>2, <1>3

(* Committing a unit of work keeps the invariant. *)
LEMMA CommitSafe == ASSUME IInv, NEW t \in Tx, Commit(t) PROVE IInv'
<1>1. /\ pc[t] = "commit" /\ Finish(t) /\ Committable(t)
      /\ \A s \in SessionIds : sessions'[s] = Result(t, s)
      /\ \A s \in SessionIds : log'[s] = Merged(work[t].ins[s], log[s])
      /\ log' = [s \in SessionIds |-> log'[s]]
      /\ sessions' = [s \in SessionIds |-> Result(t, s)]
      /\ audit' = [s \in SessionIds |-> audit[s] \cup work[t].notes[s]]
  BY DEF Commit
<1>2. WorkShape(work[t]) /\ WorkInv(work[t])
  BY SlotGood DEF Good
<1>3. \A s \in Dirty(t) : RowOK(Result(t, s))
  BY <1>1 DEF Committable
<1>4. sessions' \in [SessionIds -> Row \cup {None}]
  BY <1>1, <1>3, ResultRow
<1>5. \A s \in SessionIds : IsLog(log'[s])
  BY <1>1, CommittedLog
<1>6. audit' \in [SessionIds -> SUBSET AuditEntry]
  BY <1>1, <1>2 DEF WorkShape, IInv, TypeOK
<1>7. Committed'
  <2>1. OneRunningPerUser'
    <3>. SUFFICES ASSUME NEW s \in SessionIds, NEW r \in SessionIds,
                         IsRunning(Result(t, s)), IsRunning(Result(t, r)),
                         Result(t, s).owner = Result(t, r).owner, s # r
                  PROVE  FALSE
      BY <1>1 DEF OneRunningPerUser, IsRunning
    <3>1. s \notin Dirty(t) /\ r \notin Dirty(t)
      BY <1>1 DEF Committable, IsRunning
    <3>2. Result(t, s) = sessions[s] /\ Result(t, r) = sessions[r]
      BY <3>1, ResultRow
    <3>. QED
      BY <3>2 DEF IInv, Committed, OneRunningPerUser
  <2>2. CompletedHasStop'
    <3>. SUFFICES ASSUME NEW s \in SessionIds, Result(t, s) # None,
                         Result(t, s).source = "timer", Result(t, s).status = "completed"
                  PROVE  Stopped(log'[s])
      BY <1>1 DEF CompletedHasStop
    <3>1. CASE Held(t, s) /\ work[t].obj[s].status = "completed"
      <4>1. work[t].obj[s].source = "timer"
        BY <1>3, <3>1, ResultRow
      <4>. QED
        BY <1>1, <1>2, <3>1, <4>1, CommittedLog DEF WorkInv, Held
    <3>2. CASE ~(Held(t, s) /\ work[t].obj[s].status = "completed")
      <4>1. /\ sessions[s] # None /\ sessions[s].source = "timer"
            /\ sessions[s].status = "completed"
        BY <1>3, <3>2, ResultRow DEF Dirty, Fresh, Held
      <4>2. Stopped(log[s])
        BY <4>1 DEF IInv, Committed, CompletedHasStop
      <4>. QED
        BY <1>1, <4>2, CommittedLog
    <3>. QED
      BY <3>1, <3>2
  <2>3. ManualNeverVerified'
    <3>. SUFFICES ASSUME NEW s \in SessionIds, Result(t, s) # None,
                         Result(t, s).source = "manual"
                  PROVE  Result(t, s).integrity # "ok"
      BY <1>1 DEF ManualNeverVerified
    <3>1. CASE Held(t, s)
      <4>1. work[t].obj[s].integrity # "ok"
        BY <1>2, <1>3, <3>1, ResultRow DEF WorkInv, Held
      <4>2. sessions[s] # None => sessions[s].integrity # "ok"
        BY <1>3, ResultRow DEF IInv, Committed, ManualNeverVerified
      <4>. QED
        BY <1>3, <3>1, <4>1, <4>2, ResultRow
    <3>2. CASE ~Held(t, s)
      BY <3>2 DEF Result, IInv, Committed, ManualNeverVerified
    <3>. QED
      BY <3>1, <3>2
  <2>4. NoRowNoLog'
    <3>. SUFFICES ASSUME NEW s \in SessionIds, Result(t, s) = None
                  PROVE  DOMAIN log'[s] = {}
      BY <1>1 DEF NoRowNoLog
    <3>1. s \notin work[t].held /\ sessions[s] = None
      BY <1>3, ResultRow
    <3>2. DOMAIN log[s] = {} /\ DOMAIN work[t].ins[s] = {}
      BY <1>2, <3>1 DEF WorkInv, IInv, Committed, NoRowNoLog
    <3>. QED
      BY <1>1, <3>2, CommittedLog
  <2>. QED
    BY <2>1, <2>2, <2>3, <2>4 DEF Committed
<1>8. ASSUME NEW t2 \in Tx \ {t}
      PROVE  (WorkInv(work[t2]) /\ Progress(pc[t2], req[t2], work[t2]))'
  <2>1. pc'[t2] = pc[t2] /\ req'[t2] = req[t2] /\ work'[t2] = work[t2]
    BY <1>1 DEF Finish, IInv, TypeOK
  <2>2. WorkInv(work[t2]) /\ t2 \in Tx /\ Apart(work[t], work[t2])
    BY DEF IInv
  <2>3. ASSUME NEW s \in SessionIds
        PROVE  /\ sessions[s] # None =>
                    /\ sessions'[s] # None
                    /\ sessions'[s].owner = sessions[s].owner
                    /\ sessions'[s].source = sessions[s].source
               /\ Stopped(log[s]) => Stopped(log'[s])
               /\ Fresh(t2, s) => sessions'[s] = None
               /\ DOMAIN work[t2].ins[s] \cap DOMAIN log'[s] = {}
    <3>1. sessions[s] # None =>
            /\ sessions'[s] # None
            /\ sessions'[s].owner = sessions[s].owner
            /\ sessions'[s].source = sessions[s].source
      BY <1>1, <1>3, ResultRow
    <3>2. Stopped(log[s]) => Stopped(log'[s])
      BY <1>1, CommittedLog
    <3>3. ASSUME Fresh(t2, s) PROVE sessions'[s] = None
      <4>1. sessions[s] = None /\ ~Fresh(t, s)
        BY <2>2, <3>3 DEF WorkInv, Apart, Fresh, Held
      <4>. QED
        BY <1>1, <1>3, <4>1, ResultRow
    <3>4. DOMAIN work[t2].ins[s] \cap DOMAIN log'[s] = {}
      <4>1. DOMAIN log'[s] = DOMAIN work[t].ins[s] \cup DOMAIN log[s]
        BY <1>1, CommittedLog
      <4>. QED
        BY <2>2, <4>1 DEF WorkInv, Apart
    <3>. QED
      BY <3>1, <3>2, <3>3, <3>4
  <2>. QED
    BY <2>1, <2>2, <2>3, OtherWork
<1>. QED
  BY <1>1, <1>4, <1>5, <1>6, <1>7, <1>8, Finished

(* Inserting a manual entry keeps the invariant. *)
LEMMA CreateManualSafe ==
    ASSUME IInv, NEW u \in Users, NEW s \in SessionIds, NEW span \in ManualSpans,
           CreateManual(u, s, span)
    PROVE  IInv'
<1>. DEFINE row == ManualRow(u, span[1], span[2])
<1>1. /\ sessions[s] = None /\ span[1] < span[2]
      /\ \A t \in Tx : ~Held(t, s)
      /\ sessions' = [sessions EXCEPT ![s] = row]
      /\ audit' = [audit EXCEPT ![s] = @ \cup {ManualCreated}]
      /\ UNCHANGED <<now, log, pc, req, work>>
  BY DEF CreateManual
<1>2. begun' \in Nat
  BY BegunNat DEF CreateManual
<1>3. row \in Row /\ row # None /\ row.status = "completed" /\ row.source = "manual"
      /\ row.integrity # "ok"
  <2>1. span[1] \in Nat /\ span[2] \in Nat
    BY SessionsAssumption
  <2>2. row \in Row
    BY <1>1, <2>1 DEF ManualRow, ManualVerdict, Row, Source, Status, Integrity, Reason
  <2>. QED
    BY <2>2, NoneIsNoRow DEF ManualRow, ManualVerdict
<1>. HIDE DEF row
<1>4. /\ sessions'[s] = row
      /\ \A x \in SessionIds \ {s} : sessions'[x] = sessions[x]
      /\ sessions' \in [SessionIds -> Row \cup {None}]
      /\ audit' \in [SessionIds -> SUBSET AuditEntry]
  BY <1>1, <1>3 DEF IInv, TypeOK, AuditEntry
<1>5. TypeOK'
  BY <1>1, <1>2, <1>4 DEF IInv, TypeOK
<1>6. Committed'
  <2>1. OneRunningPerUser'
    BY <1>3, <1>4 DEF IInv, Committed, OneRunningPerUser, IsRunning, Running
  <2>2. CompletedHasStop' /\ ManualNeverVerified' /\ NoRowNoLog'
    BY <1>1, <1>3, <1>4 DEF IInv, Committed, CompletedHasStop, ManualNeverVerified,
                             NoRowNoLog, Stopped
  <2>. QED
    BY <2>1, <2>2 DEF Committed
<1>7. ASSUME NEW t \in Tx
      PROVE  (WorkInv(work[t]) /\ Progress(pc[t], req[t], work[t]))'
  <2>1. WorkInv(work[t]) /\ ~Held(t, s)
    BY <1>1 DEF IInv
  <2>2. ASSUME NEW x \in SessionIds
        PROVE  /\ sessions[x] # None =>
                    /\ sessions'[x] # None
                    /\ sessions'[x].owner = sessions[x].owner
                    /\ sessions'[x].source = sessions[x].source
               /\ Fresh(t, x) => sessions'[x] = None
               /\ DOMAIN work[t].ins[x] \cap DOMAIN log'[x] = {}
    BY <1>1, <1>4, <2>1 DEF WorkInv, Fresh, Held
  <2>. QED
    BY <1>1, <2>2, OtherWork
<1>8. \A t \in Tx, t2 \in Tx : t # t2 => Apart(work[t], work[t2])'
  BY <1>1 DEF IInv, Apart
<1>. QED
  BY <1>5, <1>6, <1>7, <1>8 DEF IInv
-----------------------------------------------------------------------------
(* The theorems.                                                           *)

(* The empty database meets the invariant. *)
LEMMA InitSafe == Init => IInv
<1>. SUFFICES ASSUME Init PROVE IInv
  OBVIOUS
<1>1. TypeOK
  BY NoReqShape, EmptyWorkGood, EmptyIsLog DEF Init, TypeOK, Steps
<1>2. Committed
  BY EmptyIsLog DEF Init, Committed, OneRunningPerUser, CompletedHasStop,
                    ManualNeverVerified, NoRowNoLog, IsRunning
<1>3. ASSUME NEW t \in Tx PROVE WorkInv(work[t]) /\ Progress(pc[t], req[t], work[t])
  <2>1. pc[t] = "idle" /\ req[t] = NoReq /\ work[t] = EmptyWork
    BY DEF Init
  <2>. QED
    BY <2>1, NoReqShape, EmptyWorkGood DEF Progress
<1>4. ASSUME NEW t \in Tx, NEW t2 \in Tx PROVE Apart(work[t], work[t2])
  <2>1. work[t] = EmptyWork
    BY DEF Init
  <2>. QED
    BY <2>1, EmptyWorkGood
<1>. QED
  BY <1>1, <1>2, <1>3, <1>4 DEF IInv

(* Every step of the service keeps the invariant. *)
LEMMA NextSafe == IInv /\ [Next]_vars => IInv'
<1>. SUFFICES ASSUME IInv, [Next]_vars PROVE IInv'
  OBVIOUS
<1>1. CASE Tick
  BY <1>1, TickSafe
<1>2. CASE \E u \in Users, s \in SessionIds, span \in ManualSpans : CreateManual(u, s, span)
  BY <1>2, CreateManualSafe
<1>3. ASSUME NEW t \in Tx, Arrive(t) \/ BeginReap(t) \/ Proceed(t) \/ Abort(t)
      PROVE  IInv'
  <2>1. CASE Arrive(t)
    BY <2>1, BeginStartSafe, BeginTransitionSafe, BeginSyncSafe DEF Arrive
  <2>2. CASE BeginReap(t)
    BY <2>2, BeginReapSafe
  <2>3. CASE Proceed(t)
    BY <2>3, LoadItemSafe, FlushRowSafe, ReadLogSafe, ReapReadSafe, FlushEventsSafe,
       DeriveTransitionSafe, DeriveSyncSafe, DeriveReapSafe, CommitStartSafe, CommitSafe
       DEF Proceed
  <2>4. CASE Abort(t)
    BY <2>4, AbortSafe
  <2>. QED
    BY <1>3, <2>1, <2>2, <2>3, <2>4
<1>4. CASE UNCHANGED vars
  <2>1. UNCHANGED <<now, sessions, log, audit, pc, req, work, begun>>
    BY <1>4 DEF vars, db
  <2>2. TypeOK' /\ Committed'
    BY <2>1 DEF IInv, TypeOK, Committed, OneRunningPerUser, CompletedHasStop,
                ManualNeverVerified, NoRowNoLog, Stopped, IsRunning
  <2>. QED
    BY <2>1, <2>2 DEF IInv, WorkInv, Progress, Own, Apart, Stopped
<1>. QED
  BY <1>1, <1>2, <1>3, <1>4 DEF Next

(* The inductive invariant holds of every behaviour of the service. *)
THEOREM Inductive == Spec => []IInv
  BY InitSafe, NextSafe, PTL DEF Spec

(* The database holds rows and logs of the right shape, and so does every open
   request: nothing the service computes from client input gets past the
   columns' types and checks. *)
THEOREM TypesAreKept == Spec => []TypeOK
<1>1. IInv => TypeOK
  BY DEF IInv
<1>. QED
  BY <1>1, Inductive, PTL

(* A user never has two running sessions, however the requests of any number
   of devices and the reaper interleave (service.start, sync, transition). *)
THEOREM OneRunning == Spec => []OneRunningPerUser
<1>1. IInv => OneRunningPerUser
  BY DEF IInv, Committed
<1>. QED
  BY <1>1, Inductive, PTL

(* No timer session is completed without a stop event on record. *)
THEOREM CompletionIsRecorded == Spec => []CompletedHasStop
<1>1. IInv => CompletedHasStop
  BY DEF IInv, Committed
<1>. QED
  BY <1>1, Inductive, PTL

(* No request ever verifies time that was entered by hand. *)
THEOREM ManualStaysOut == Spec => []ManualNeverVerified
<1>1. IInv => ManualNeverVerified
  BY DEF IInv, Committed
<1>. QED
  BY <1>1, Inductive, PTL

(* No step changes or removes a recorded event. *)
LEMMA NextAppends ==
    IInv /\ [Next]_vars =>
      [\A s \in SessionIds :
          /\ DOMAIN log[s] \subseteq DOMAIN log'[s]
          /\ \A n \in DOMAIN log[s] : log'[s][n] = log[s][n]]_vars
<1>. SUFFICES ASSUME IInv, Next, NEW s \in SessionIds
              PROVE  /\ DOMAIN log[s] \subseteq DOMAIN log'[s]
                     /\ \A n \in DOMAIN log[s] : log'[s][n] = log[s][n]
  OBVIOUS
<1>1. ASSUME NEW t \in Tx, Commit(t)
      PROVE  /\ DOMAIN log[s] \subseteq DOMAIN log'[s]
             /\ \A n \in DOMAIN log[s] : log'[s][n] = log[s][n]
  <2>1. log'[s] = Merged(work[t].ins[s], log[s])
    BY <1>1 DEF Commit
  <2>. QED
    BY <2>1, CommittedLog
<1>2. ASSUME NEW t \in Tx, CommitStart(t)
      PROVE  log'[s] = log[s] \/ DOMAIN log[s] = {}
  <2>1. /\ sessions[req[t].cur] = None
        /\ log' = [log EXCEPT ![req[t].cur] =
                      Merged(Only(1, [type |-> "start", at |-> req[t].at]), @)]
    BY <1>2 DEF CommitStart, CanInsert, Insertable
  <2>. QED
    BY <2>1 DEF IInv, TypeOK, Committed, NoRowNoLog
<1>3. CASE UNCHANGED log
  BY <1>3
<1>4. \/ \E t \in Tx : Commit(t) \/ CommitStart(t)
      \/ UNCHANGED log
  <2>1. Tick => UNCHANGED log
    BY DEF Tick, db
  <2>2. (\E u \in Users, r \in SessionIds, span \in ManualSpans : CreateManual(u, r, span))
          => UNCHANGED log
    BY DEF CreateManual
  <2>3. ASSUME NEW t \in Tx PROVE Arrive(t) \/ BeginReap(t) \/ Abort(t) => UNCHANGED log
    BY DEF Arrive, BeginStart, BeginTransition, BeginSync, BeginReap, Begin, Abort, db
  <2>4. ASSUME NEW t \in Tx PROVE Proceed(t) => UNCHANGED log \/ Commit(t) \/ CommitStart(t)
    <3>1. LoadItem(t) \/ FlushRow(t) \/ ReadLog(t) \/ FlushEvents(t) => UNCHANGED log
      BY DEF LoadItem, FlushRow, ReadLog, FlushEvents, Step, db
    <3>2. (\E r \in SessionIds : ReapRead(t, r)) => UNCHANGED log
      BY DEF ReapRead, Step, db
    <3>3. DeriveTransition(t) \/ DeriveSync(t) \/ DeriveReap(t) => UNCHANGED log
      BY DEF DeriveTransition, DeriveSync, DeriveReap, Step, db
    <3>. QED
      BY <3>1, <3>2, <3>3 DEF Proceed
  <2>. QED
    BY <2>1, <2>2, <2>3, <2>4 DEF Next
<1>. QED
  BY <1>1, <1>2, <1>3, <1>4

(* The event log is append-only, whichever requests race to append to it. *)
THEOREM AppendOnly == Spec => LogAppendOnly
  BY Inductive, NextAppends, PTL DEF Spec, LogAppendOnly

(* Only its own commit or abort ends a request. *)
LEMMA WhoEnds ==
    ASSUME IInv, Next, NEW t \in Tx, pc[t] # "idle", pc'[t] = "idle"
    PROVE  Commit(t) \/ CommitStart(t) \/ Abort(t)
<1>. SUFFICES ASSUME ~Commit(t), ~CommitStart(t), ~Abort(t) PROVE FALSE
  OBVIOUS
<1>1. pc \in [Tx -> Steps]
  BY DEF IInv, TypeOK
<1>2. CASE Tick \/ \E u \in Users, s \in SessionIds, span \in ManualSpans : CreateManual(u, s, span)
  BY <1>2 DEF Tick, CreateManual
<1>3. ASSUME NEW t2 \in Tx, Arrive(t2) \/ BeginReap(t2) PROVE FALSE
  <2>1. \E step \in Steps : \E r, S : Begin(t2, step, r, S)
    BY <1>3 DEF Arrive, BeginStart, BeginTransition, BeginSync, BeginReap, Steps
  <2>. QED
    BY <1>1, <2>1 DEF Begin
<1>4. ASSUME NEW t2 \in Tx, NEW to \in Steps \ {"idle"}, NEW r, NEW w, Step(t2, to, r, w)
      PROVE  FALSE
  BY <1>1, <1>4 DEF Step
<1>5. ASSUME NEW t2 \in Tx, Commit(t2) \/ CommitStart(t2) \/ Abort(t2) PROVE FALSE
  BY <1>1, <1>5 DEF Commit, CommitStart, Abort, Finish
<1>6. ASSUME NEW t2 \in Tx, Proceed(t2) PROVE FALSE
  <2>1. CASE LoadItem(t2)
    BY <1>4, <2>1 DEF LoadItem, Steps
  <2>2. CASE FlushRow(t2) \/ ReadLog(t2) \/ FlushEvents(t2)
    BY <1>4, <2>2 DEF FlushRow, ReadLog, FlushEvents, Steps
  <2>3. CASE \E s \in SessionIds : ReapRead(t2, s)
    BY <1>4, <2>3 DEF ReapRead, Steps
  <2>4. CASE DeriveTransition(t2)
    BY <1>4, <2>4 DEF DeriveTransition, Steps
  <2>5. CASE DeriveSync(t2)
    BY <1>4, <2>5 DEF DeriveSync, Steps
  <2>6. CASE DeriveReap(t2)
    BY <1>4, <2>6 DEF DeriveReap, Steps
  <2>. QED
    BY <1>5, <1>6, <2>1, <2>2, <2>3, <2>4, <2>5, <2>6 DEF Proceed
<1>. QED
  BY <1>2, <1>3, <1>5, <1>6 DEF Next

(* No step lets a request change what is not its user's. *)
LEMMA NextOwn ==
    IInv /\ [Next]_vars =>
      [\A t \in Tx, s \in SessionIds :
          (/\ pc[t] # "idle" /\ pc'[t] = "idle" /\ req[t].kind # "reap"
           /\ <<sessions[s], log[s]>>' # <<sessions[s], log[s]>>)
             => /\ sessions'[s].owner = req[t].user
                /\ sessions[s] # None => sessions[s].owner = req[t].user]_vars
<1>. SUFFICES ASSUME IInv, Next, NEW t \in Tx, NEW s \in SessionIds,
                     pc[t] # "idle", pc'[t] = "idle", req[t].kind # "reap",
                     sessions'[s] # sessions[s] \/ log'[s] # log[s]
              PROVE  /\ sessions'[s].owner = req[t].user
                     /\ sessions[s] # None => sessions[s].owner = req[t].user
  OBVIOUS
<1>1. Own(req[t], work[t]) /\ WorkInv(work[t])
  BY DEF IInv, Progress
<1>2. CASE Abort(t)
  BY <1>2 DEF Abort, db
<1>3. CASE CommitStart(t)
  <2>1. /\ sessions' = [sessions EXCEPT ![req[t].cur] = TimerRow(req[t].user, req[t].at)]
        /\ log' = [log EXCEPT ![req[t].cur] =
                      Merged(Only(1, [type |-> "start", at |-> req[t].at]), @)]
        /\ sessions[req[t].cur] = None
    BY <1>3 DEF CommitStart, CanInsert, Insertable
  <2>2. s = req[t].cur
    BY <2>1 DEF IInv, TypeOK
  <2>3. sessions'[s] = TimerRow(req[t].user, req[t].at)
    BY <2>1, <2>2 DEF IInv, TypeOK
  <2>. QED
    BY <2>1, <2>2, <2>3, TimerRowShape
<1>4. CASE Commit(t)
  <2>1. /\ sessions'[s] = Result(t, s)
        /\ log'[s] = Merged(work[t].ins[s], log[s])
        /\ \A x \in Dirty(t) : RowOK(Result(t, x))
    BY <1>4 DEF Commit, Committable
  <2>2. s \in work[t].held
    <3>. SUFFICES ASSUME s \notin work[t].held PROVE FALSE
      OBVIOUS
    <3>1. sessions'[s] = sessions[s] /\ DOMAIN work[t].ins[s] = {}
      BY <1>1, <2>1 DEF Result, Held, WorkInv
    <3>2. PICK B : B = log[s]
      OBVIOUS
    <3>3. PICK D \in SUBSET (1..MaxSeq) : B \in [D -> Event]
      BY <3>2 DEF IInv, TypeOK, IsLog
    <3>4. Merged(work[t].ins[s], B) = B
      BY <3>1, <3>3 DEF Merged
    <3>. QED
      BY <2>1, <3>1, <3>2, <3>4
  <2>3. CASE Fresh(t, s)
    BY <1>1, <2>1, <2>2, <2>3, ResultRow DEF Own, Fresh
  <2>4. CASE ~Fresh(t, s)
    <3>1. sessions[s] # None /\ sessions[s].owner = req[t].user
      BY <1>1, <2>2, <2>4 DEF Own, WorkInv, Fresh, Held
    <3>. QED
      BY <2>1, <3>1, ResultRow
  <2>. QED
    BY <2>3, <2>4
<1>. QED
  BY <1>2, <1>3, <1>4, WhoEnds

(* A user's request changes only rows and logs of that user, also when another
   user uploads the same session id at the same time. *)
THEOREM OwnRowsOnly == Spec => WritesOwnRows
  BY Inductive, NextOwn, PTL DEF Spec, WritesOwnRows
-----------------------------------------------------------------------------
(* What the steps of a request do to its unit of work, field by field.     *)

(* Reading rows adds them as they are committed, and nothing else. *)
LEMMA LoadedWork ==
    ASSUME NEW w, WorkShape(w), NEW S \in SUBSET SessionIds
    PROVE  LET l == Loaded(w, S)
               rows == {s \in S : sessions[s] # None}
           IN  /\ l.held = w.held \cup rows
               /\ l.changed = w.changed /\ l.ins = w.ins /\ l.notes = w.notes
               /\ l.base = [s \in SessionIds |-> IF s \in rows THEN sessions[s] ELSE w.base[s]]
               /\ l.obj = [s \in SessionIds |-> IF s \in rows THEN sessions[s] ELSE w.obj[s]]
  BY DEF WorkShape, HasFields, Loaded

(* Flushing a new row adds that row, running and unjudged. *)
LEMMA FlushRowWork ==
    ASSUME IInv, NEW t \in Tx, FlushRow(t)
    PROVE  LET w == work[t]
               v == work'[t]
               s == req[t].cur
           IN  /\ s \in SessionIds /\ s \notin w.held
               /\ v.held = w.held \cup {s} /\ v.changed = w.changed
               /\ v.base = w.base /\ v.ins = w.ins /\ v.notes = w.notes
               /\ \A x \in SessionIds \ {s} : v.obj[x] = w.obj[x]
               /\ v.obj[s].status = "active" /\ v.obj[s].integrity = "ok"
<1>. DEFINE s == req[t].cur
            row == TimerRow(req[t].user, Incoming(t).events[Min(DOMAIN Incoming(t).events)].at)
            f == Flushed(t, work[t])
            w == [f EXCEPT !.held = @ \cup {s}, !.obj[s] = row]
<1>1. pc[t] = "insert" /\ req[t].kind = "sync" /\ Step(t, "read", req[t], w)
  BY DEF FlushRow
<1>2. s \in SessionIds /\ s \notin work[t].held
  BY <1>1, SlotGood DEF Good, Progress
<1>3. /\ WorkShape(f)
      /\ f.held = work[t].held /\ f.changed = work[t].changed
      /\ f.base = work[t].base /\ f.obj = work[t].obj
      /\ f.ins = work[t].ins /\ f.notes = work[t].notes
  BY FlushedGood
<1>4. row.status = "active" /\ row.integrity = "ok"
  BY DEF TimerRow
<1>5. work'[t] = w
  BY <1>1 DEF Step, IInv, TypeOK
<1>. HIDE DEF f, row
<1>. QED
  BY <1>2, <1>3, <1>4, <1>5 DEF WorkShape, HasFields

(* Flushing events adds them to those the request has flushed before. *)
LEMMA FlushEventsWork ==
    ASSUME IInv, NEW t \in Tx, FlushEvents(t)
    PROVE  LET w == work[t]
               v == work'[t]
               s == req[t].cur
           IN  /\ s \in w.held /\ s \in SessionIds
               /\ v.held = w.held /\ v.changed = w.changed
               /\ v.base = w.base /\ v.obj = w.obj /\ v.notes = w.notes
               /\ v.ins[s] = Merged(w.ins[s], Added(t))
               /\ \A x \in SessionIds \ {s} : v.ins[x] = w.ins[x]
<1>. DEFINE s == req[t].cur
            f == Flushed(t, work[t])
            w == [f EXCEPT !.ins[s] = Merged(@, Added(t))]
<1>1. pc[t] = "append" /\ Step(t, "derive", req[t], w)
  BY DEF FlushEvents
<1>2. s \in work[t].held /\ s \in SessionIds
  BY <1>1, SlotGood DEF Good, Progress, WorkShape
<1>3. /\ WorkShape(f)
      /\ f.held = work[t].held /\ f.changed = work[t].changed
      /\ f.base = work[t].base /\ f.obj = work[t].obj
      /\ f.ins = work[t].ins /\ f.notes = work[t].notes
  BY FlushedGood
<1>4. work'[t] = w
  BY <1>1 DEF Step, IInv, TypeOK
<1>. HIDE DEF f
<1>. QED
  BY <1>2, <1>3, <1>4 DEF WorkShape, HasFields

\* The timeline a request has put on the row o.
Shows(o, d) ==
    o.status = d.status /\ o.startedAt = d.startedAt
    /\ o.endedAt = d.endedAt /\ o.duration = d.elapsed

\* The entry e gives the reasons for which the row o is excluded.
Gives(e, o) == Given(e) # {} /\ o.reasons = Given(e)

(* Putting a timeline, or a verdict, on a row shows it there. *)
LEMMA WithTimelineShows ==
    ASSUME NEW o, NEW d, NEW v, RowShape(o)
    PROVE  /\ Shows(WithTimeline(o, d), d)
           /\ Shows(WithVerdict(WithTimeline(o, d), v), d)
           /\ WithVerdict(WithTimeline(o, d), v).integrity = v.status
           /\ WithVerdict(WithTimeline(o, d), v).reasons = v.reasons
           /\ WithVerdict(WithTimeline(o, d), v).source = o.source
           /\ WithTimeline(o, d).integrity = o.integrity
           /\ WithTimeline(o, d).source = o.source
<1>1. /\ RowShape(WithTimeline(o, d)) /\ Shows(WithTimeline(o, d), d)
      /\ WithTimeline(o, d).integrity = o.integrity
      /\ WithTimeline(o, d).source = o.source
  BY DEF WithTimeline, RowShape, HasFields, Shows
<1>. DEFINE row == WithTimeline(o, d)
<1>. HIDE DEF row
<1>2. ASSUME RowShape(row)
      PROVE  /\ \A f \in {"status", "startedAt", "endedAt", "duration"} :
                    WithVerdict(row, v)[f] = row[f]
             /\ WithVerdict(row, v).integrity = v.status
             /\ WithVerdict(row, v).reasons = v.reasons
             /\ WithVerdict(row, v).source = row.source
  BY <1>2 DEF WithVerdict, RowShape, HasFields
<1>. QED
  BY <1>1, <1>2 DEF Shows, row

(* Deriving changes one row it holds, puts on it the timeline of the recorded
   and the new events, and writes the reasons down when the verdict is a new one. *)
LEMMA DeriveWork ==
    ASSUME IInv, NEW t \in Tx, DeriveTransition(t) \/ DeriveSync(t)
    PROVE  LET w == work[t]
               v == work'[t]
               s == req[t].cur
           IN  /\ pc[t] = "derive" /\ s \in w.held /\ s \in SessionIds
               /\ v.held = w.held /\ v.changed = w.changed \cup {s}
               /\ v.base = w.base /\ v.ins = w.ins
               /\ \A x \in SessionIds \ {s} : v.obj[x] = w.obj[x] /\ v.notes[x] = w.notes[x]
               /\ v.obj[s].source = w.obj[s].source
               /\ Shows(v.obj[s], DeriveTimeline(Merged(log[s], w.ins[s]), req[t].clock))
               /\ w.notes[s] \subseteq v.notes[s]
               /\ \/ v.obj[s].integrity \in {w.obj[s].integrity, "ok"}
                  \/ \E e \in v.notes[s] : Gives(e, v.obj[s])
<1>. DEFINE s == req[t].cur
            d == DeriveTimeline(Merged(log[s], work[t].ins[s]), req[t].clock)
            row == WithTimeline(work[t].obj[s], d)
<1>1. /\ pc[t] = "derive" /\ req[t].kind # "reap" /\ s \in work[t].held
      /\ s \in SessionIds /\ WorkShape(work[t])
  BY SlotGood DEF DeriveTransition, DeriveSync, Good, Progress, WorkShape
<1>2. RowShape(work[t].obj[s])
  BY <1>1 DEF WorkShape
<1>3. /\ Shows(row, d) /\ row.integrity = work[t].obj[s].integrity
      /\ row.source = work[t].obj[s].source
      /\ \A v : /\ Shows(WithVerdict(row, v), d) /\ WithVerdict(row, v).integrity = v.status
                /\ WithVerdict(row, v).reasons = v.reasons
                /\ WithVerdict(row, v).source = work[t].obj[s].source
  BY <1>2, WithTimelineShows
<1>. DEFINE Plain == work'[t] = [work[t] EXCEPT !.changed = @ \cup {s}, !.obj[s] = row]
            Turned == \E v, N : /\ FlagNote(row, v) \subseteq N
                                /\ v.status # "ok" => v.reasons # {}
                                /\ work'[t] = [work[t] EXCEPT !.changed = @ \cup {s},
                                                  !.obj[s] = WithVerdict(row, v),
                                                  !.notes[s] = @ \cup N]
<1>4. Plain \/ Turned
  <2>1. CASE DeriveTransition(t)
    <3>. DEFINE v == EvaluateSession(row.source, d,
                       LastEventAt(Merged(log[s], work[t].ins[s])), req[t].clock, FALSE, FALSE)
                plain == [work[t] EXCEPT !.changed = @ \cup {s}, !.obj[s] = row]
                judged == [work[t] EXCEPT !.changed = @ \cup {s},
                                    !.obj[s] = WithVerdict(row, v),
                                    !.notes[s] = @ \cup FlagNote(row, v)]
    <3>1. Step(t, "commit", req[t], IF req[t].kind # "stop" THEN plain ELSE judged)
      BY <2>1 DEF DeriveTransition
    <3>2. work'[t] = plain \/ work'[t] = judged
      BY <3>1 DEF Step, IInv, TypeOK
    <3>3. CASE work'[t] = plain
      BY <3>3
    <3>4. CASE work'[t] = judged
      <4>1. PICK u, N : /\ u = v /\ N = FlagNote(row, u)
                        /\ u.status # "ok" => u.reasons # {}
        BY EvaluationReasons
      <4>2. work'[t] = [work[t] EXCEPT !.changed = @ \cup {s},
                                       !.obj[s] = WithVerdict(row, u), !.notes[s] = @ \cup N]
        BY <3>4, <4>1
      <4>3. Turned
        <5>. HIDE DEF row
        <5>1. FlagNote(row, u) \subseteq N
          BY <4>1
        <5>. WITNESS u, N
        <5>. QED
          BY <4>1, <4>2, <5>1
      <4>. QED
        BY <4>3
    <3>. QED
      BY <3>2, <3>3, <3>4
  <2>2. CASE DeriveSync(t)
    <3>. DEFINE sent == Incoming(t).events
                conflict == \E n \in DOMAIN sent \cap DOMAIN req[t].seen :
                                sent[n] # req[t].seen[n]
                u == EvaluateSession(row.source, d, LastEventAt(Merged(log[s], work[t].ins[s])),
                                     req[t].clock, Overlaps(t, s, d), conflict)
    <3>0. PICK M, r, to :
            Step(t, to, r, [work[t] EXCEPT !.changed = @ \cup {s},
                               !.obj[s] = WithVerdict(row, u),
                               !.notes[s] = @ \cup FlagNote(row, u) \cup M])
      BY <2>2 DEF DeriveSync
    <3>. HIDE DEF conflict, d, row
    <3>5. u.status # "ok" => u.reasons # {}
      BY EvaluationReasons
    <3>. HIDE DEF u
    <3>1. PICK v : /\ (v.status # "ok" => v.reasons # {})
                   /\ Step(t, to, r, [work[t] EXCEPT !.changed = @ \cup {s},
                               !.obj[s] = WithVerdict(row, v),
                               !.notes[s] = @ \cup FlagNote(row, v) \cup M])
      BY <3>0, <3>5
    <3>. DEFINE N == FlagNote(row, v) \cup M
    <3>. HIDE DEF row
    <3>2. work'[t] = [work[t] EXCEPT !.changed = @ \cup {s},
                               !.obj[s] = WithVerdict(row, v),
                               !.notes[s] = @ \cup FlagNote(row, v) \cup M]
      BY <3>1 DEF Step, IInv, TypeOK
    <3>3. work[t].notes[s] \cup FlagNote(row, v) \cup M = work[t].notes[s] \cup N
      OBVIOUS
    <3>4. Turned
      <4>1. FlagNote(row, v) \subseteq N
        OBVIOUS
      <4>. QED
        BY <3>1, <3>2, <3>3, <4>1
    <3>. QED
      BY <3>4
  <2>. QED
    BY <2>1, <2>2
<1>. HIDE DEF row, d
<1>5. CASE Plain
  BY <1>1, <1>3, <1>5 DEF WorkShape, HasFields, d
<1>6. CASE Turned
  <2>1. PICK v, N : /\ FlagNote(row, v) \subseteq N
                    /\ v.status # "ok" => v.reasons # {}
                    /\ work'[t] = [work[t] EXCEPT !.changed = @ \cup {s},
                                    !.obj[s] = WithVerdict(row, v),
                                    !.notes[s] = @ \cup N]
    BY <1>6
  <2>2. PICK o : o = WithVerdict(row, v)
    OBVIOUS
  <2>3. /\ work'[t].held = work[t].held /\ work'[t].changed = work[t].changed \cup {s}
        /\ work'[t].base = work[t].base /\ work'[t].ins = work[t].ins
        /\ \A x \in SessionIds \ {s} :
             work'[t].obj[x] = work[t].obj[x] /\ work'[t].notes[x] = work[t].notes[x]
        /\ work'[t].obj[s] = o /\ work'[t].notes[s] = work[t].notes[s] \cup N
    BY <1>1, <2>1, <2>2 DEF WorkShape, HasFields
  <2>4. /\ o.integrity = v.status /\ o.reasons = v.reasons
        /\ Shows(o, d) /\ o.source = work[t].obj[s].source
    BY <1>3, <2>2
  <2>5. v.status \notin {row.integrity, "ok"} => \E e \in N : Gives(e, o)
    <3>. DEFINE e == Entry("integrity_flagged", v.reasons)
    <3>1. e # AutoClose /\ e.reasons = v.reasons
      BY DEF Entry, AutoClose
    <3>2. v.status \notin {row.integrity, "ok"} => e \in N /\ v.reasons # {}
      BY <2>1 DEF FlagNote
    <3>. HIDE DEF e
    <3>. QED
      BY <2>4, <3>1, <3>2 DEF Gives, Given
  <2>6. o.integrity \in {work[t].obj[s].integrity, "ok"}
          \/ \E e \in work'[t].notes[s] : Gives(e, o)
    BY <1>3, <2>3, <2>4, <2>5
  <2>. QED
    BY <1>1, <2>3, <2>4, <2>6 DEF d
<1>. QED
  BY <1>4, <1>5, <1>6

(* So does the reaper, which always leaves its own entry. *)
LEMMA DeriveReapWork ==
    ASSUME IInv, NEW t \in Tx, DeriveReap(t)
    PROVE  LET w == work[t]
               v == work'[t]
               s == req[t].cur
               d == DeriveTimeline(Merged(req[t].seen, Added(t)), req[t].clock)
           IN  /\ pc[t] = "derive" /\ s \in w.held /\ s \in SessionIds
               /\ v.held = w.held /\ v.changed = w.changed \cup {s}
               /\ v.base = w.base /\ v.ins = w.ins
               /\ \A x \in SessionIds \ {s} : v.obj[x] = w.obj[x] /\ v.notes[x] = w.notes[x]
               /\ v.obj[s].source = w.obj[s].source
               /\ v.obj[s].startedAt = w.obj[s].startedAt
               /\ v.obj[s].status = "completed"
               /\ v.obj[s].endedAt = d.endedAt /\ v.obj[s].duration = d.elapsed
               /\ \E e \in v.notes[s] : Gives(e, v.obj[s])
<1>. DEFINE s == req[t].cur
            d == DeriveTimeline(Merged(req[t].seen, Added(t)), req[t].clock)
            o == WithVerdict(AutoClosed(work[t].obj[s], d), Verdict({"marathon_session"}))
<1>1. /\ pc[t] = "derive" /\ s \in work[t].held /\ s \in SessionIds /\ WorkShape(work[t])
  BY SlotGood DEF DeriveReap, Good, Progress, WorkShape
<1>2. RowShape(work[t].obj[s])
  BY <1>1 DEF WorkShape
<1>3. work'[t] = [work[t] EXCEPT !.changed = @ \cup {s}, !.obj[s] = o,
                                 !.notes[s] = @ \cup {AutoClose}]
  <2>1. PICK r, to : Step(t, to, r, [work[t] EXCEPT
                    !.changed = @ \cup {s},
                    !.obj[s] = WithVerdict(AutoClosed(@, d), Verdict({"marathon_session"})),
                    !.notes[s] = @ \cup {AutoClose}])
    BY DEF DeriveReap
  <2>. HIDE DEF d
  <2>. QED
    BY <2>1 DEF Step, IInv, TypeOK
<1>. HIDE DEF d
<1>4. /\ o.status = "completed" /\ o.endedAt = d.endedAt /\ o.duration = d.elapsed
      /\ o.startedAt = work[t].obj[s].startedAt /\ o.source = work[t].obj[s].source
      /\ o.reasons = {"marathon_session"}
  <2>. DEFINE c == AutoClosed(work[t].obj[s], d)
  <2>1. /\ RowShape(c) /\ c.status = "completed" /\ c.endedAt = d.endedAt
        /\ c.duration = d.elapsed /\ c.startedAt = work[t].obj[s].startedAt
        /\ c.source = work[t].obj[s].source
    BY <1>2 DEF AutoClosed, RowShape, HasFields
  <2>. HIDE DEF c
  <2>2. o = WithVerdict(c, Verdict({"marathon_session"}))
    BY DEF c
  <2>3. Verdict({"marathon_session"}).reasons = {"marathon_session"}
    BY DEF Verdict
  <2>. HIDE DEF o
  <2>. QED
    BY <2>1, <2>2, <2>3 DEF WithVerdict, RowShape, HasFields
<1>5. Gives(AutoClose, o)
  BY <1>4 DEF Gives, Given
<1>. HIDE DEF o
<1>. QED
  BY <1>1, <1>3, <1>4, <1>5 DEF WorkShape, HasFields, d
-----------------------------------------------------------------------------
(* Exclusions are explained.                                               *)

\* A request that has newly excluded a row has written the reasons down.
Judged(w, s) ==
    w.obj[s].integrity # "ok"
    /\ (w.base[s] = None \/ w.base[s].integrity # w.obj[s].integrity)

Explained(w) ==
    \A s \in w.held : Judged(w, s) =>
        \E e \in w.notes[s] :
            Given(e) # {} /\ (NamedOnce => w.obj[s].reasons = Given(e))

\* A request has judged nothing before its turn: a live one its session, a
\* sync, when no upload names a session twice, those still to come.
Unjudged(w, s) == s \in w.held => ~Judged(w, s)

Ahead(step, r, w) ==
    /\ (r.kind \in {"pause", "resume", "stop"} /\ step # "commit") => Unjudged(w, r.cur)
    /\ (r.kind = "sync" /\ step # "commit" /\ NamedOnce) =>
         \A i \in DOMAIN r.batch :
            /\ Unjudged(w, r.batch[i].id)
            /\ \A j \in DOMAIN r.batch : r.batch[i].id = r.batch[j].id => i = j

XInv == \A t \in Tx : Explained(work[t]) /\ Ahead(pc[t], req[t], work[t])

(* One slot's change keeps the explanations if it keeps its own. *)
LEMMA SlotExplained ==
    ASSUME IInv, XInv, NEW t \in Tx, Explained(work'[t]), Ahead(pc'[t], req'[t], work'[t]),
           \A t2 \in Tx \ {t} : pc'[t2] = pc[t2] /\ req'[t2] = req[t2] /\ work'[t2] = work[t2]
    PROVE  XInv'
<1>1. ASSUME NEW t2 \in Tx
      PROVE  Explained(work'[t2]) /\ Ahead(pc'[t2], req'[t2], work'[t2])
  BY DEF XInv
<1>2. ASSUME NEW t2 \in Tx PROVE (Explained(work[t2]) /\ Ahead(pc[t2], req[t2], work[t2]))'
  BY <1>1, <1>2 DEF Explained, Ahead, Judged, Unjudged, NamedOnce
<1>. QED
  BY <1>2 DEF XInv

(* Reading rows judges none. *)
LEMMA LoadedExplained ==
    ASSUME NEW w, WorkShape(w), NEW S \in SUBSET SessionIds
    PROVE  /\ Explained(w) => Explained(Loaded(w, S))
           /\ \A s \in SessionIds : Unjudged(w, s) => Unjudged(Loaded(w, S), s)
           /\ \A s \in S : w.held = {} => Unjudged(Loaded(w, S), s)
<1>. DEFINE l == Loaded(w, S)
            rows == {s \in S : sessions[s] # None}
<1>1. /\ l.held = w.held \cup rows /\ l.notes = w.notes
      /\ l.base = [s \in SessionIds |-> IF s \in rows THEN sessions[s] ELSE w.base[s]]
      /\ l.obj = [s \in SessionIds |-> IF s \in rows THEN sessions[s] ELSE w.obj[s]]
  BY LoadedWork
<1>. HIDE DEF l
<1>2. \A s \in rows : ~Judged(l, s)
  BY <1>1 DEF Judged
<1>3. \A s \in SessionIds \ rows :
        /\ Judged(l, s) <=> Judged(w, s)
        /\ s \in l.held <=> s \in w.held
        /\ l.obj[s] = w.obj[s] /\ l.notes[s] = w.notes[s]
  BY <1>1 DEF Judged
<1>. HIDE DEF rows
<1>4. w.held \subseteq SessionIds /\ l.held \subseteq SessionIds
  BY <1>1 DEF WorkShape, rows
<1>5. Explained(w) => Explained(l)
  BY <1>2, <1>3, <1>4 DEF Explained
<1>6. \A s \in SessionIds : Unjudged(w, s) => Unjudged(l, s)
  BY <1>2, <1>3 DEF Unjudged
<1>7. \A s \in S : w.held = {} => Unjudged(l, s)
  BY <1>6 DEF Unjudged
<1>. QED
  BY <1>5, <1>6, <1>7 DEF l

(* A request that goes on with its unit of work unjudged stays so. *)
LEMMA SameExplained ==
    ASSUME IInv, XInv, NEW t \in Tx, NEW to, NEW r, NEW w, Step(t, to, r, w),
           r.kind = req[t].kind, r.batch = req[t].batch, pc[t] # "commit",
           r.kind \in {"pause", "resume", "stop"} => r.cur = req[t].cur,
           Explained(w),
           \A s \in SessionIds : Unjudged(work[t], s) => Unjudged(w, s)
    PROVE  XInv'
<1>1. /\ pc'[t] = to /\ req'[t] = r /\ work'[t] = w
      /\ \A t2 \in Tx \ {t} : pc'[t2] = pc[t2] /\ req'[t2] = req[t2] /\ work'[t2] = work[t2]
  BY DEF Step, IInv, TypeOK
<1>2. /\ Ahead(pc[t], req[t], work[t]) /\ RequestShape(req[t]) /\ WorkShape(work[t])
      /\ Progress(pc[t], req[t], work[t]) /\ pc[t] \in Steps
  BY DEF XInv, IInv, TypeOK
<1>3. ASSUME r.kind \in {"pause", "resume", "stop"} PROVE Unjudged(w, r.cur)
  <2>1. req[t].cur \in work[t].held
    BY <1>2, <1>3 DEF Progress, Steps
  <2>2. req[t].cur \in SessionIds
    BY <1>2, <2>1 DEF WorkShape
  <2>. QED
    BY <1>2, <1>3, <2>2 DEF Ahead
<1>4. ASSUME NEW i \in DOMAIN r.batch PROVE r.batch[i].id \in SessionIds
  <2>1. r.batch \in Seq(Uploads)
    BY <1>2 DEF RequestShape
  <2>2. r.batch[i] \in Uploads
    BY <2>1
  <2>. QED
    BY <2>2, SessionsAssumption DEF IsPayload
<1>5. Ahead(to, r, w)
  BY <1>2, <1>3, <1>4 DEF Ahead
<1>. QED
  BY <1>1, <1>5, SlotExplained

(* The steps that judge nothing keep exclusions explained. *)
LEMMA StepExplains ==
    ASSUME IInv, XInv, NEW t \in Tx,
           \/ LoadItem(t) \/ FlushRow(t) \/ ReadLog(t)
           \/ \E s \in SessionIds : ReapRead(t, s)
           \/ FlushEvents(t)
    PROVE  XInv'
<1>1. /\ WorkShape(work[t]) /\ Explained(work[t]) /\ RequestShape(req[t])
  BY DEF IInv, TypeOK, XInv
<1>2. CASE LoadItem(t)
  <2>1. pc[t] = "load" /\ req[t].kind = "sync"
    BY <1>2 DEF LoadItem, IInv, Progress
  <2>2. {Incoming(t).id} \in SUBSET SessionIds
    BY <2>1, IncomingShape
  <2>. DEFINE w == IF Held(t, Incoming(t).id) THEN work[t] ELSE Loaded(work[t], {Incoming(t).id})
              r == [req[t] EXCEPT !.cur = Incoming(t).id]
  <2>3. PICK to : Step(t, to, r, w)
    BY <1>2 DEF LoadItem
  <2>4. r.kind = "sync" /\ r.batch = req[t].batch
    BY <1>1, <2>1 DEF RequestShape, HasFields
  <2>5. Explained(w) /\ \A s \in SessionIds : Unjudged(work[t], s) => Unjudged(w, s)
    <3>1. LET l == Loaded(work[t], {Incoming(t).id})
          IN  Explained(l) /\ \A s \in SessionIds : Unjudged(work[t], s) => Unjudged(l, s)
      BY <1>1, <2>2, LoadedExplained
    <3>. QED
      BY <1>1, <3>1
  <2>. HIDE DEF w, r
  <2>. QED
    BY <2>1, <2>3, <2>4, <2>5, SameExplained
<1>3. CASE FlushRow(t)
  <2>. DEFINE s == req[t].cur
              w == work'[t]
  <2>1. /\ s \in SessionIds /\ s \notin work[t].held
        /\ w.held = work[t].held \cup {s} /\ w.notes = work[t].notes
        /\ w.base = work[t].base /\ w.obj[s].integrity = "ok"
        /\ \A x \in SessionIds \ {s} : w.obj[x] = work[t].obj[x]
    BY <1>3, FlushRowWork
  <2>2. pc[t] = "insert" /\ req[t].kind = "sync" /\ Step(t, "read", req[t], w)
    <3>1. PICK v : pc[t] = "insert" /\ req[t].kind = "sync" /\ Step(t, "read", req[t], v)
      BY <1>3 DEF FlushRow
    <3>2. work'[t] = v
      BY <3>1 DEF Step, IInv, TypeOK
    <3>. QED
      BY <3>1, <3>2
  <2>. HIDE DEF w, s
  <2>3. ~Judged(w, s) /\ \A x \in SessionIds \ {s} : Judged(w, x) <=> Judged(work[t], x)
    BY <2>1 DEF Judged
  <2>4. Explained(w)
    BY <1>1, <2>1, <2>3 DEF Explained, WorkShape
  <2>5. \A x \in SessionIds : Unjudged(work[t], x) => Unjudged(w, x)
    BY <2>1, <2>3 DEF Unjudged
  <2>. QED
    BY <2>2, <2>4, <2>5, SameExplained
<1>4. CASE ReadLog(t)
  <2>1. PICK r : /\ Step(t, "append", r, work[t]) /\ pc[t] = "read"
                 /\ r.kind = req[t].kind /\ r.batch = req[t].batch /\ r.cur = req[t].cur
    BY <1>1, <1>4 DEF ReadLog, RequestShape, HasFields
  <2>. QED
    BY <1>1, <2>1, SameExplained
<1>5. CASE \E s \in SessionIds : ReapRead(t, s)
  <2>1. PICK s \in SessionIds : ReapRead(t, s)
    BY <1>5
  <2>2. PICK to, r : /\ Step(t, to, r, work[t])
                     /\ r \in {[req[t] EXCEPT !.cur = s, !.seen = log[s]],
                               [req[t] EXCEPT !.stale = @ \ {s}]}
    BY <2>1 DEF ReapRead
  <2>3. r.kind = req[t].kind /\ r.batch = req[t].batch
    BY <1>1, <2>2 DEF RequestShape, HasFields
  <2>4. pc[t] = "read" /\ req[t].kind = "reap"
    BY <2>1 DEF ReapRead
  <2>. QED
    BY <1>1, <2>2, <2>3, <2>4, SameExplained
<1>6. CASE FlushEvents(t)
  <2>. DEFINE w == work'[t]
  <2>1. /\ w.held = work[t].held /\ w.notes = work[t].notes
        /\ w.base = work[t].base /\ w.obj = work[t].obj
    BY <1>6, FlushEventsWork
  <2>2. pc[t] = "append" /\ Step(t, "derive", req[t], w)
    <3>1. PICK v : pc[t] = "append" /\ Step(t, "derive", req[t], v)
      BY <1>6 DEF FlushEvents
    <3>2. work'[t] = v
      BY <3>1 DEF Step, IInv, TypeOK
    <3>. QED
      BY <3>1, <3>2
  <2>. HIDE DEF w
  <2>3. Explained(w) /\ \A x \in SessionIds : Unjudged(work[t], x) => Unjudged(w, x)
    BY <1>1, <2>1 DEF Explained, Unjudged, Judged
  <2>. QED
    BY <2>2, <2>3, SameExplained
<1>. QED
  BY <1>2, <1>3, <1>4, <1>5, <1>6

(* A request that judges writes the reasons down. *)
LEMMA DeriveExplains ==
    ASSUME IInv, XInv, NEW t \in Tx,
           \/ DeriveTransition(t) \/ DeriveSync(t) \/ DeriveReap(t)
    PROVE  XInv'
<1>. DEFINE s == req[t].cur
            v == work[t]
            w == work'[t]
<1>1. /\ pc[t] = "derive" /\ w.held = v.held /\ w.base = v.base
      /\ s \in v.held /\ s \in SessionIds
      /\ \A x \in SessionIds \ {s} : w.obj[x] = v.obj[x] /\ w.notes[x] = v.notes[x]
  BY DeriveWork, DeriveReapWork
<1>2. /\ Explained(v) /\ Ahead(pc[t], req[t], v) /\ WorkShape(v) /\ RequestShape(req[t])
      /\ Progress(pc[t], req[t], v)
  BY DEF IInv, TypeOK, XInv
<1>3. PICK to, r : /\ Step(t, to, r, w) /\ to \in {"commit", "load", "read"}
                   /\ r.kind = req[t].kind
                   /\ to = "read" => req[t].kind = "reap"
                   /\ to = "load" => (req[t].kind = "sync" /\ r.batch = Tail(req[t].batch))
  <2>1. CASE DeriveTransition(t)
    <3>1. PICK u : Step(t, "commit", req[t], u)
      BY <2>1 DEF DeriveTransition
    <3>2. work'[t] = u
      BY <3>1 DEF Step, IInv, TypeOK
    <3>. QED
      BY <3>1, <3>2
  <2>2. CASE DeriveSync(t)
    <3>1. PICK u, to : /\ to \in {"commit", "load"} /\ req[t].kind = "sync"
                       /\ Step(t, to, [req[t] EXCEPT !.batch = Tail(@)], u)
      BY <2>2 DEF DeriveSync
    <3>2. work'[t] = u
      BY <3>1 DEF Step, IInv, TypeOK
    <3>3. PICK r : r = [req[t] EXCEPT !.batch = Tail(@)]
      OBVIOUS
    <3>4. r.kind = "sync" /\ r.batch = Tail(req[t].batch)
      BY <1>2, <3>1, <3>3 DEF RequestShape, HasFields
    <3>. QED
      BY <3>1, <3>2, <3>3, <3>4
  <2>3. CASE DeriveReap(t)
    <3>1. PICK u, to : /\ to \in {"commit", "read"} /\ req[t].kind = "reap"
                       /\ Step(t, to, [req[t] EXCEPT !.stale = @ \ {s}], u)
      BY <2>3 DEF DeriveReap
    <3>2. work'[t] = u
      BY <3>1 DEF Step, IInv, TypeOK
    <3>3. PICK r : r = [req[t] EXCEPT !.stale = @ \ {s}]
      OBVIOUS
    <3>4. r.kind = "reap"
      BY <1>2, <3>1, <3>3 DEF RequestShape, HasFields
    <3>. QED
      BY <3>1, <3>2, <3>3, <3>4
  <2>. QED
    BY <2>1, <2>2, <2>3
<1>4. \/ w.obj[s].integrity \in {v.obj[s].integrity, "ok"} /\ v.notes[s] \subseteq w.notes[s]
         /\ req[t].kind # "reap"
      \/ \E e \in w.notes[s] : Gives(e, w.obj[s])
  <2>1. CASE DeriveReap(t)
    BY <2>1, DeriveReapWork
  <2>2. CASE DeriveTransition(t) \/ DeriveSync(t)
    <3>1. req[t].kind # "reap"
      BY <2>2 DEF DeriveTransition, DeriveSync
    <3>. QED
      BY <2>2, <3>1, DeriveWork
  <2>. QED
    BY <2>1, <2>2
<1>. HIDE DEF w
<1>5. req[t].kind \in {"pause", "resume", "stop", "sync", "reap"}
  <2>. QED
    BY <1>1 DEF DeriveTransition, DeriveSync, DeriveReap
<1>6. (req[t].kind # "reap" /\ (NamedOnce \/ req[t].kind # "sync")) => ~Judged(v, s)
  <2>1. CASE req[t].kind \in {"pause", "resume", "stop"}
    BY <1>1, <1>2, <2>1 DEF Ahead, Unjudged
  <2>2. CASE req[t].kind = "sync" /\ NamedOnce
    <3>1. req[t].batch \in Seq(Uploads) /\ req[t].batch # <<>>
      BY <1>1, <2>2, IncomingShape
    <3>2. 1 \in DOMAIN req[t].batch /\ req[t].batch[1].id = s
      BY <1>1, <1>2, <2>2, <3>1 DEF Progress
    <3>3. Unjudged(v, req[t].batch[1].id)
      BY <1>1, <1>2, <2>2, <3>2 DEF Ahead
    <3>. QED
      BY <1>1, <3>2, <3>3 DEF Unjudged
  <2>. QED
    BY <1>5, <2>1, <2>2
<1>7. Explained(w)
  <2>. SUFFICES ASSUME NEW x \in w.held, Judged(w, x)
                PROVE  \E e \in w.notes[x] :
                          Given(e) # {} /\ (NamedOnce => w.obj[x].reasons = Given(e))
    BY DEF Explained
  <2>1. x \in v.held /\ x \in SessionIds
    BY <1>1, <1>2 DEF WorkShape
  <2>2. CASE x # s
    <3>1. Judged(v, x)
      BY <1>1, <2>1, <2>2 DEF Judged
    <3>. QED
      BY <1>1, <1>2, <2>1, <2>2, <3>1 DEF Explained
  <2>3. CASE x = s /\ \E e \in w.notes[s] : Gives(e, w.obj[s])
    BY <2>3 DEF Gives
  <2>4. CASE /\ x = s /\ w.obj[s].integrity \in {v.obj[s].integrity, "ok"}
             /\ v.notes[s] \subseteq w.notes[s] /\ req[t].kind # "reap"
    <3>1. Judged(v, s)
      BY <1>1, <2>4 DEF Judged
    <3>2. ~NamedOnce
      BY <1>6, <2>4, <3>1
    <3>. QED
      BY <1>1, <1>2, <2>4, <3>1, <3>2 DEF Explained
  <2>. QED
    BY <1>4, <2>2, <2>3, <2>4
<1>8. Ahead(to, r, w)
  <2>1. CASE to # "load"
    BY <1>3, <2>1 DEF Ahead
  <2>2. CASE to = "load" /\ NamedOnce
    <3>. DEFINE b == req[t].batch
    <3>1. /\ req[t].kind = "sync" /\ r.kind = "sync" /\ r.batch = Tail(b)
      BY <1>3, <2>2
    <3>2. b \in Seq(Uploads) /\ b # <<>>
      BY <1>1, <3>1, IncomingShape
    <3>3. b[1].id = s
      BY <1>1, <1>2, <3>1, <3>2 DEF Progress
    <3>4. \A i \in DOMAIN b : Unjudged(v, b[i].id) /\ b[i].id \in SessionIds
                             /\ \A j \in DOMAIN b : b[i].id = b[j].id => i = j
      <4>1. \A i \in DOMAIN b : b[i] \in Uploads
        BY <3>2
      <4>. QED
        BY <1>1, <1>2, <2>2, <3>1, <4>1, SessionsAssumption DEF Ahead, IsPayload
    <3>5. \A i \in DOMAIN Tail(b) : /\ i \in Nat \ {0} /\ i + 1 \in DOMAIN b
                                    /\ Tail(b)[i] = b[i + 1]
      BY <3>2
    <3>6. 1 \in DOMAIN b
      BY <3>2
    <3>. HIDE DEF b
    <3>7. \A i \in DOMAIN Tail(b) : b[i + 1].id \in SessionIds \ {s}
      BY <3>3, <3>4, <3>5, <3>6
    <3>8. \A x \in SessionIds \ {s} : Unjudged(v, x) => Unjudged(w, x)
      BY <1>1 DEF Unjudged, Judged
    <3>9. \A i \in DOMAIN Tail(b) : Unjudged(w, Tail(b)[i].id)
      BY <3>4, <3>5, <3>7, <3>8
    <3>10. \A i, j \in DOMAIN Tail(b) : Tail(b)[i].id = Tail(b)[j].id => i = j
      BY <3>4, <3>5
    <3>. QED
      BY <3>1, <3>9, <3>10 DEF Ahead
  <2>3. CASE to = "load" /\ ~NamedOnce
    BY <1>3, <2>3 DEF Ahead
  <2>. QED
    BY <2>1, <2>2, <2>3
<1>9. /\ pc'[t] = to /\ req'[t] = r /\ work'[t] = w
      /\ \A t2 \in Tx \ {t} : pc'[t2] = pc[t2] /\ req'[t2] = req[t2] /\ work'[t2] = work[t2]
  BY <1>3 DEF Step, IInv, TypeOK
<1>. QED
  BY <1>7, <1>8, <1>9, SlotExplained

(* A request that has ended owes nothing. *)
LEMMA FinishExplains == ASSUME IInv, XInv, NEW t \in Tx, Finish(t) PROVE XInv'
<1>1. /\ pc'[t] = "idle" /\ req'[t] = NoReq /\ work'[t] = EmptyWork
      /\ \A t2 \in Tx \ {t} : pc'[t2] = pc[t2] /\ req'[t2] = req[t2] /\ work'[t2] = work[t2]
  BY DEF Finish, IInv, TypeOK
<1>2. Explained(EmptyWork)
  BY DEF Explained, EmptyWork
<1>3. Ahead("idle", NoReq, EmptyWork)
  BY DEF Ahead, NoReq
<1>. QED
  BY <1>1, <1>2, <1>3, SlotExplained

(* A request begins with no row judged. *)
LEMMA BeginExplains ==
    ASSUME IInv, XInv, NEW t \in Tx, Arrive(t) \/ BeginReap(t) PROVE XInv'
<1>1. PICK step, r, S : /\ Begin(t, step, r, S) /\ S \in SUBSET SessionIds
                        /\ r.kind \in {"pause", "resume", "stop"} => r.cur \in S
                        /\ r.kind = "sync" => r.batch \in Batches
  <2>1. {} \in SUBSET SessionIds /\ Stale \in SUBSET SessionIds
        /\ \A s \in SessionIds : {s} \in SUBSET SessionIds
    BY DEF Stale
  <2>2. CASE BeginReap(t)
    <3>1. PICK r : r = [NewRequest("reap", None) EXCEPT !.stale = Stale]
      OBVIOUS
    <3>2. r.kind = "reap"
      BY <3>1 DEF NewRequest, NoReq
    <3>. QED
      BY <2>1, <2>2, <3>1, <3>2 DEF BeginReap
  <2>3. CASE \E u \in Users, s \in SessionIds, at \in OccurredAt : BeginStart(t, u, s, at)
    <3>1. PICK u \in Users, s \in SessionIds, at \in OccurredAt : BeginStart(t, u, s, at)
      BY <2>3
    <3>2. PICK r : r = [NewRequest("start", u) EXCEPT !.cur = s, !.at = at]
      OBVIOUS
    <3>3. r.kind = "start"
      BY <3>2 DEF NewRequest, NoReq
    <3>. QED
      BY <2>1, <3>1, <3>2, <3>3 DEF BeginStart
  <2>4. CASE \E u \in Users, s \in SessionIds, at \in OccurredAt :
               \E type \in {"pause", "resume", "stop"} : BeginTransition(t, u, s, type, at)
    <3>1. PICK u \in Users, s \in SessionIds, at \in OccurredAt,
               type \in {"pause", "resume", "stop"} : BeginTransition(t, u, s, type, at)
      BY <2>4
    <3>2. PICK r : r = [NewRequest(type, u) EXCEPT !.cur = s, !.at = at]
      OBVIOUS
    <3>3. r.kind # "sync" /\ r.cur \in {s}
      BY <3>2 DEF NewRequest, NoReq
    <3>. QED
      BY <2>1, <3>1, <3>2, <3>3 DEF BeginTransition
  <2>5. CASE \E u \in Users, batch \in Batches : BeginSync(t, u, batch)
    <3>1. PICK u \in Users, batch \in Batches : BeginSync(t, u, batch)
      BY <2>5
    <3>2. PICK r : r = [NewRequest("sync", u) EXCEPT !.batch = batch]
      OBVIOUS
    <3>3. r.kind = "sync" /\ r.batch \in Batches
      BY <3>2 DEF NewRequest, NoReq
    <3>. QED
      BY <2>1, <3>1, <3>2, <3>3 DEF BeginSync
  <2>. QED
    BY <2>2, <2>3, <2>4, <2>5 DEF Arrive
<1>. DEFINE w == Loaded(EmptyWork, S)
<1>2. /\ pc'[t] = step /\ req'[t] = r /\ work'[t] = w
      /\ \A t2 \in Tx \ {t} : pc'[t2] = pc[t2] /\ req'[t2] = req[t2] /\ work'[t2] = work[t2]
  BY <1>1 DEF Begin, IInv, TypeOK
<1>3. /\ WorkShape(EmptyWork) /\ EmptyWork.held = {}
      /\ Explained(EmptyWork) /\ \A s \in SessionIds : Unjudged(EmptyWork, s)
  BY EmptyWorkGood DEF Explained, EmptyWork, Unjudged
<1>4. /\ Explained(w) /\ \A s \in SessionIds : Unjudged(w, s)
  BY <1>1, <1>3, LoadedExplained
<1>. HIDE DEF w
<1>5. Ahead(step, r, w)
  <2>1. r.kind \in {"pause", "resume", "stop"} => Unjudged(w, r.cur)
    BY <1>1, <1>4
  <2>2. ASSUME r.kind = "sync", NamedOnce, NEW i \in DOMAIN r.batch
        PROVE  /\ Unjudged(w, r.batch[i].id)
               /\ \A j \in DOMAIN r.batch : r.batch[i].id = r.batch[j].id => i = j
    <3>1. r.batch \in Batches /\ r.batch \in Seq(Uploads)
      BY <1>1, <2>2, SessionsAssumption
    <3>2. r.batch[i] \in Uploads
      BY <2>2, <3>1
    <3>3. r.batch[i].id \in SessionIds
      BY <3>2, SessionsAssumption DEF IsPayload
    <3>. QED
      BY <1>4, <2>2, <3>1, <3>3 DEF NamedOnce
  <2>. QED
    BY <2>1, <2>2 DEF Ahead
<1>. QED
  BY <1>2, <1>4, <1>5, SlotExplained

(* The invariant of explanations is kept by every step. *)
LEMMA NextExplains == IInv /\ XInv /\ [Next]_vars => XInv'
<1>. SUFFICES ASSUME IInv, XInv, [Next]_vars PROVE XInv'
  OBVIOUS
<1>1. CASE UNCHANGED <<pc, req, work>>
  BY <1>1 DEF XInv, Explained, Ahead, Judged, Unjudged, NamedOnce
<1>2. CASE Tick \/ UNCHANGED vars
  BY <1>1, <1>2 DEF Tick, vars
<1>3. CASE \E u \in Users, s \in SessionIds, span \in ManualSpans : CreateManual(u, s, span)
  BY <1>1, <1>3 DEF CreateManual
<1>4. ASSUME NEW t \in Tx, Abort(t) \/ CommitStart(t) \/ Commit(t) PROVE XInv'
  BY <1>4, FinishExplains DEF Abort, CommitStart, Commit
<1>. QED
  BY <1>2, <1>3, <1>4, BeginExplains, StepExplains, DeriveExplains DEF Next, Proceed

(* A commit that newly excludes a row brings the entry that says why. *)
LEMMA CommitTells ==
    ASSUME IInv, XInv, NEW t \in Tx, Commit(t), NEW s \in SessionIds,
           ~Excluded(sessions[s]), Excluded(sessions'[s])
    PROVE  \E entry \in work[t].notes[s] :
              /\ pc[t] = "commit" /\ pc'[t] = "idle"
              /\ entry \in audit'[s]
              /\ Given(entry) # {}
              /\ (NamedOnce /\ work[t].base[s] = sessions[s])
                    => sessions'[s].reasons = Given(entry)
<1>1. /\ pc[t] = "commit" /\ Committable(t) /\ sessions'[s] = Result(t, s)
      /\ work[t].notes[s] \subseteq audit'[s] /\ pc'[t] = "idle"
  BY DEF Commit, Finish, IInv, TypeOK
<1>2. /\ WorkInv(work[t])!(s) /\ Explained(work[t]) /\ sessions[s] \in Row \cup {None}
  BY DEF IInv, TypeOK, XInv, WorkInv
<1>. DEFINE b == work[t].base[s]
            o == work[t].obj[s]
<1>3. Held(t, s)
  BY <1>1 DEF Result
<1>4. /\ Judged(work[t], s)
      /\ work[t].base[s] = sessions[s] => Result(t, s).reasons = o.reasons
  <2>1. CASE Fresh(t, s)
    <3>1. Result(t, s) = o /\ b = None
      BY <1>3, <2>1 DEF Result, Fresh
    <3>. QED
      BY <1>1, <3>1 DEF Judged, Excluded
  <2>2. CASE ~Fresh(t, s)
    <3>1. Result(t, s) = Updated(sessions[s], b, o) /\ b # None /\ sessions[s] \in Row
      BY <1>2, <1>3, <2>2 DEF Result, Fresh, Held
    <3>2. sessions[s].integrity = "ok" /\ Result(t, s).integrity # "ok"
      BY <1>1, <3>1, NoneIsNoRow DEF Excluded
    <3>. HIDE DEF b, o
    <3>3. /\ Result(t, s).integrity = Column(sessions[s].integrity, b.integrity, o.integrity)
          /\ Result(t, s).reasons = Column(sessions[s].reasons, b.reasons, o.reasons)
      BY <3>1 DEF Updated, Row
    <3>4. o.integrity # b.integrity /\ o.integrity # "ok"
      BY <3>2, <3>3 DEF Column
    <3>5. b = sessions[s] => Result(t, s).reasons = o.reasons
      BY <3>3 DEF Column
    <3>. QED
      BY <3>1, <3>4, <3>5 DEF Judged, b, o
  <2>. QED
    BY <2>1, <2>2
<1>5. PICK e \in work[t].notes[s] : Given(e) # {} /\ (NamedOnce => o.reasons = Given(e))
  BY <1>2, <1>3, <1>4 DEF Explained, Held
<1>. QED
  BY <1>1, <1>4, <1>5

(* So does every step that excludes a row. *)
LEMMA NextTells ==
    ASSUME IInv, XInv, [Next]_vars, NEW s \in SessionIds,
           ~Excluded(sessions[s]), Excluded(sessions'[s])
    PROVE  \/ sessions'[s].source = "manual" /\ ManualCreated \in audit'[s]
           \/ \E t \in Tx : \E entry \in work[t].notes[s] :
                 /\ pc[t] = "commit" /\ pc'[t] = "idle"
                 /\ entry \in audit'[s]
                 /\ Given(entry) # {}
                 /\ (NamedOnce /\ work[t].base[s] = sessions[s])
                       => sessions'[s].reasons = Given(entry)
<1>1. sessions'[s] # sessions[s]
  OBVIOUS
<1>2. CASE \E u \in Users, x \in SessionIds, span \in ManualSpans : CreateManual(u, x, span)
  <2>1. PICK u \in Users, x \in SessionIds, span \in ManualSpans : CreateManual(u, x, span)
    BY <1>2
  <2>2. /\ sessions' = [sessions EXCEPT ![x] = ManualRow(u, span[1], span[2])]
        /\ audit' = [audit EXCEPT ![x] = @ \cup {ManualCreated}]
    BY <2>1 DEF CreateManual
  <2>3. x = s /\ ManualCreated \in audit'[s]
    BY <1>1, <2>2 DEF IInv, TypeOK
  <2>. QED
    BY <2>2, <2>3 DEF ManualRow, IInv, TypeOK
<1>3. ASSUME NEW t \in Tx, CommitStart(t) PROVE FALSE
  <2>1. sessions'[s] = TimerRow(req[t].user, req[t].at)
    BY <1>1, <1>3 DEF CommitStart, IInv, TypeOK
  <2>. QED
    BY <2>1 DEF TimerRow, Excluded
<1>4. CASE \E t \in Tx : Commit(t)
  BY <1>4, CommitTells
<1>5. ASSUME ~(\E t \in Tx : Commit(t)),
             ~\E u \in Users, x \in SessionIds, span \in ManualSpans : CreateManual(u, x, span)
      PROVE  FALSE
  <2>1. CASE Tick \/ UNCHANGED vars
    BY <1>1, <2>1 DEF Tick, vars, db
  <2>2. ASSUME NEW t \in Tx, Arrive(t) \/ BeginReap(t) PROVE FALSE
    <3>1. UNCHANGED db
      BY <2>2 DEF Arrive, BeginStart, BeginTransition, BeginSync, BeginReap, Begin
    <3>. QED
      BY <1>1, <3>1 DEF db
  <2>3. ASSUME NEW t \in Tx,
               \/ LoadItem(t) \/ FlushRow(t) \/ ReadLog(t)
               \/ \E x \in SessionIds : ReapRead(t, x)
               \/ FlushEvents(t) \/ DeriveTransition(t) \/ DeriveSync(t) \/ DeriveReap(t)
        PROVE  FALSE
    <3>1. UNCHANGED db
      BY <2>3 DEF LoadItem, FlushRow, ReadLog, ReapRead, FlushEvents, DeriveTransition,
                  DeriveSync, DeriveReap, Step
    <3>. QED
      BY <1>1, <3>1 DEF db
  <2>4. ASSUME NEW t \in Tx, Abort(t) PROVE FALSE
    BY <1>1, <2>4 DEF Abort, db
  <2>. QED
    BY <1>3, <1>5, <2>1, <2>2, <2>3, <2>4 DEF Next, Proceed
<1>. QED
  BY <1>2, <1>4, <1>5

(* A commit that takes a session out of competition writes, with it, an audit
   entry that gives reasons: those the row then has, unless the row changed
   between the request's read and its commit or an upload named it twice.  It
   says nothing of the reasons of a session that was out already
   (service.transition, sync, create_manual and the reaper). *)
THEOREM ExclusionsAreExplained == Spec => ExclusionIsAudited
<1>1. Init => XInv
  BY DEF Init, XInv, Explained, EmptyWork, Ahead, NoReq
<1>2. ASSUME IInv, XInv, [Next]_vars
      PROVE [\A s \in SessionIds : (~Excluded(sessions[s]) /\ Excluded(sessions'[s])) =>
          \/ sessions'[s].source = "manual" /\ ManualCreated \in audit'[s]
          \/ \E t \in Tx : \E entry \in work[t].notes[s] :
                /\ pc[t] = "commit" /\ pc'[t] = "idle"
                /\ entry \in audit'[s]
                /\ Given(entry) # {}
                /\ (NamedOnce /\ work[t].base[s] = sessions[s])
                     => sessions'[s].reasons = Given(entry)]_vars
  BY <1>2, NextTells
<1>. QED
  BY <1>1, <1>2, Inductive, NextExplains, PTL DEF Spec, ExclusionIsAudited
-----------------------------------------------------------------------------
(* A stop ends a session.                                                  *)
(*                                                                         *)
(* Without uploads every event gets the number after the last one its      *)
(* request has read, so two requests that race for a session race for one  *)
(* number and only one of them commits: what the other has prepared stays  *)
(* what the log, as it then is, derives.                                   *)

\* A log numbered without gaps.
Numbered(L) == \E n \in Nat : DOMAIN L = 1..n

\* One event that continues the log.
Continues(ins, L) == \E n \in Nat : DOMAIN L = 1..n /\ DOMAIN ins = {n + 1}

LiveSlot(step, r, w) ==
    /\ r.kind # "sync"
    /\ r.kind = "reap" => r.stale \cap w.changed = {}
    /\ (step \in {"read", "append", "derive"} /\ r.kind # "reap") => r.cur \notin w.changed
    /\ step \in {"append", "derive"} =>
         r.cur \in w.held /\ \E k \in Nat : DOMAIN r.seen = 1..k /\ 1..k \subseteq DOMAIN log[r.cur]
    /\ step = "derive" => DOMAIN w.ins[r.cur] # {}
    /\ \A s \in w.held :
         /\ w.base[s] # None /\ w.base[s].status \in Running
         /\ s \in w.changed => DOMAIN w.ins[s] # {}
         /\ DOMAIN w.ins[s] # {} =>
              /\ Continues(w.ins[s], log[s])
              /\ s \in w.changed \/ (step = "derive" /\ s = r.cur)
         /\ (s \in w.changed /\ (Stopped(log[s]) \/ Stopped(w.ins[s])))
              => w.obj[s].status = "completed"

SInv ==
    /\ StopEndsSession
    /\ \A s \in SessionIds : Numbered(log[s])
    /\ \A t \in Tx : LiveSlot(pc[t], req[t], work[t])

(* The next number after a log without gaps, and the only number that can be
   free in a longer one. *)
LEMMA NextNumber ==
    ASSUME NEW L, NEW K, NEW k \in Nat, DOMAIN L = 1..k, IsLog(L),
           NEW n \in Nat, DOMAIN K = 1..n, 1..k \subseteq DOMAIN K,
           NextSeq(L) \notin DOMAIN K
    PROVE  NextSeq(L) = n + 1
<1>1. NextSeq(L) = k + 1
  <2>1. CASE k = 0
    <3>1. DOMAIN L = {} /\ \A x : x \notin DOMAIN L
      BY <2>1
    <3>2. L = <<>>
      <4>1. PICK D \in SUBSET (1..MaxSeq) : L \in [D -> Event]
        BY DEF IsLog
      <4>. QED
        BY <3>1, <4>1
    <3>. QED
      BY <2>1, <3>2 DEF NextSeq
  <2>2. CASE k # 0
    <3>1. L # <<>>
      BY <2>2, EmptyIsLog
    <3>2. Max(1..k) = k
      <4>1. k \in 1..k /\ \A y \in 1..k : k >= y
        BY <2>2
      <4>2. \A x \in 1..k : (\A y \in 1..k : x >= y) => x = k
        BY <4>1
      <4>. QED
        BY <4>1, <4>2 DEF Max
    <3>. QED
      BY <3>1, <3>2 DEF NextSeq
  <2>. QED
    BY <2>1, <2>2
<1>2. k <= n
  <2>1. CASE k = 0
    BY <2>1
  <2>2. CASE k # 0
    <3>1. k \in 1..n
      BY <2>2
    <3>. QED
      BY <3>1
  <2>. QED
    BY <2>1, <2>2
<1>. QED
  BY <1>1, <1>2

(* A step inside a request keeps the invariant if it does in its own slot. *)
LEMMA SlotLive ==
    ASSUME IInv, SInv, NEW t \in Tx, UNCHANGED db, LiveSlot(pc'[t], req'[t], work'[t]),
           \A t2 \in Tx \ {t} :
             work'[t2] = work[t2] /\ req'[t2] = req[t2] /\ pc'[t2] = pc[t2]
    PROVE  SInv'
<1>1. StopEndsSession' /\ \A s \in SessionIds : Numbered(log[s])'
  BY DEF SInv, StopEndsSession, Numbered, Stopped, db
<1>2. ASSUME NEW t2 \in Tx PROVE LiveSlot(pc[t2], req[t2], work[t2])'
  <2>1. LiveSlot(pc'[t2], req'[t2], work'[t2])
    BY DEF SInv
  <2>. QED
    BY <2>1 DEF LiveSlot, Continues, Stopped, db
<1>. QED
  BY <1>1, <1>2 DEF SInv

(* A new request that has loaded running rows is sound. *)
LEMMA BeginLive ==
    ASSUME IInv, SInv, NEW t \in Tx, NEW step, NEW r, NEW S \in SUBSET SessionIds,
           Begin(t, step, r, S), r.kind # "sync", step \notin {"append", "derive"},
           \A s \in S : sessions[s] # None => sessions[s].status \in Running
    PROVE  SInv'
<1>1. /\ UNCHANGED db /\ pc'[t] = step /\ req'[t] = r /\ work'[t] = Loaded(EmptyWork, S)
      /\ \A t2 \in Tx \ {t} :
             work'[t2] = work[t2] /\ req'[t2] = req[t2] /\ pc'[t2] = pc[t2]
  BY DEF Begin, IInv, TypeOK
<1>. DEFINE l == Loaded(EmptyWork, S)
            rows == {s \in S : sessions[s] # None}
<1>2. /\ l.held = {} \cup rows /\ l.changed = {}
      /\ l.ins = [s \in SessionIds |-> <<>>]
      /\ \A s \in rows : l.base[s] = sessions[s]
  <2>1. /\ l.held = EmptyWork.held \cup rows /\ l.changed = EmptyWork.changed
        /\ l.ins = EmptyWork.ins
        /\ l.base = [s \in SessionIds |-> IF s \in rows THEN sessions[s] ELSE EmptyWork.base[s]]
    BY EmptyWorkGood, LoadedWork
  <2>. HIDE DEF l
  <2>. QED
    BY <2>1 DEF EmptyWork
<1>. HIDE DEF l
<1>3. LiveSlot(step, r, l)
  BY <1>2, EmptyIsLog DEF LiveSlot
<1>. QED
  BY <1>1, <1>3, SlotLive DEF l

(* Opening a request keeps the invariant. *)
LEMMA ArriveLive ==
    ASSUME IInv, SInv, "sync" \notin Kinds, NEW t \in Tx, Arrive(t) \/ BeginReap(t)
    PROVE  SInv'
<1>1. ASSUME NEW kind \in Kind, NEW u \in Users \cup {None}, NEW r,
             \/ \E s, at : r = [NewRequest(kind, u) EXCEPT !.cur = s, !.at = at]
             \/ \E S : r = [NewRequest(kind, u) EXCEPT !.stale = S]
      PROVE  r.kind = kind
  BY <1>1 DEF NewRequest, NoReq
<1>2. CASE BeginReap(t)
  <2>1. Stale \in SUBSET SessionIds /\ \A s \in Stale : sessions[s].status \in Running
    BY DEF Stale, IsRunning
  <2>2. "reap" \in Kind
    BY DEF Kind
  <2>3. PICK r : r = [NewRequest("reap", None) EXCEPT !.stale = Stale]
                 /\ Begin(t, "read", r, Stale)
    BY <1>2 DEF BeginReap
  <2>4. r.kind = "reap"
    BY <1>1, <2>2, <2>3
  <2>. QED
    BY <2>1, <2>3, <2>4, BeginLive
<1>3. ASSUME NEW u \in Users, NEW s \in SessionIds, NEW at \in OccurredAt, BeginStart(t, u, s, at)
      PROVE  SInv'
  <2>1. {} \in SUBSET SessionIds /\ "start" \in Kind
    BY DEF Kind, EventType
  <2>2. PICK r : r = [NewRequest("start", u) EXCEPT !.cur = s, !.at = at]
                 /\ Begin(t, "insert", r, {})
    BY <1>3 DEF BeginStart
  <2>3. r.kind = "start"
    BY <1>1, <2>1, <2>2
  <2>. QED
    BY <2>1, <2>2, <2>3, BeginLive
<1>4. ASSUME NEW u \in Users, NEW s \in SessionIds, NEW at \in OccurredAt,
             NEW type \in {"pause", "resume", "stop"}, BeginTransition(t, u, s, type, at)
      PROVE  SInv'
  <2>1. {s} \in SUBSET SessionIds /\ type \in Kind /\ type # "sync"
    BY DEF Kind, EventType
  <2>2. sessions[s].status \in Running
    BY <1>4 DEF BeginTransition, AllowedFrom, Running
  <2>3. PICK r : /\ r = [NewRequest(type, u) EXCEPT !.cur = s, !.at = at]
                 /\ Begin(t, "read", r, {s})
    BY <1>4 DEF BeginTransition
  <2>4. r.kind = type
    BY <1>1, <2>1, <2>3
  <2>5. /\ r.kind # "sync" /\ "read" \notin {"append", "derive"}
        /\ \A x \in {s} : sessions[x] # None => sessions[x].status \in Running
    BY <2>1, <2>2, <2>4
  <2>. QED
    BY <2>1, <2>3, <2>5, BeginLive
<1>5. ASSUME NEW u \in Users, NEW batch \in Batches PROVE ~BeginSync(t, u, batch)
  BY DEF BeginSync, UserRequest
<1>. QED
  BY <1>2, <1>3, <1>4, <1>5 DEF Arrive

(* What a slot's step takes over from the step before. *)
LEMMA LiveWork ==
    ASSUME IInv, SInv, NEW t \in Tx
    PROVE  /\ LiveSlot(pc[t], req[t], work[t]) /\ WorkShape(work[t]) /\ WorkInv(work[t])
           /\ RequestShape(req[t]) /\ Progress(pc[t], req[t], work[t])
  BY SlotGood DEF SInv, Good

(* Reading the log keeps the invariant. *)
LEMMA ReadLive ==
    ASSUME IInv, SInv, NEW t \in Tx, ReadLog(t) \/ \E s \in SessionIds : ReapRead(t, s)
    PROVE  SInv'
<1>1. PICK to, r, w : Step(t, to, r, w)
  BY DEF ReadLog, ReapRead
<1>2. /\ UNCHANGED db
      /\ \A t2 \in Tx \ {t} : work'[t2] = work[t2] /\ req'[t2] = req[t2] /\ pc'[t2] = pc[t2]
  BY <1>1 DEF Step, IInv, TypeOK
<1>3. /\ LiveSlot(pc[t], req[t], work[t]) /\ WorkShape(work[t])
      /\ RequestShape(req[t]) /\ Progress(pc[t], req[t], work[t])
  BY LiveWork
<1>4. CASE ReadLog(t)
  <2>. DEFINE s == req[t].cur
  <2>1. /\ pc[t] = "read" /\ req[t].kind # "reap" /\ pc'[t] = "append" /\ work'[t] = work[t]
        /\ req'[t] = [req[t] EXCEPT !.seen = Merged(log[s], work[t].ins[s])]
    BY <1>4 DEF ReadLog, Step, IInv, TypeOK
  <2>2. /\ req'[t].kind = req[t].kind /\ req'[t].cur = s
        /\ req'[t].stale = req[t].stale
        /\ req'[t].seen = Merged(log[s], work[t].ins[s])
    BY <1>3, <2>1 DEF RequestShape, HasFields
  <2>3. s \in work[t].held /\ s \in SessionIds /\ s \notin work[t].changed
    BY <1>3, <2>1 DEF Progress, LiveSlot, WorkShape
  <2>4. DOMAIN work[t].ins[s] = {}
    BY <1>3, <2>1, <2>3 DEF LiveSlot
  <2>5. DOMAIN req'[t].seen = DOMAIN log[s]
    <3>1. IsLog(log[s]) /\ IsLog(work[t].ins[s])
      BY <1>3, <2>3 DEF IInv, TypeOK, WorkShape
    <3>2. PICK A, B : A = log[s] /\ B = work[t].ins[s]
      OBVIOUS
    <3>3. DOMAIN Merged(A, B) = DOMAIN A \cup DOMAIN B
      BY <3>1, <3>2, MergedLog
    <3>. QED
      BY <2>2, <2>4, <3>2, <3>3
  <2>6. \E k \in Nat : DOMAIN req'[t].seen = 1..k /\ 1..k \subseteq DOMAIN log[s]
    BY <2>3, <2>5 DEF SInv, Numbered
  <2>7. LiveSlot(pc'[t], req'[t], work'[t])
    BY <1>3, <2>1, <2>2, <2>3, <2>6 DEF LiveSlot
  <2>. QED
    BY <1>2, <2>7, SlotLive
<1>5. ASSUME NEW s \in SessionIds, ReapRead(t, s) PROVE SInv'
  <2>1. /\ pc[t] = "read" /\ req[t].kind = "reap" /\ s \in req[t].stale /\ work'[t] = work[t]
        /\ \/ /\ pc'[t] = "append" /\ req'[t] = [req[t] EXCEPT !.cur = s, !.seen = log[s]]
           \/ /\ pc'[t] \in {"read", "commit"}
              /\ req'[t] = [req[t] EXCEPT !.stale = @ \ {s}]
    BY <1>5 DEF ReapRead, Step, IInv, TypeOK
  <2>2. s \in work[t].held
    BY <1>3, <2>1 DEF Progress
  <2>3. CASE /\ pc'[t] = "append" /\ req'[t] = [req[t] EXCEPT !.cur = s, !.seen = log[s]]
    <3>1. /\ req'[t].kind = "reap" /\ req'[t].cur = s /\ req'[t].seen = log[s]
          /\ req'[t].stale = req[t].stale
      BY <1>3, <2>1, <2>3 DEF RequestShape, HasFields
    <3>2. \E k \in Nat : DOMAIN req'[t].seen = 1..k /\ 1..k \subseteq DOMAIN log[s]
      BY <3>1 DEF SInv, Numbered
    <3>3. LiveSlot(pc'[t], req'[t], work'[t])
      BY <1>3, <2>1, <2>2, <2>3, <3>1, <3>2 DEF LiveSlot
    <3>. QED
      BY <1>2, <3>3, SlotLive
  <2>4. CASE /\ pc'[t] \in {"read", "commit"}
             /\ req'[t] = [req[t] EXCEPT !.stale = @ \ {s}]
    <3>1. req'[t].kind = "reap" /\ req'[t].stale = req[t].stale \ {s}
      BY <1>3, <2>1, <2>4 DEF RequestShape, HasFields
    <3>3. LiveSlot(pc'[t], req'[t], work'[t])
      BY <1>3, <2>1, <2>2, <2>4, <3>1 DEF LiveSlot
    <3>. QED
      BY <1>2, <3>3, SlotLive
  <2>. QED
    BY <2>1, <2>3, <2>4
<1>. QED
  BY <1>4, <1>5

(* A request can only add the next event of its session's log. *)
LEMMA FlushEventsLive == ASSUME IInv, SInv, NEW t \in Tx, FlushEvents(t) PROVE SInv'
<1>. DEFINE s == req[t].cur
            m == NextSeq(req[t].seen)
<1>1. /\ pc[t] = "append" /\ pc'[t] = "derive" /\ req'[t] = req[t] /\ UNCHANGED db
      /\ \A t2 \in Tx \ {t} : work'[t2] = work[t2] /\ req'[t2] = req[t2] /\ pc'[t2] = pc[t2]
  BY DEF FlushEvents, Step, IInv, TypeOK
<1>2. /\ LiveSlot(pc[t], req[t], work[t]) /\ WorkShape(work[t])
      /\ RequestShape(req[t]) /\ Progress(pc[t], req[t], work[t])
  BY LiveWork
<1>3. /\ s \in work[t].held /\ s \in SessionIds /\ s \notin work[t].changed
      /\ DOMAIN work[t].ins[s] = {}
  BY <1>1, <1>2 DEF LiveSlot, WorkShape, Progress
<1>4. DOMAIN Added(t) = {m}
  BY <1>2 DEF LiveSlot, Added, Only
<1>5. PICK n \in Nat : DOMAIN log[s] = 1..n
  BY <1>3 DEF SInv, Numbered
<1>6. m = n + 1
  <2>1. m \notin DOMAIN log[s] /\ IsLog(req[t].seen)
    BY <1>2, <1>4 DEF FlushEvents, CanAppend, Appendable, RequestShape
  <2>2. PICK k \in Nat : DOMAIN req[t].seen = 1..k /\ 1..k \subseteq DOMAIN log[s]
    BY <1>1, <1>2 DEF LiveSlot
  <2>. QED
    BY <1>5, <2>1, <2>2, NextNumber
<1>7. /\ work'[t].held = work[t].held /\ work'[t].changed = work[t].changed
      /\ work'[t].base = work[t].base /\ work'[t].obj = work[t].obj
      /\ work'[t].ins[s] = Merged(work[t].ins[s], Added(t))
      /\ \A x \in SessionIds \ {s} : work'[t].ins[x] = work[t].ins[x]
  BY FlushEventsWork
<1>8. DOMAIN work'[t].ins[s] = {n + 1}
  BY <1>3, <1>4, <1>6, <1>7 DEF Merged
<1>9. LiveSlot(pc'[t], req'[t], work'[t])
  <2>1. ASSUME NEW x \in work[t].held, x # s
        PROVE  work'[t].ins[x] = work[t].ins[x] /\ x \in SessionIds
    BY <1>2, <1>7, <2>1 DEF WorkShape
  <2>2. Continues(work'[t].ins[s], log[s])
    BY <1>5, <1>8 DEF Continues
  <2>. QED
    BY <1>1, <1>2, <1>3, <1>7, <1>8, <2>1, <2>2 DEF LiveSlot
<1>. QED
  BY <1>1, <1>9, SlotLive

(* Deriving completes the row whose log, with the new event, has a stop. *)
LEMMA DeriveLive ==
    ASSUME IInv, SInv, NEW t \in Tx, DeriveTransition(t) \/ DeriveReap(t)
    PROVE  SInv'
<1>. DEFINE s == req[t].cur
<1>1. /\ UNCHANGED db
      /\ \A t2 \in Tx \ {t} : work'[t2] = work[t2] /\ req'[t2] = req[t2] /\ pc'[t2] = pc[t2]
      /\ pc'[t] \in {"commit", "read"}
      /\ \/ pc'[t] = "commit" /\ req'[t] = req[t]
         \/ req[t].kind = "reap" /\ req'[t] = [req[t] EXCEPT !.stale = @ \ {s}]
  BY DEF DeriveTransition, DeriveReap, Step, IInv, TypeOK
<1>2. /\ LiveSlot(pc[t], req[t], work[t]) /\ WorkShape(work[t]) /\ WorkInv(work[t])
      /\ RequestShape(req[t]) /\ Progress(pc[t], req[t], work[t])
  BY LiveWork
<1>3. /\ pc[t] = "derive" /\ s \in work[t].held /\ s \in SessionIds
      /\ work'[t].held = work[t].held /\ work'[t].changed = work[t].changed \cup {s}
      /\ work'[t].base = work[t].base /\ work'[t].ins = work[t].ins
      /\ \A x \in SessionIds \ {s} : work'[t].obj[x] = work[t].obj[x]
  BY DeriveWork, DeriveReapWork
<1>4. Stopped(log[s]) \/ Stopped(work[t].ins[s]) => work'[t].obj[s].status = "completed"
  <2>1. CASE DeriveTransition(t)
    <3>. DEFINE L == Merged(log[s], work[t].ins[s])
    <3>1. work'[t].obj[s].status = DeriveTimeline(L, req[t].clock).status
      BY <2>1, DeriveWork DEF Shows
    <3>2. Stopped(log[s]) \/ Stopped(work[t].ins[s]) => Stopped(L)
      <4>1. /\ IsLog(work[t].ins[s]) /\ IsLog(log[s])
            /\ DOMAIN log[s] \cap DOMAIN work[t].ins[s] = {}
        BY <1>2, <1>3 DEF WorkShape, WorkInv, IInv, TypeOK
      <4>2. PICK A, B : A = log[s] /\ B = work[t].ins[s]
        OBVIOUS
      <4>3. Stopped(Merged(A, B)) <=> Stopped(A) \/ Stopped(B)
        BY <4>1, <4>2, MergedStopped
      <4>. QED
        BY <4>2, <4>3
    <3>. HIDE DEF L
    <3>. QED
      BY <3>1, <3>2, DerivedStatus DEF TimelineStatus
  <2>2. CASE DeriveReap(t)
    BY <2>2, DeriveReapWork
  <2>. QED
    BY <2>1, <2>2
<1>5. /\ req'[t].kind = req[t].kind
      /\ req'[t].kind = "reap" => req'[t].stale \cap work'[t].changed = {}
  <2>1. CASE DeriveReap(t)
    <3>1. req[t].kind = "reap" /\ req'[t] = [req[t] EXCEPT !.stale = @ \ {s}]
      BY <2>1 DEF DeriveReap, Step, IInv, TypeOK
    <3>2. req'[t].kind = "reap" /\ req'[t].stale = req[t].stale \ {s}
      BY <1>2, <3>1 DEF RequestShape, HasFields
    <3>. QED
      BY <1>2, <1>3, <3>1, <3>2 DEF LiveSlot
  <2>2. CASE DeriveTransition(t)
    BY <2>2 DEF DeriveTransition, Step, IInv, TypeOK
  <2>. QED
    BY <2>1, <2>2
<1>6. pc'[t] = "read" => req'[t].kind = "reap"
  BY <1>1, <1>5
<1>7. LiveSlot(pc'[t], req'[t], work'[t])
  <2>. SUFFICES ASSUME NEW x \in work[t].held
       PROVE /\ work'[t].base[x] # None /\ work'[t].base[x].status \in Running
             /\ x \in work'[t].changed => DOMAIN work'[t].ins[x] # {}
             /\ DOMAIN work'[t].ins[x] # {} =>
                  Continues(work'[t].ins[x], log[x]) /\ x \in work'[t].changed
             /\ (x \in work'[t].changed /\ (Stopped(log[x]) \/ Stopped(work'[t].ins[x])))
                    => work'[t].obj[x].status = "completed"
    <3>1. log' = log
      BY <1>1 DEF db
    <3>. QED
      BY <1>1, <1>2, <1>3, <1>5, <1>6 DEF LiveSlot
  <2>1. CASE x = s
    BY <1>2, <1>3, <1>4, <2>1 DEF LiveSlot
  <2>2. CASE x # s
    <3>1. x \in SessionIds /\ work'[t].obj[x] = work[t].obj[x]
      BY <1>2, <1>3, <2>2 DEF WorkShape
    <3>. QED
      BY <1>2, <1>3, <2>2, <3>1 DEF LiveSlot
  <2>. QED
    BY <2>1, <2>2
<1>. QED
  BY <1>1, <1>7, SlotLive

(* What another request prepared stays sound when a request ends, as long as
   the logs it has events for are left alone. *)
LEMMA OtherLive ==
    ASSUME IInv, SInv, NEW t \in Tx, Finish(t), StopEndsSession',
           \A s \in SessionIds : Numbered(log'[s]),
           \A s \in SessionIds : DOMAIN log[s] \subseteq DOMAIN log'[s],
           \A t2 \in Tx \ {t} : \A s \in work[t2].held :
               DOMAIN work[t2].ins[s] # {} => log'[s] = log[s]
    PROVE  SInv'
<1>1. /\ work'[t] = EmptyWork /\ pc'[t] = "idle" /\ req'[t] = NoReq
      /\ \A t2 \in Tx \ {t} : work'[t2] = work[t2] /\ req'[t2] = req[t2] /\ pc'[t2] = pc[t2]
  BY DEF Finish, IInv, TypeOK
<1>2. ASSUME NEW t2 \in Tx PROVE LiveSlot(pc[t2], req[t2], work[t2])'
  <2>1. CASE t2 = t
    <3>1. EmptyWork.held = {} /\ EmptyWork.changed = {}
      BY DEF EmptyWork
    <3>. QED
      BY <1>1, <2>1, <3>1, NoReqShape DEF LiveSlot
  <2>2. CASE t2 # t
    <3>. DEFINE step == pc[t2]
                r == req[t2]
                w == work[t2]
    <3>1. /\ LiveSlot(step, r, w) /\ w' = w /\ r' = r /\ step' = step /\ WorkShape(w)
          /\ RequestShape(r)
      BY <1>1, <2>2 DEF SInv, IInv, TypeOK
    <3>2. step \in {"append", "derive"} => r.cur \in SessionIds
      BY <3>1 DEF LiveSlot, WorkShape
    <3>3. \A s \in w.held : DOMAIN w.ins[s] # {} => log'[s] = log[s]
      BY <2>2
    <3>4. step \in {"append", "derive"} =>
            \E k \in Nat : DOMAIN r.seen = 1..k /\ 1..k \subseteq DOMAIN log'[r.cur]
      BY <3>1, <3>2 DEF LiveSlot
    <3>5. \A s \in w.held : s \in w.changed => log'[s] = log[s]
      BY <3>1, <3>3 DEF LiveSlot
    <3>. HIDE DEF step, r, w
    <3>6. LiveSlot(step, r, w)'
      BY <3>1, <3>3, <3>4, <3>5 DEF LiveSlot
    <3>. QED
      BY <3>6 DEF step, r, w
  <2>. QED
    BY <2>1, <2>2
<1>. QED
  BY <1>2 DEF SInv

(* A commit writes the stop with the completed row, and takes no number that
   another request holds. *)
LEMMA CommitLive == ASSUME IInv, SInv, NEW t \in Tx, Commit(t) PROVE SInv'
<1>1. /\ pc[t] = "commit" /\ Finish(t) /\ Committable(t)
      /\ \A s \in SessionIds : /\ sessions'[s] = Result(t, s)
                               /\ log'[s] = Merged(work[t].ins[s], log[s])
  BY DEF Commit
<1>2. /\ LiveSlot(pc[t], req[t], work[t]) /\ WorkShape(work[t]) /\ WorkInv(work[t])
  BY LiveWork
<1>3. \A s \in Dirty(t) : RowOK(Result(t, s))
  BY <1>1 DEF Committable
<1>4. ASSUME NEW s \in SessionIds
      PROVE  /\ DOMAIN log'[s] = DOMAIN work[t].ins[s] \cup DOMAIN log[s]
             /\ Stopped(log'[s]) <=> Stopped(log[s]) \/ Stopped(work[t].ins[s])
             /\ DOMAIN work[t].ins[s] = {} => log'[s] = log[s]
  <2>1. /\ DOMAIN log'[s] = DOMAIN work[t].ins[s] \cup DOMAIN log[s]
        /\ Stopped(log'[s]) <=> Stopped(log[s]) \/ Stopped(work[t].ins[s])
    BY <1>1, CommittedLog
  <2>2. ASSUME DOMAIN work[t].ins[s] = {} PROVE log'[s] = log[s]
    <3>1. PICK B : B = log[s]
      OBVIOUS
    <3>2. PICK D \in SUBSET (1..MaxSeq) : B \in [D -> Event]
      BY <3>1 DEF IInv, TypeOK, IsLog
    <3>3. Merged(work[t].ins[s], B) = B
      BY <2>2, <3>2 DEF Merged
    <3>. QED
      BY <1>1, <3>1, <3>3
  <2>. QED
    BY <2>1, <2>2
<1>5. StopEndsSession'
  <2>. SUFFICES ASSUME NEW s \in SessionIds, Stopped(log[s]) \/ Stopped(work[t].ins[s])
                PROVE  Result(t, s).status = "completed"
    BY <1>1, <1>4 DEF StopEndsSession
  <2>1. CASE s \in Dirty(t)
    <3>1. /\ s \in work[t].held /\ s \in work[t].changed /\ work[t].base[s] # None
          /\ work[t].base[s].status \in Running /\ work[t].obj[s].status = "completed"
          /\ sessions[s] # None
      BY <1>2, <2>1 DEF LiveSlot, Dirty, Fresh, WorkInv
    <3>2. sessions[s] \in Row
      BY <3>1 DEF IInv, TypeOK
    <3>3. Result(t, s) = Updated(sessions[s], work[t].base[s], work[t].obj[s])
      BY <3>1 DEF Result, Fresh, Held
    <3>4. work[t].obj[s].status # work[t].base[s].status
      BY <3>1 DEF Running
    <3>. QED
      BY <3>1, <3>2, <3>3, <3>4 DEF Updated, Column, Row
  <2>2. CASE s \notin Dirty(t)
    <3>1. Result(t, s) = sessions[s]
      BY <2>2, ResultRow
    <3>2. DOMAIN work[t].ins[s] = {}
      <4>1. CASE s \in work[t].held
        BY <1>1, <1>2, <2>2, <4>1 DEF LiveSlot, Dirty
      <4>2. CASE s \notin work[t].held
        BY <1>2, <4>2 DEF WorkInv
      <4>. QED
        BY <4>1, <4>2
    <3>3. Stopped(log[s])
      BY <3>2 DEF Stopped
    <3>. QED
      BY <3>1, <3>3 DEF SInv, StopEndsSession
  <2>. QED
    BY <2>1, <2>2
<1>6. ASSUME NEW s \in SessionIds PROVE Numbered(log'[s])
  <2>1. CASE DOMAIN work[t].ins[s] = {}
    <3>1. log'[s] = log[s] /\ Numbered(log[s])
      BY <1>4, <2>1 DEF SInv
    <3>. QED
      BY <3>1 DEF Numbered
  <2>2. CASE DOMAIN work[t].ins[s] # {}
    <3>1. s \in work[t].held
      BY <1>2, <2>2 DEF WorkInv
    <3>2. PICK n \in Nat : DOMAIN log[s] = 1..n /\ DOMAIN work[t].ins[s] = {n + 1}
      BY <1>2, <2>2, <3>1 DEF LiveSlot, Continues
    <3>3. {n + 1} \cup (1..n) = 1..(n + 1)
      OBVIOUS
    <3>4. DOMAIN log'[s] = 1..(n + 1) /\ n + 1 \in Nat
      <4>1. DOMAIN log'[s] = DOMAIN work[t].ins[s] \cup DOMAIN log[s]
        BY <1>4
      <4>2. DOMAIN log'[s] = {n + 1} \cup (1..n)
        BY <3>2, <4>1
      <4>. QED
        BY <3>3, <4>2
    <3>. QED
      BY <3>4 DEF Numbered
  <2>. QED
    BY <2>1, <2>2
<1>7. ASSUME NEW t2 \in Tx \ {t}, NEW s \in work[t2].held, DOMAIN work[t2].ins[s] # {}
      PROVE  log'[s] = log[s]
  <2>1. /\ s \in SessionIds /\ LiveSlot(pc[t2], req[t2], work[t2])
        /\ Apart(work[t], work[t2])
    BY <1>7, LiveWork DEF WorkShape, IInv
  <2>2. CASE DOMAIN work[t].ins[s] = {}
    BY <1>4, <2>1, <2>2
  <2>3. CASE DOMAIN work[t].ins[s] # {}
    <3>1. s \in work[t].held
      BY <1>2, <2>1, <2>3 DEF WorkInv
    <3>2. PICK n \in Nat : DOMAIN log[s] = 1..n /\ DOMAIN work[t].ins[s] = {n + 1}
      BY <1>2, <2>3, <3>1 DEF LiveSlot, Continues
    <3>3. PICK m \in Nat : DOMAIN log[s] = 1..m /\ DOMAIN work[t2].ins[s] = {m + 1}
      BY <1>7, <2>1 DEF LiveSlot, Continues
    <3>4. m = n
      <4>1. m \in 1..n \/ m = 0
        BY <3>2, <3>3
      <4>2. n \in 1..m \/ n = 0
        BY <3>2, <3>3
      <4>. QED
        BY <4>1, <4>2
    <3>. QED
      BY <2>1, <3>2, <3>3, <3>4 DEF Apart
  <2>. QED
    BY <2>2, <2>3
<1>. QED
  BY <1>1, <1>4, <1>5, <1>6, <1>7, OtherLive

(* A new session begins with its start. *)
LEMMA CommitStartLive == ASSUME IInv, SInv, NEW t \in Tx, CommitStart(t) PROVE SInv'
<1>. DEFINE s == req[t].cur
            e == [type |-> "start", at |-> req[t].at]
<1>1. /\ pc[t] = "insert" /\ req[t].kind = "start" /\ Finish(t)
      /\ Insertable(t, req[t].user, s)
      /\ sessions' = [sessions EXCEPT ![s] = TimerRow(req[t].user, req[t].at)]
      /\ log' = [log EXCEPT ![s] = Merged(Only(1, e), @)]
  BY DEF CommitStart, CanInsert
<1>2. s \in SessionIds /\ sessions[s] = None /\ DOMAIN log[s] = {}
  BY <1>1, SlotGood DEF Good, Progress, Insertable, IInv, Committed, NoRowNoLog
<1>3. DOMAIN log'[s] = 1..1 /\ ~Stopped(log'[s])
  <2>1. log'[s] = Merged(Only(1, e), log[s])
    BY <1>1, <1>2 DEF IInv, TypeOK
  <2>2. DOMAIN Merged(Only(1, e), log[s]) = {1} \cup {} /\ Merged(Only(1, e), log[s])[1] = e
    BY <1>2 DEF Merged, Only
  <2>. QED
    BY <2>1, <2>2 DEF Stopped
<1>4. \A x \in SessionIds \ {s} : sessions'[x] = sessions[x] /\ log'[x] = log[x]
  BY <1>1 DEF IInv, TypeOK
<1>5. StopEndsSession'
  BY <1>3, <1>4 DEF SInv, StopEndsSession, Stopped
<1>6. \A x \in SessionIds : Numbered(log'[x]) /\ DOMAIN log[x] \subseteq DOMAIN log'[x]
  BY <1>2, <1>3, <1>4 DEF SInv, Numbered
<1>7. ASSUME NEW t2 \in Tx \ {t}, NEW x \in work[t2].held PROVE log'[x] = log[x]
  <2>1. /\ LiveSlot(pc[t2], req[t2], work[t2]) /\ WorkShape(work[t2])
        /\ WorkInv(work[t2])
    BY LiveWork
  <2>2. x \in SessionIds /\ work[t2].base[x] # None
    BY <2>1 DEF WorkShape, LiveSlot
  <2>3. sessions[x] # None
    BY <2>1, <2>2 DEF WorkInv
  <2>. QED
    BY <1>2, <1>4, <2>2, <2>3
<1>. QED
  BY <1>1, <1>5, <1>6, <1>7, OtherLive

(* Every step keeps the invariant, if there are no uploads. *)
LEMMA NextLive == "sync" \notin Kinds /\ IInv /\ SInv /\ [Next]_vars => SInv'
<1>. SUFFICES ASSUME "sync" \notin Kinds, IInv, SInv, [Next]_vars PROVE SInv'
  OBVIOUS
<1>1. CASE UNCHANGED <<log, pc, req, work>> /\ StopEndsSession'
  BY <1>1 DEF SInv, Numbered, LiveSlot, Continues, Stopped
<1>2. CASE Tick \/ UNCHANGED vars
  <2>1. UNCHANGED <<sessions, log, pc, req, work>>
    BY <1>2 DEF Tick, vars, db
  <2>. QED
    BY <1>1, <2>1 DEF SInv, StopEndsSession, Stopped
<1>3. ASSUME NEW u \in Users, NEW s \in SessionIds, NEW span \in ManualSpans,
             CreateManual(u, s, span)
      PROVE  SInv'
  <2>1. /\ sessions[s] = None /\ UNCHANGED <<log, pc, req, work>>
        /\ \A x \in SessionIds \ {s} : sessions'[x] = sessions[x]
        /\ DOMAIN log[s] = {}
    BY <1>3 DEF CreateManual, IInv, TypeOK, Committed, NoRowNoLog
  <2>. QED
    BY <1>1, <2>1 DEF SInv, StopEndsSession, Stopped
<1>4. ASSUME NEW t \in Tx, Arrive(t) \/ BeginReap(t) PROVE SInv'
  BY <1>4, ArriveLive
<1>5. ASSUME NEW t \in Tx, Abort(t) PROVE SInv'
  <2>1. Finish(t) /\ UNCHANGED <<sessions, log>>
    BY <1>5 DEF Abort, db
  <2>. QED
    BY <2>1, OtherLive DEF SInv, StopEndsSession, Stopped, Numbered
<1>6. ASSUME NEW t \in Tx, Proceed(t) PROVE SInv'
  <2>1. ~LoadItem(t) /\ ~FlushRow(t) /\ ~DeriveSync(t)
    <3>1. req[t].kind # "sync" /\ (pc[t] = "load" => req[t].kind = "sync")
      BY LiveWork DEF LiveSlot, Progress
    <3>. QED
      BY <3>1 DEF LoadItem, FlushRow, DeriveSync
  <2>. QED
    BY <1>6, <2>1, ReadLive, FlushEventsLive, DeriveLive, CommitStartLive, CommitLive DEF Proceed
<1>. QED
  BY <1>2, <1>3, <1>4, <1>5, <1>6 DEF Next

(* A stop on record ends the session for good, for any number of devices and
   reaper runs racing for it, as long as no uploads are in play (transition and
   close_stale_sessions judge a session by what they have read, and write
   status and end over what is there). *)
THEOREM StoppedStaysStopped ==
    ASSUME "sync" \notin Kinds
    PROVE  Spec => []StopEndsSession
<1>1. Init => SInv
  <2>. SUFFICES ASSUME Init PROVE SInv
    OBVIOUS
  <2>1. \A s \in SessionIds : DOMAIN log[s] = 1..0
    BY EmptyIsLog DEF Init
  <2>2. ASSUME NEW t \in Tx PROVE LiveSlot(pc[t], req[t], work[t])
    <3>1. pc[t] = "idle" /\ req[t] = NoReq /\ work[t] = EmptyWork
      BY DEF Init
    <3>2. EmptyWork.held = {} /\ EmptyWork.changed = {}
      BY DEF EmptyWork
    <3>. QED
      BY <3>1, <3>2, NoReqShape DEF LiveSlot
  <2>3. StopEndsSession
    BY EmptyIsLog DEF Init, StopEndsSession, Stopped
  <2>4. \A s \in SessionIds : Numbered(log[s])
    BY <2>1 DEF Numbered
  <2>. QED
    BY <2>2, <2>3, <2>4 DEF SInv
<1>2. SInv => StopEndsSession
  BY DEF SInv
<1>3. IInv /\ SInv /\ [Next]_vars => SInv'
  BY NextLive
<1>. QED
  BY <1>1, <1>2, <1>3, Inductive, PTL DEF Spec
-----------------------------------------------------------------------------
(***************************************************************************)
(* The service and its reaper implement Ledger; and, when one request is   *)
(* open at a time, the columns cached on a session are what its log        *)
(* derives.                                                                *)
(*                                                                         *)
(* To IInv, LInv adds what concerns the reaper: what it has read is still  *)
(* on record, and what it has flushed for a session is one stop at a       *)
(* recorded time, together with an audit entry.  CInv adds that what an    *)
(* open request has prepared will match the log that its commit leaves.    *)
(*                                                                         *)
(* VInv is about uploads that arrive at the same time: that a user's new   *)
(* rows are in one open request, and that no row that has passed overlaps  *)
(* another, on record or about to be.                                      *)
(***************************************************************************)

Extends(L, K) == DOMAIN L \subseteq DOMAIN K /\ \A n \in DOMAIN L : K[n] = L[n]

\* The events ins close the record L.
ClosesRecord(ins, L) ==
    \E n \in DOMAIN ins, m \in DOMAIN L :
        DOMAIN ins = {n} /\ ins[n] = [type |-> "stop", at |-> L[m].at]

\* What a run of the reaper has flushed for s, when the records are L.
Flushes(step, r, w, s, L) ==
    IF AutoClose \in w.notes[s] \/ (step = "derive" /\ s = r.cur)
    THEN ClosesRecord(w.ins[s], L[s])
    ELSE DOMAIN w.ins[s] = {}

SlotInv(step, r, w, L) ==
    /\ r.kind \notin {"none", "reap"} =>
         /\ r.user \in Users
         /\ \A s \in SessionIds : AutoClose \notin w.notes[s]
    /\ r.kind = "reap" =>
         /\ step \in {"append", "derive"} =>
              DOMAIN r.seen # {} /\ Extends(r.seen, L[r.cur])
         /\ \A s \in SessionIds : Flushes(step, r, w, s, L)
         /\ \A s \in r.stale : AutoClose \notin w.notes[s]
         /\ \A s \in w.held : w.base[s] # None

LInv == \A t \in Tx : SlotInv(pc[t], req[t], work[t], log)
-----------------------------------------------------------------------------
(* Latest times.                                                           *)

(* A set of numbers has a least one. *)
LEMMA NatLeast ==
    ASSUME NEW T \in SUBSET Nat, T # {} PROVE \E x \in T : \A y \in T : x <= y
<1>. DEFINE R == {p \in Nat \X Nat : p[1] < p[2]}
<1>1. IsWellFoundedOn(R, Nat)
  BY NatLessThanWellFounded DEF OpToRel
<1>2. \A x, y \in Nat : <<y, x>> \in R <=> y < x
  OBVIOUS
<1>. HIDE DEF R
<1>3. PICK x \in T : \A y \in T : ~(<<y, x>> \in R)
  BY <1>1, WFMin
<1>4. ASSUME NEW y \in T PROVE x <= y
  <2>1. x \in Nat /\ y \in Nat /\ ~(<<y, x>> \in R)
    BY <1>3
  <2>2. ~(y < x)
    BY <1>2, <2>1
  <2>. QED
    BY <2>1, <2>2
<1>. QED
  BY <1>4

(* A finite set of numbers has a greatest one, its maximum: otherwise take the smallest set
   that has none, and an element away from it. *)
LEMMA HasMax ==
    ASSUME NEW S \in SUBSET Nat, IsFiniteSet(S), S # {}
    PROVE  Max(S) \in S /\ \A y \in S : Max(S) >= y
<1>. DEFINE Bad(T) == /\ T \in SUBSET Nat /\ IsFiniteSet(T) /\ T # {}
                      /\ ~\E x \in T : \A y \in T : x >= y
            Sizes == {n \in Nat : \E T \in SUBSET S : Bad(T) /\ Cardinality(T) = n}
<1>1. ~Bad(S)
  <2>. SUFFICES ASSUME Bad(S) PROVE FALSE
    OBVIOUS
  <2>1. Cardinality(S) \in Sizes
    BY FS_CardinalityType
  <2>2. PICK n \in Sizes : \A m \in Sizes : n <= m
    BY <2>1, NatLeast
  <2>3. PICK T \in SUBSET S : Bad(T) /\ Cardinality(T) = n
    BY <2>2
  <2>4. PICK x \in T : TRUE
    BY <2>3
  <2>5. IsFiniteSet(T \ {x}) /\ Cardinality(T \ {x}) = n - 1 /\ n \in Nat
    BY <2>2, <2>3, <2>4, FS_RemoveElement
  <2>6. CASE Bad(T \ {x})
    <3>1. n - 1 \in Sizes
      BY <2>3, <2>5, <2>6, FS_CardinalityType
    <3>. QED
      BY <2>2, <2>5, <3>1
  <2>7. CASE ~Bad(T \ {x})
    <3>1. CASE T \ {x} = {}
      <4>1. T = {x} /\ x \in Nat
        BY <2>3, <2>4, <3>1
      <4>. QED
        BY <2>3, <4>1
    <3>2. CASE T \ {x} # {}
      <4>1. PICK z \in T \ {x} : \A y \in T \ {x} : z >= y
        BY <2>3, <2>5, <2>7, <3>2
      <4>2. \E y \in T : \A v \in T : y >= v
        BY <2>3, <2>4, <4>1
      <4>. QED
        BY <2>3, <4>2
    <3>. QED
      BY <3>1, <3>2
  <2>. QED
    BY <2>6, <2>7
<1>. QED
  BY <1>1 DEF Max

(* The time of a log's last event is the time of one of its events. *)
LEMMA LastEventOnRecord ==
    ASSUME NEW L, IsLog(L), DOMAIN L # {}
    PROVE  \E m \in DOMAIN L : LastEventAt(L) = L[m].at
<1>. DEFINE S == {L[n].at : n \in DOMAIN L}
<1>1. PICK D \in SUBSET (1..MaxSeq) : L \in [D -> Event]
  BY DEF IsLog
<1>2. IsFiniteSet(DOMAIN L)
  <2>1. IsFiniteSet(1..MaxSeq) /\ DOMAIN L = D
    BY <1>1, FS_Interval, SessionsAssumption
  <2>. QED
    BY <2>1, FS_Subset
<1>3. S \in SUBSET Nat /\ S # {}
  BY <1>1 DEF Event
<1>4. IsFiniteSet(S)
  <2>1. DEFINE f == [n \in DOMAIN L |-> L[n].at]
  <2>2. f \in Surjection(DOMAIN L, S)
    BY DEF Surjection
  <2>. QED
    BY <1>2, <2>2, FS_Surjection
<1>5. Max(S) \in S
  BY <1>3, <1>4, HasMax
<1>. QED
  BY <1>5 DEF LastEventAt
-----------------------------------------------------------------------------
(* The invariant of the reaper's requests.                                 *)

(* What a slot says of the records stays true as they grow. *)
LEMMA SlotGrows ==
    ASSUME NEW step, NEW r, NEW w, NEW L, NEW K, RequestShape(r),
           SlotInv(step, r, w, L),
           (r.kind = "reap" /\ step \in {"append", "derive"}) => r.cur \in SessionIds,
           \A s \in SessionIds : Extends(L[s], K[s])
    PROVE  SlotInv(step, r, w, K)
<1>1. ASSUME NEW s \in SessionIds, NEW ins, ClosesRecord(ins, L[s])
      PROVE  ClosesRecord(ins, K[s])
  BY <1>1 DEF ClosesRecord, Extends
<1>2. ASSUME r.kind = "reap" PROVE \A s \in SessionIds : Flushes(step, r, w, s, K)
  BY <1>1, <1>2 DEF SlotInv, Flushes
<1>3. ASSUME r.kind = "reap", step \in {"append", "derive"}
      PROVE  DOMAIN r.seen # {} /\ Extends(r.seen, K[r.cur])
  BY <1>3 DEF SlotInv, Extends
<1>. QED
  BY <1>2, <1>3 DEF SlotInv

(* Records grow. *)
LEMMA Grown ==
    ASSUME IInv, [Next]_vars, NEW s \in SessionIds PROVE Extends(log[s], log'[s])
<1>1. CASE UNCHANGED vars
  BY <1>1 DEF vars, db, Extends
<1>2. CASE ~UNCHANGED vars
  BY <1>2, NextAppends DEF Extends
<1>. QED
  BY <1>1, <1>2

(* A step of slot t, whose outcome is in order, keeps every slot in order. *)
LEMMA SlotMoves ==
    ASSUME IInv, LInv, [Next]_vars, NEW t \in Tx, NEW step, NEW r, NEW w,
           pc' = [pc EXCEPT ![t] = step],
           req' = [req EXCEPT ![t] = r],
           work' = [work EXCEPT ![t] = w],
           RequestShape(r), SlotInv(step, r, w, log),
           (r.kind = "reap" /\ step \in {"append", "derive"}) => r.cur \in SessionIds
    PROVE  LInv'
<1>. SUFFICES ASSUME NEW t2 \in Tx PROVE SlotInv(pc'[t2], req'[t2], work'[t2], log')
  BY DEF LInv
<1>1. \A s \in SessionIds : Extends(log[s], log'[s])
  BY Grown
<1>2. CASE t2 = t
  <2>1. pc'[t2] = step /\ req'[t2] = r /\ work'[t2] = w
    BY <1>2 DEF IInv, TypeOK
  <2>. QED
    BY <1>1, <2>1, SlotGrows
<1>3. CASE t2 # t
  <2>1. pc'[t2] = pc[t2] /\ req'[t2] = req[t2] /\ work'[t2] = work[t2]
    BY <1>3 DEF IInv, TypeOK
  <2>2. /\ RequestShape(req[t2]) /\ SlotInv(pc[t2], req[t2], work[t2], log)
        /\ (req[t2].kind = "reap" /\ pc[t2] \in {"append", "derive"})
             => req[t2].cur \in SessionIds
    BY SlotGood DEF LInv, Good, Progress, RequestShape
  <2>. QED
    BY <1>1, <2>1, <2>2, SlotGrows
<1>. QED
  BY <1>2, <1>3

(* A request of a user, when it begins. *)
LEMMA BeginSlot ==
    ASSUME IInv, LInv, [Next]_vars, NEW t \in Tx,
           NEW step \in {"load", "insert", "read"}, NEW r, NEW S \in SUBSET SessionIds,
           Begin(t, step, r, S), RequestShape(r),
           r.kind # "reap" => r.user \in Users
    PROVE  LInv'
<1>. DEFINE w == Loaded(EmptyWork, S)
<1>1. /\ \A s \in SessionIds : w.ins[s] = <<>> /\ w.notes[s] = {}
      /\ \A s \in w.held : w.base[s] # None
  <2>1. \A s \in SessionIds : w.ins[s] = <<>> /\ w.notes[s] = {}
    BY DEF Loaded, EmptyWork
  <2>. QED
    BY <2>1, FirstLoad
<1>2. r.stale \subseteq SessionIds
  BY DEF RequestShape
<1>3. SlotInv(step, r, w, log)
  BY <1>1, <1>2, EmptyIsLog DEF SlotInv, Flushes
<1>. QED
  BY <1>3, SlotMoves DEF Begin

(* Arriving keeps every slot in order. *)
LEMMA ArriveSlot == ASSUME IInv, LInv, [Next]_vars, NEW t \in Tx, Arrive(t) PROVE LInv'
<1>1. now \in Nat
  BY DEF IInv, TypeOK
<1>2. ASSUME NEW u \in Users, NEW s \in SessionIds, NEW at \in OccurredAt,
             BeginStart(t, u, s, at)
      PROVE  LInv'
  <2>. DEFINE r == [NewRequest("start", u) EXCEPT !.cur = s, !.at = at]
  <2>1. RequestShape(NewRequest("start", u)) /\ NewRequest("start", u).user = u
    BY <1>1, NewRequestShape DEF Kind, EventType
  <2>2. RequestShape(r) /\ r.user = u
    BY <1>1, <2>1, SessionsAssumption DEF RequestShape, HasFields, OccurredAt, NewRequest, NoReq
  <2>3. Begin(t, "insert", r, {})
    BY <1>2 DEF BeginStart
  <2>. HIDE DEF r
  <2>. QED
    BY <2>2, <2>3, BeginSlot
<1>3. ASSUME NEW u \in Users, NEW s \in SessionIds, NEW at \in OccurredAt,
             NEW type \in {"pause", "resume", "stop"}, BeginTransition(t, u, s, type, at)
      PROVE  LInv'
  <2>. DEFINE r == [NewRequest(type, u) EXCEPT !.cur = s, !.at = at]
  <2>1. RequestShape(NewRequest(type, u)) /\ NewRequest(type, u).user = u
    BY <1>1, NewRequestShape DEF Kind, EventType
  <2>2. RequestShape(r) /\ r.user = u
    BY <1>1, <2>1, SessionsAssumption DEF RequestShape, HasFields, OccurredAt, NewRequest, NoReq
  <2>3. Begin(t, "read", r, {s}) /\ {s} \in SUBSET SessionIds
    BY <1>3 DEF BeginTransition
  <2>. HIDE DEF r
  <2>. QED
    BY <2>2, <2>3, BeginSlot
<1>4. ASSUME NEW u \in Users, NEW batch \in Batches, BeginSync(t, u, batch)
      PROVE  LInv'
  <2>. DEFINE r == [NewRequest("sync", u) EXCEPT !.batch = batch]
  <2>1. RequestShape(NewRequest("sync", u)) /\ NewRequest("sync", u).user = u
    BY <1>1, NewRequestShape DEF Kind
  <2>2. RequestShape(r) /\ r.user = u
    BY <2>1, SessionsAssumption DEF RequestShape, HasFields, NewRequest, NoReq
  <2>3. Begin(t, "load", r, {})
    BY <1>4 DEF BeginSync
  <2>. HIDE DEF r
  <2>. QED
    BY <2>2, <2>3, BeginSlot
<1>. QED
  BY <1>2, <1>3, <1>4 DEF Arrive

(* So does the start of a run of the reaper. *)
LEMMA BeginReapSlot == ASSUME IInv, LInv, [Next]_vars, NEW t \in Tx, BeginReap(t) PROVE LInv'
<1>. DEFINE r == [NewRequest("reap", None) EXCEPT !.stale = Stale]
<1>1. now \in Nat /\ Stale \subseteq SessionIds
  BY DEF IInv, TypeOK, Stale
<1>2. RequestShape(NewRequest("reap", None)) /\ NewRequest("reap", None).kind = "reap"
  BY <1>1, NewRequestShape DEF Kind
<1>3. RequestShape(r) /\ r.kind = "reap"
  BY <1>1, <1>2 DEF RequestShape, HasFields, NewRequest, NoReq
<1>. QED
  BY <1>1, <1>3, BeginSlot DEF BeginReap

(* A step of a user's request writes no audit entry of the reaper. *)
LEMMA UserStep ==
    ASSUME IInv, LInv, [Next]_vars, NEW t \in Tx, NEW to, NEW r, NEW w,
           Step(t, to, r, w), req[t].kind \notin {"none", "reap"},
           RequestShape(r), r.kind = req[t].kind, r.user = req[t].user,
           \A s \in SessionIds :
              AutoClose \notin work[t].notes[s] => AutoClose \notin w.notes[s]
    PROVE  LInv'
<1>1. SlotInv(to, r, w, log)
  BY DEF LInv, SlotInv
<1>. QED
  BY <1>1, SlotMoves DEF Step

(* The user's steps, one by one. *)
LEMMA UserSteps ==
    ASSUME IInv, LInv, [Next]_vars, NEW t \in Tx,
           \/ LoadItem(t) \/ FlushRow(t) \/ ReadLog(t) \/ DeriveTransition(t) \/ DeriveSync(t)
           \/ FlushEvents(t) /\ req[t].kind # "reap"
    PROVE  LInv'
<1>1. RequestShape(req[t]) /\ WorkShape(work[t]) /\ Progress(pc[t], req[t], work[t])
  BY SlotGood DEF Good
<1>2. ASSUME NEW cur \in SessionIds
      PROVE  LET r == [req[t] EXCEPT !.cur = cur]
             IN  RequestShape(r) /\ r.kind = req[t].kind /\ r.user = req[t].user
  BY <1>1 DEF RequestShape, HasFields
<1>3. CASE LoadItem(t)
  <2>. DEFINE s == Incoming(t).id
              r == [req[t] EXCEPT !.cur = s]
              to == IF Held(t, s) \/ sessions[s] # None THEN "read" ELSE "insert"
              w == IF Held(t, s) THEN work[t] ELSE Loaded(work[t], {s})
  <2>1. req[t].kind = "sync" /\ s \in SessionIds
    BY <1>1, <1>3, IncomingShape DEF LoadItem, Progress
  <2>2. w.notes = work[t].notes
    BY <1>1 DEF Loaded, WorkShape, HasFields
  <2>3. RequestShape(r) /\ r.kind = req[t].kind /\ r.user = req[t].user
    BY <1>2, <2>1
  <2>4. Step(t, to, r, w)
    BY <1>3 DEF LoadItem
  <2>. HIDE DEF to, r, w
  <2>. QED
    BY <2>1, <2>2, <2>3, <2>4, UserStep
<1>4. CASE FlushRow(t)
  <2>. DEFINE f == Flushed(t, work[t])
              o == TimerRow(req[t].user,
                       Incoming(t).events[Min(DOMAIN Incoming(t).events)].at)
              w == [f EXCEPT !.held = @ \cup {req[t].cur}, !.obj[req[t].cur] = o]
  <2>1. w.notes = work[t].notes
    BY <1>1, FlushedGood DEF WorkShape, HasFields
  <2>. QED
    BY <1>1, <1>4, <2>1, UserStep DEF FlushRow
<1>5. CASE ReadLog(t)
  <2>. DEFINE r == [req[t] EXCEPT !.seen = Merged(log[req[t].cur], work[t].ins[req[t].cur])]
  <2>1. req[t].cur \in SessionIds /\ req[t].kind \notin {"none", "reap"}
    BY <1>1, <1>5 DEF ReadLog, Progress, WorkShape
  <2>2. IsLog(Merged(log[req[t].cur], work[t].ins[req[t].cur]))
    BY <1>1, <2>1, MergedLog DEF IInv, TypeOK, WorkShape
  <2>3. RequestShape(r) /\ r.kind = req[t].kind /\ r.user = req[t].user
    BY <1>1, <2>2 DEF RequestShape, HasFields
  <2>. QED
    BY <1>5, <2>1, <2>3, UserStep DEF ReadLog
<1>6. CASE DeriveTransition(t)
  <2>. DEFINE s == req[t].cur
              L == Merged(log[s], work[t].ins[s])
              d == DeriveTimeline(L, req[t].clock)
              row == WithTimeline(work[t].obj[s], d)
              v == EvaluateSession(row.source, d, LastEventAt(L), req[t].clock, FALSE, FALSE)
              kept == [work[t] EXCEPT !.changed = @ \cup {s}, !.obj[s] = row]
              judged == [work[t] EXCEPT !.changed = @ \cup {s},
                                        !.obj[s] = WithVerdict(row, v),
                                        !.notes[s] = @ \cup FlagNote(row, v)]
              w == IF req[t].kind # "stop" THEN kept ELSE judged
  <2>1. Step(t, "commit", req[t], w) /\ req[t].kind \notin {"none", "reap"}
    BY <1>6 DEF DeriveTransition
  <2>. HIDE DEF d, row, v
  <2>2. AutoClose \notin FlagNote(row, v)
    BY DEF FlagNote, Entry, AutoClose
  <2>3. kept.notes = work[t].notes
    BY <1>1 DEF WorkShape, HasFields
  <2>4. judged.notes = [work[t].notes EXCEPT ![s] = @ \cup FlagNote(row, v)]
    BY <1>1 DEF WorkShape, HasFields
  <2>. HIDE DEF kept, judged
  <2>5. ASSUME NEW x \in SessionIds, AutoClose \notin work[t].notes[x]
        PROVE  AutoClose \notin w.notes[x]
    <3>1. \/ w.notes[x] = work[t].notes[x]
          \/ w.notes[x] = work[t].notes[x] \cup FlagNote(row, v)
      <4>1. PICK notes : notes = work[t].notes /\ DOMAIN notes = SessionIds
        BY <1>1 DEF WorkShape
      <4>2. w.notes \in {notes, [notes EXCEPT ![s] = @ \cup FlagNote(row, v)]}
        BY <2>3, <2>4, <4>1
      <4>. HIDE DEF w
      <4>. QED
        BY <4>1, <4>2
    <3>. QED
      BY <2>2, <2>5, <3>1
  <2>. HIDE DEF w
  <2>6. RequestShape(req[t])
    BY <1>1
  <2>. QED
    BY <2>1, <2>5, <2>6, UserStep, Zenon
<1>7. CASE DeriveSync(t)
  <2>. DEFINE s == req[t].cur
              sent == Incoming(t).events
              L == Merged(log[s], work[t].ins[s])
              d == DeriveTimeline(L, req[t].clock)
              row == WithTimeline(work[t].obj[s], d)
              conflict == \E n \in DOMAIN sent \cap DOMAIN req[t].seen :
                              sent[n] # req[t].seen[n]
              appended == DOMAIN sent \ DOMAIN req[t].seen # {}
              v == EvaluateSession(row.source, d, LastEventAt(L), req[t].clock,
                                   Overlaps(t, s, d), conflict)
              synced == IF appended \/ conflict THEN {Synced} ELSE {}
              r == [req[t] EXCEPT !.batch = Tail(@)]
              to == IF Len(req[t].batch) = 1 THEN "commit" ELSE "load"
              w == [work[t] EXCEPT !.changed = @ \cup {s},
                                   !.obj[s] = WithVerdict(row, v),
                                   !.notes[s] = @ \cup FlagNote(row, v) \cup synced]
  <2>1. Step(t, to, r, w) /\ pc[t] = "derive" /\ req[t].kind = "sync"
    BY <1>7 DEF DeriveSync
  <2>2. Tail(req[t].batch) \in Seq(Uploads)
    <3>1. req[t].batch \in Seq(Uploads) /\ req[t].batch # <<>>
      BY <2>1, IncomingShape
    <3>. QED
      BY <3>1
  <2>3. RequestShape(r) /\ r.kind = req[t].kind /\ r.user = req[t].user
    <3>1. PICK batch \in Seq(Uploads) : batch = Tail(req[t].batch)
      BY <2>2
    <3>2. r = [req[t] EXCEPT !.batch = batch]
      BY <3>1
    <3>. QED
      BY <1>1, <3>2 DEF RequestShape, HasFields
  <2>. HIDE DEF d, row, v, conflict, appended
  <2>4. AutoClose \notin FlagNote(row, v) \cup synced
    BY DEF FlagNote, Entry, AutoClose, Synced
  <2>. HIDE DEF synced
  <2>5. w.notes = [work[t].notes EXCEPT ![s] = @ \cup FlagNote(row, v) \cup synced]
    BY <1>1 DEF WorkShape, HasFields
  <2>. HIDE DEF w, r, to
  <2>6. ASSUME NEW x \in SessionIds, AutoClose \notin work[t].notes[x]
        PROVE  AutoClose \notin w.notes[x]
    <3>1. \/ w.notes[x] = work[t].notes[x]
          \/ w.notes[x] = work[t].notes[x] \cup FlagNote(row, v) \cup synced
      <4>1. PICK notes : notes = work[t].notes /\ DOMAIN notes = SessionIds
        BY <1>1 DEF WorkShape
      <4>2. w.notes = [notes EXCEPT ![s] = @ \cup FlagNote(row, v) \cup synced]
        BY <2>5, <4>1
      <4>. QED
        BY <4>1, <4>2
    <3>. QED
      BY <2>4, <2>6, <3>1
  <2>7. req[t].kind \notin {"none", "reap"}
    BY <2>1
  <2>. QED
    BY <2>1, <2>3, <2>6, <2>7, UserStep, Zenon
<1>8. CASE FlushEvents(t) /\ req[t].kind # "reap"
  <2>. DEFINE f == Flushed(t, work[t])
              w == [f EXCEPT !.ins[req[t].cur] = Merged(@, Added(t))]
  <2>1. w.notes = work[t].notes
    BY <1>1, FlushedGood DEF WorkShape, HasFields
  <2>2. req[t].kind # "none"
    BY <1>1, <1>8 DEF FlushEvents, Progress
  <2>. QED
    BY <1>1, <1>8, <2>1, <2>2, UserStep DEF FlushEvents
<1>. QED
  BY <1>3, <1>4, <1>5, <1>6, <1>7, <1>8

(* The reaper reading a candidate. *)
LEMMA ReapReadSlot ==
    ASSUME IInv, LInv, [Next]_vars, NEW t \in Tx, NEW s \in SessionIds, ReapRead(t, s)
    PROVE  LInv'
<1>1. /\ RequestShape(req[t]) /\ SlotInv(pc[t], req[t], work[t], log)
      /\ pc[t] = "read" /\ req[t].kind = "reap" /\ s \in req[t].stale
  BY SlotGood DEF Good, LInv, ReapRead
<1>2. CASE Step(t, "append", [req[t] EXCEPT !.cur = s, !.seen = log[s]], work[t])
             /\ log[s] # <<>>
  <2>. DEFINE r == [req[t] EXCEPT !.cur = s, !.seen = log[s]]
  <2>1. IsLog(log[s]) /\ DOMAIN log[s] # {}
    <3>1. PICK L : L = log[s]
      OBVIOUS
    <3>2. PICK D \in SUBSET (1..MaxSeq) : L \in [D -> Event]
      BY <3>1 DEF IInv, TypeOK, IsLog
    <3>3. D = {} => L = <<>>
      BY <3>2
    <3>. QED
      BY <1>2, <3>1, <3>2, <3>3 DEF IInv, TypeOK
  <2>2. RequestShape(r) /\ r.kind = "reap" /\ r.cur = s /\ r.stale = req[t].stale
        /\ r.seen = log[s]
    BY <1>1, <2>1 DEF RequestShape, HasFields
  <2>. HIDE DEF r
  <2>3. SlotInv("append", r, work[t], log)
    BY <1>1, <2>1, <2>2 DEF SlotInv, Flushes, Extends
  <2>. QED
    BY <1>2, <2>2, <2>3, SlotMoves DEF Step, r
<1>3. CASE Step(t, IF req[t].stale = {s} THEN "commit" ELSE "read",
                [req[t] EXCEPT !.stale = @ \ {s}], work[t])
  <2>. DEFINE r == [req[t] EXCEPT !.stale = @ \ {s}]
              to == IF req[t].stale = {s} THEN "commit" ELSE "read"
  <2>1. RequestShape(r) /\ r.kind = "reap" /\ r.stale \subseteq req[t].stale
        /\ r.cur = req[t].cur
    BY <1>1 DEF RequestShape, HasFields
  <2>2. Step(t, to, r, work[t]) /\ to \in {"commit", "read"}
    BY <1>3
  <2>. HIDE DEF r, to
  <2>3. SlotInv(to, r, work[t], log)
    BY <1>1, <2>1, <2>2 DEF SlotInv, Flushes
  <2>. QED
    BY <2>1, <2>2, <2>3, SlotMoves DEF Step
<1>. QED
  BY <1>2, <1>3 DEF ReapRead

(* The reaper flushing its stop: its time is that of an event it has read,
   which is still on record. *)
LEMMA ReapFlushSlot ==
    ASSUME IInv, LInv, [Next]_vars, NEW t \in Tx, FlushEvents(t), req[t].kind = "reap"
    PROVE  LInv'
<1>. DEFINE s == req[t].cur
            f == Flushed(t, work[t])
            A == Added(t)
            w == [f EXCEPT !.ins[s] = Merged(@, A)]
<1>1. /\ RequestShape(req[t]) /\ WorkShape(work[t]) /\ Progress(pc[t], req[t], work[t])
      /\ SlotInv(pc[t], req[t], work[t], log)
      /\ pc[t] = "append" /\ Step(t, "derive", req[t], w) /\ IsLog(A)
  BY SlotGood DEF Good, LInv, FlushEvents, CanAppend
<1>2. /\ s \in req[t].stale /\ s \in work[t].held /\ s \in SessionIds
      /\ DOMAIN work[t].ins[s] = {}
  BY <1>1 DEF Progress, RequestShape, SlotInv, Flushes
<1>3. ClosesRecord(A, log[s])
  <2>1. IsLog(req[t].seen) /\ DOMAIN req[t].seen # {} /\ Extends(req[t].seen, log[s])
    BY <1>1 DEF RequestShape, SlotInv
  <2>2. PICK m \in DOMAIN req[t].seen : LastEventAt(req[t].seen) = req[t].seen[m].at
    BY <2>1, LastEventOnRecord
  <2>3. m \in DOMAIN log[s] /\ LastEventAt(req[t].seen) = log[s][m].at
    BY <2>1, <2>2 DEF Extends
  <2>4. A = Only(NextSeq(req[t].seen), [type |-> "stop", at |-> LastEventAt(req[t].seen)])
    BY DEF Added
  <2>5. PICK n : n = NextSeq(req[t].seen)
    OBVIOUS
  <2>6. DOMAIN A = {n} /\ A[n] = [type |-> "stop", at |-> log[s][m].at]
    BY <2>3, <2>4, <2>5 DEF Only
  <2>. QED
    BY <2>3, <2>6 DEF ClosesRecord
<1>. HIDE DEF A
<1>4. Merged(work[t].ins[s], A) = A
  <2>1. PICK D \in SUBSET (1..MaxSeq) : A \in [D -> Event]
    BY <1>1 DEF IsLog
  <2>. QED
    BY <1>2, <2>1 DEF Merged
<1>5. /\ WorkShape(f) /\ f.held = work[t].held /\ f.base = work[t].base
      /\ f.ins = work[t].ins /\ f.notes = work[t].notes
  BY FlushedGood
<1>. HIDE DEF f
<1>6. /\ w.ins = [x \in SessionIds |-> IF x = s THEN A ELSE work[t].ins[x]]
      /\ w.held = work[t].held /\ w.base = work[t].base /\ w.notes = work[t].notes
  BY <1>1, <1>4, <1>5 DEF WorkShape, HasFields
<1>. HIDE DEF w
<1>7. SlotInv("derive", req[t], w, log)
  BY <1>1, <1>2, <1>3, <1>6 DEF SlotInv, Flushes
<1>. QED
  BY <1>1, <1>2, <1>7, SlotMoves DEF Step

(* The reaper closing the row. *)
LEMMA DeriveReapSlot ==
    ASSUME IInv, LInv, [Next]_vars, NEW t \in Tx, DeriveReap(t) PROVE LInv'
<1>. DEFINE s == req[t].cur
            d == DeriveTimeline(Merged(req[t].seen, Added(t)), req[t].clock)
            o == WithVerdict(AutoClosed(work[t].obj[s], d), Verdict({"marathon_session"}))
            w == [work[t] EXCEPT !.changed = @ \cup {s}, !.obj[s] = o,
                                 !.notes[s] = @ \cup {AutoClose}]
            r == [req[t] EXCEPT !.stale = @ \ {s}]
            to == IF req[t].stale = {s} THEN "commit" ELSE "read"
<1>1. /\ RequestShape(req[t]) /\ WorkShape(work[t]) /\ Progress(pc[t], req[t], work[t])
      /\ SlotInv(pc[t], req[t], work[t], log)
      /\ pc[t] = "derive" /\ req[t].kind = "reap" /\ Step(t, to, r, w)
  BY SlotGood DEF Good, LInv, DeriveReap
<1>2. s \in SessionIds /\ to \in {"commit", "read"}
  BY <1>1 DEF Progress, RequestShape
<1>. HIDE DEF o
<1>3. /\ w.notes = [work[t].notes EXCEPT ![s] = @ \cup {AutoClose}]
      /\ w.ins = work[t].ins /\ w.held = work[t].held /\ w.base = work[t].base
  BY <1>1 DEF WorkShape, HasFields
<1>4. RequestShape(r) /\ r.kind = "reap" /\ r.stale = req[t].stale \ {s} /\ r.cur = s
  BY <1>1 DEF RequestShape, HasFields
<1>. HIDE DEF w, r, to
<1>5. \A x \in SessionIds :
        w.notes[x] = IF x = s THEN work[t].notes[x] \cup {AutoClose} ELSE work[t].notes[x]
  BY <1>1, <1>3 DEF WorkShape
<1>6. r.stale \subseteq SessionIds
  BY <1>4 DEF RequestShape
<1>7. SlotInv(to, r, w, log)
  <2>1. \A x \in SessionIds : Flushes(to, r, w, x, log)
    BY <1>1, <1>2, <1>3, <1>5 DEF SlotInv, Flushes
  <2>2. \A x \in r.stale : AutoClose \notin w.notes[x]
    BY <1>1, <1>4, <1>5, <1>6 DEF SlotInv
  <2>. QED
    BY <1>1, <1>2, <1>3, <1>4, <2>1, <2>2 DEF SlotInv
<1>. QED
  BY <1>1, <1>2, <1>4, <1>7, SlotMoves DEF Step

(* A slot that is freed is in order. *)
LEMMA FinishSlot ==
    ASSUME IInv, LInv, [Next]_vars, NEW t \in Tx, Finish(t) PROVE LInv'
<1>1. SlotInv("idle", NoReq, EmptyWork, log)
  BY NoReqShape DEF SlotInv
<1>. QED
  BY <1>1, NoReqShape, SlotMoves DEF Finish

(* Every step keeps LInv. *)
LEMMA NextSlots == IInv /\ LInv /\ [Next]_vars => LInv'
<1>. SUFFICES ASSUME IInv, LInv, [Next]_vars PROVE LInv'
  OBVIOUS
<1>1. CASE UNCHANGED <<pc, req, work>>
  <2>. SUFFICES ASSUME NEW t \in Tx PROVE SlotInv(pc'[t], req'[t], work'[t], log')
    BY DEF LInv
  <2>1. /\ RequestShape(req[t]) /\ SlotInv(pc[t], req[t], work[t], log)
        /\ (req[t].kind = "reap" /\ pc[t] \in {"append", "derive"})
             => req[t].cur \in SessionIds
    BY SlotGood DEF LInv, Good, Progress, RequestShape
  <2>. QED
    BY <1>1, <2>1, SlotGrows, Grown
<1>2. ASSUME NEW t \in Tx, Arrive(t) \/ BeginReap(t) PROVE LInv'
  BY <1>2, ArriveSlot, BeginReapSlot
<1>3. ASSUME NEW t \in Tx, Proceed(t) PROVE LInv'
  <2>1. CASE CommitStart(t) \/ Commit(t)
    BY <2>1, FinishSlot DEF CommitStart, Commit
  <2>2. CASE \E s \in SessionIds : ReapRead(t, s)
    BY <2>2, ReapReadSlot
  <2>. QED
    BY <1>3, <2>1, <2>2, UserSteps, ReapFlushSlot, DeriveReapSlot DEF Proceed
<1>4. ASSUME NEW t \in Tx, Abort(t) PROVE LInv'
  BY <1>4, FinishSlot DEF Abort
<1>5. CASE Tick \/ \E u \in Users, s \in SessionIds, span \in ManualSpans : CreateManual(u, s, span)
  BY <1>1, <1>5 DEF Tick, CreateManual
<1>6. CASE UNCHANGED vars
  BY <1>1, <1>6 DEF vars
<1>. QED
  BY <1>2, <1>3, <1>4, <1>5, <1>6 DEF Next

(* LInv holds of every behaviour. *)
LEMMA LedgerInductive == Spec => [](IInv /\ LInv)
<1>1. Init => LInv
  BY NoReqShape DEF Init, LInv, SlotInv
<1>. QED
  BY <1>1, InitSafe, NextSafe, NextSlots, PTL DEF Spec
-----------------------------------------------------------------------------
(* Refinement.                                                             *)

Mapped == [s \in SessionIds |-> Owner(s)]

(* A recorded log that a commit has not added to is the same log. *)
LEMMA NothingAdded ==
    ASSUME IInv, NEW t \in Tx, NEW s \in SessionIds, DOMAIN work[t].ins[s] = {}
    PROVE  Merged(work[t].ins[s], log[s]) = log[s]
<1>1. PICK L : L = log[s]
  OBVIOUS
<1>2. PICK D \in SUBSET (1..MaxSeq) : L \in [D -> Event]
  BY <1>1 DEF IInv, TypeOK, IsLog
<1>3. Merged(work[t].ins[s], L) = L
  BY <1>2 DEF Merged
<1>. QED
  BY <1>1, <1>3

(* Logs that share no number, put together. *)
LEMMA MergedApart ==
    ASSUME NEW A, NEW B, DOMAIN A \cap DOMAIN B = {}
    PROVE  /\ DOMAIN Merged(A, B) = DOMAIN A \cup DOMAIN B
           /\ \A n \in DOMAIN A : Merged(A, B)[n] = A[n]
           /\ \A n \in DOMAIN B : Merged(A, B)[n] = B[n]
  BY DEF Merged

(* A commit leaves of a row what ResultRow says. *)
LEMMA CommitRow ==
    ASSUME IInv, NEW t \in Tx, Commit(t), NEW s \in SessionIds
    PROVE  /\ sessions'[s] = Result(t, s) /\ log'[s] = Merged(work[t].ins[s], log[s])
           /\ audit'[s] = audit[s] \cup work[t].notes[s]
           /\ s \in Dirty(t) => RowOK(Result(t, s))
  BY DEF Commit, Committable

(* A commit of the reaper closes abandoned sessions. *)
LEMMA ReapCommits ==
    ASSUME IInv, LInv, NEW t \in Tx, Commit(t), req[t].kind = "reap"
    PROVE  Promised!CloseAbandoned
<1>1. /\ SlotInv("commit", req[t], work[t], log) /\ pc[t] = "commit"
      /\ WorkShape(work[t])
  BY SlotGood DEF LInv, Commit, Good
<1>2. ASSUME NEW s \in SessionIds PROVE Owner(s)' = Owner(s)
  <2>1. ~Fresh(t, s)
    BY <1>1 DEF SlotInv, Fresh, Held
  <2>2. s \in Dirty(t) => RowOK(Result(t, s))
    BY CommitRow
  <2>3. /\ sessions[s] # None =>
             Result(t, s) # None /\ Result(t, s).owner = sessions[s].owner
        /\ sessions[s] = None => Result(t, s) = None
    BY <2>1, <2>2, ResultRow
  <2>. QED
    BY <2>3, CommitRow DEF Owner
<1>3. AutoClosedRows \subseteq AutoClosedRows'
  BY CommitRow DEF AutoClosedRows
<1>4. ASSUME NEW s \in SessionIds
      PROVE  IF log'[s] = log[s] THEN s \in AutoClosedRows' => s \in AutoClosedRows
             ELSE s \in AutoClosedRows' /\ Promised!Closes(log[s], log'[s])
  <2>1. Flushes("commit", req[t], work[t], s, log)
    BY <1>1 DEF SlotInv
  <2>2. CASE AutoClose \in work[t].notes[s]
    <3>1. ClosesRecord(work[t].ins[s], log[s])
      BY <2>1, <2>2 DEF Flushes
    <3>2. /\ DOMAIN work[t].ins[s] \cap DOMAIN log[s] = {}
          /\ IsLog(work[t].ins[s]) /\ IsLog(log[s])
      BY <1>1, SlotGood DEF Good, WorkInv, WorkShape, IInv, TypeOK
    <3>3. /\ DOMAIN log'[s] = DOMAIN work[t].ins[s] \cup DOMAIN log[s]
          /\ \A n \in DOMAIN work[t].ins[s] : log'[s][n] = work[t].ins[s][n]
          /\ \A n \in DOMAIN log[s] : log'[s][n] = log[s][n]
      <4>1. log'[s] = Merged(work[t].ins[s], log[s])
        BY CommitRow
      <4>2. PICK A, B : A = work[t].ins[s] /\ B = log[s]
        OBVIOUS
      <4>3. /\ DOMAIN Merged(A, B) = DOMAIN A \cup DOMAIN B
            /\ \A n \in DOMAIN A : Merged(A, B)[n] = A[n]
            /\ \A n \in DOMAIN B : Merged(A, B)[n] = B[n]
        <5>1. DOMAIN A \cap DOMAIN B = {}
          BY <3>2, <4>2
        <5>. QED
          BY <5>1, MergedApart
      <4>. QED
        BY <4>1, <4>2, <4>3
    <3>4. Promised!Closes(log[s], log'[s])
      BY <3>1, <3>2, <3>3 DEF ClosesRecord, Promised!Closes, Promised!Extends
    <3>5. s \in AutoClosedRows' /\ log'[s] # log[s]
      BY <2>2, <3>1, <3>2, <3>3, CommitRow DEF AutoClosedRows, ClosesRecord
    <3>. QED
      BY <3>4, <3>5
  <2>3. CASE AutoClose \notin work[t].notes[s]
    <3>1. log'[s] = log[s]
      BY <2>1, <2>3, NothingAdded, CommitRow DEF Flushes
    <3>2. s \in AutoClosedRows' => s \in AutoClosedRows
      BY <2>3, CommitRow DEF AutoClosedRows
    <3>. QED
      BY <3>1, <3>2
  <2>. QED
    BY <2>2, <2>3
<1>5. Mapped' = Mapped
  BY <1>2 DEF Mapped
<1>. QED
  BY <1>3, <1>4, <1>5 DEF Promised!CloseAbandoned, Mapped

(* A commit of a user's request records for that user. *)
LEMMA UserCommits ==
    ASSUME IInv, LInv, NEW t \in Tx, Commit(t), req[t].kind # "reap"
    PROVE  \E u \in Users : Promised!Record(u)
<1>. DEFINE u == req[t].user
<1>1. /\ SlotInv("commit", req[t], work[t], log) /\ WorkShape(work[t])
      /\ Own(req[t], work[t]) /\ WorkInv(work[t])
      /\ u \in Users /\ u # None
  BY SlotGood, SessionsAssumption DEF LInv, Commit, Good, Progress, SlotInv
<1>2. ASSUME NEW s \in SessionIds
      PROVE  \/ Owner(s)' = Owner(s) /\ log'[s] = log[s]
             \/ Owner(s) \in {u, None} /\ Owner(s)' = u /\ Promised!Extends(log[s], log'[s])
  <2>1. s \in Dirty(t) => RowOK(Result(t, s))
    BY CommitRow
  <2>2. CASE s \notin work[t].held
    <3>1. log'[s] = log[s]
      BY <1>1, <2>2, NothingAdded, CommitRow DEF WorkInv
    <3>2. sessions'[s] = sessions[s]
      BY <2>2, CommitRow DEF Result, Held
    <3>. QED
      BY <3>1, <3>2 DEF Owner
  <2>3. CASE s \in work[t].held
    <3>1. Owner(s)' = u
      <4>1. CASE Fresh(t, s)
        BY <1>1, <2>1, <2>3, <4>1, ResultRow, CommitRow DEF Own, Owner, Fresh
      <4>2. CASE ~Fresh(t, s)
        <5>1. sessions[s] # None /\ sessions[s].owner = u
          BY <1>1, <2>3, <4>2 DEF Own, WorkInv, Fresh, Held
        <5>. QED
          BY <2>1, <5>1, ResultRow, CommitRow DEF Owner
      <4>. QED
        BY <4>1, <4>2
    <3>2. Owner(s) \in {u, None}
      <4>1. CASE Fresh(t, s)
        BY <2>1, <4>1, ResultRow DEF Owner
      <4>2. CASE ~Fresh(t, s)
        BY <1>1, <2>3, <4>2 DEF Own, WorkInv, Fresh, Held, Owner
      <4>. QED
        BY <4>1, <4>2
    <3>3. Promised!Extends(log[s], log'[s])
      <4>1. /\ DOMAIN work[t].ins[s] \cap DOMAIN log[s] = {}
            /\ IsLog(work[t].ins[s]) /\ IsLog(log[s])
        BY <1>1 DEF WorkInv, WorkShape, IInv, TypeOK
      <4>2. log'[s] = Merged(work[t].ins[s], log[s])
        BY CommitRow
      <4>3. /\ DOMAIN log'[s] = DOMAIN work[t].ins[s] \cup DOMAIN log[s]
            /\ \A n \in DOMAIN log[s] : log'[s][n] = log[s][n]
        <5>1. PICK A, B : A = work[t].ins[s] /\ B = log[s]
          OBVIOUS
        <5>2. DOMAIN A \cap DOMAIN B = {}
          BY <4>1, <5>1
        <5>3. /\ DOMAIN Merged(A, B) = DOMAIN A \cup DOMAIN B
              /\ \A n \in DOMAIN B : Merged(A, B)[n] = B[n]
          BY <5>2, MergedApart
        <5>. QED
          BY <4>2, <5>1, <5>3
      <4>. QED
        BY <4>3 DEF Promised!Extends
    <3>. QED
      BY <3>1, <3>2, <3>3
  <2>. QED
    BY <2>2, <2>3
<1>3. AutoClosedRows' = AutoClosedRows
  <2>1. req[t].kind # "none"
    BY SlotGood DEF Good, Progress, Commit
  <2>2. \A s \in SessionIds : AutoClose \notin work[t].notes[s]
    BY <1>1, <2>1 DEF SlotInv
  <2>3. \A s \in SessionIds : audit'[s] = audit[s] \cup work[t].notes[s]
    BY CommitRow
  <2>. QED
    BY <2>2, <2>3 DEF AutoClosedRows
<1>. HIDE DEF u
<1>4. Promised!Record(u)
  BY <1>2, <1>3 DEF Promised!Record
<1>. QED
  BY <1>1, <1>4
(* A session begun live is recorded for the user who began it. *)
LEMMA StartRecords ==
    ASSUME IInv, NEW t \in Tx, CommitStart(t) PROVE \E u \in Users : Promised!Record(u)
<1>0. PICK s \in SessionIds, u \in Users, at \in Nat :
        s = req[t].cur /\ u = req[t].user /\ at = req[t].at
  BY SlotGood DEF Good, Progress, RequestShape, CommitStart
<1>. DEFINE row == TimerRow(u, at)
<1>1. /\ Insertable(t, u, s) /\ req[t].kind = "start" /\ pc[t] = "insert"
      /\ sessions' = [sessions EXCEPT ![s] = row]
      /\ \E e : log' = [log EXCEPT ![s] = e]
      /\ audit' = audit
  BY <1>0 DEF CommitStart, CanInsert
<1>3. row \in Row /\ row.owner = u
  BY DEF TimerRow, Row, Source, Status, Integrity
<1>4. row # None
  BY <1>3, NoneIsNoRow
<1>5. sessions[s] = None /\ DOMAIN log[s] = {}
  BY <1>1 DEF Insertable, IInv, Committed, NoRowNoLog
<1>. HIDE DEF row
<1>6. Owner(s) = None /\ Owner(s)' = u
  BY <1>1, <1>3, <1>4, <1>5 DEF Owner, IInv, TypeOK
<1>7. Promised!Extends(log[s], log'[s])
  BY <1>5 DEF Promised!Extends
<1>8. \A x \in SessionIds \ {s} : Owner(x)' = Owner(x) /\ log'[x] = log[x]
  BY <1>1 DEF Owner, IInv, TypeOK
<1>9. AutoClosedRows' = AutoClosedRows
  BY <1>1 DEF AutoClosedRows
<1>10. Promised!Record(u)
  <2>1. ASSUME NEW x \in SessionIds
        PROVE  \/ Owner(x)' = Owner(x) /\ log'[x] = log[x]
               \/ Owner(x) \in {u, None} /\ Owner(x)' = u /\ Promised!Extends(log[x], log'[x])
    BY <1>6, <1>7, <1>8
  <2>. QED
    BY <1>9, <2>1 DEF Promised!Record
<1>. QED
  BY <1>10

(* An entry made by hand is recorded for the user who made it. *)
LEMMA ManualRecords ==
    ASSUME IInv, NEW u \in Users, NEW x \in SessionIds, NEW span \in ManualSpans,
           CreateManual(u, x, span)
    PROVE  Promised!Record(u)
<1>. DEFINE row == ManualRow(u, span[1], span[2])
<1>1. /\ sessions[x] = None
      /\ sessions' = [sessions EXCEPT ![x] = row]
      /\ audit' = [audit EXCEPT ![x] = @ \cup {ManualCreated}]
      /\ log' = log
  BY DEF CreateManual
<1>2. row.owner = u /\ sessions' \in [SessionIds -> Row \cup {None}]
  BY CreateManualSafe DEF ManualRow, IInv, TypeOK
<1>. HIDE DEF row
<1>3. ASSUME NEW s \in SessionIds
      PROVE  \/ Owner(s)' = Owner(s) /\ log'[s] = log[s]
             \/ Owner(s) \in {u, None} /\ Owner(s)' = u /\ Promised!Extends(log[s], log'[s])
  <2>1. CASE s = x
    <3>1. Owner(s) = None /\ Owner(s)' \in {None, u}
      BY <1>1, <1>2, <2>1 DEF Owner, IInv, TypeOK
    <3>. QED
      BY <1>1, <3>1 DEF Promised!Extends
  <2>2. CASE s # x
    BY <1>1, <2>2 DEF Owner, IInv, TypeOK
  <2>. QED
    BY <2>1, <2>2
<1>4. AutoClosedRows' = AutoClosedRows
  BY <1>1 DEF AutoClosedRows, IInv, TypeOK, Entry, AutoClose, ManualCreated
<1>. QED
  BY <1>3, <1>4 DEF Promised!Record

(* A step that commits nothing is a stutter of the ledger. *)
LEMMA NothingRecorded == ASSUME UNCHANGED db PROVE UNCHANGED Promised!ledger
<1>1. \A s \in SessionIds : Owner(s)' = Owner(s)
  BY DEF db, Owner
<1>. QED
  BY <1>1 DEF db, AutoClosedRows, Promised!ledger

(* Every step of the service is a step of the ledger or leaves it alone. *)
LEMMA NextRefines == IInv /\ LInv /\ [Next]_vars => [Promised!Next]_(Promised!ledger)
<1>. SUFFICES ASSUME IInv, LInv, [Next]_vars
              PROVE  Promised!Next \/ UNCHANGED Promised!ledger
  OBVIOUS
<1>1. ASSUME NEW t \in Tx, Arrive(t) \/ BeginReap(t) PROVE UNCHANGED db
  <2>1. \E step, r, S : Begin(t, step, r, S)
    <3>1. CASE BeginReap(t)
      BY <3>1 DEF BeginReap
    <3>2. CASE \E u \in Users, batch \in Batches : BeginSync(t, u, batch)
      BY <3>2 DEF BeginSync
    <3>3. CASE \E u \in Users, s \in SessionIds, at \in OccurredAt : BeginStart(t, u, s, at)
      BY <3>3 DEF BeginStart
    <3>4. CASE \E u \in Users, s \in SessionIds, at \in OccurredAt :
                 \E type \in {"pause", "resume", "stop"} : BeginTransition(t, u, s, type, at)
      BY <3>4 DEF BeginTransition
    <3>. QED
      BY <1>1, <3>1, <3>2, <3>3, <3>4 DEF Arrive
  <2>. QED
    BY <2>1 DEF Begin
<1>2. ASSUME NEW t \in Tx, Proceed(t) PROVE Promised!Next \/ UNCHANGED db
  <2>1. CASE CommitStart(t)
    BY <2>1, StartRecords DEF Promised!Next
  <2>2. CASE Commit(t)
    BY <2>2, ReapCommits, UserCommits DEF Promised!Next
  <2>3. CASE LoadItem(t) \/ FlushRow(t) \/ ReadLog(t) \/ FlushEvents(t)
    BY <2>3 DEF LoadItem, FlushRow, ReadLog, FlushEvents, Step
  <2>4. CASE DeriveTransition(t) \/ DeriveSync(t) \/ DeriveReap(t)
    BY <2>4 DEF DeriveTransition, DeriveSync, DeriveReap, Step
  <2>5. CASE \E s \in SessionIds : ReapRead(t, s)
    BY <2>5 DEF ReapRead, Step
  <2>. QED
    BY <1>2, <2>1, <2>2, <2>3, <2>4, <2>5 DEF Proceed
<1>3. ASSUME NEW u \in Users, NEW s \in SessionIds, NEW span \in ManualSpans,
             CreateManual(u, s, span)
      PROVE  Promised!Next
  BY <1>3, ManualRecords DEF Promised!Next
<1>4. CASE Tick \/ \E t \in Tx : Abort(t)
  BY <1>4, NothingRecorded DEF Tick, Abort
<1>5. CASE UNCHANGED vars
  BY <1>5, NothingRecorded DEF vars, db
<1>6. UNCHANGED db => UNCHANGED Promised!ledger
  BY NothingRecorded
<1>7. CASE \E t \in Tx : Arrive(t) \/ BeginReap(t) \/ Proceed(t)
  <2>1. Promised!Next \/ UNCHANGED db
    BY <1>1, <1>2, <1>7
  <2>. QED
    BY <1>6, <2>1
<1>8. CASE \E u \in Users, s \in SessionIds, span \in ManualSpans : CreateManual(u, s, span)
  BY <1>3, <1>8
<1>. QED
  BY <1>4, <1>5, <1>7, <1>8 DEF Next

(* The service and the reaper implement the ledger, for any number of      *)
(* users, sessions, requests and uploads: only a session's first owner     *)
(* adds to its record, nothing recorded changes, and the reaper adds one   *)
(* stop at a recorded time or nothing, whoever else writes at the time.    *)
THEOREM ServiceImplementsLedger == Spec => ImplementsLedger
<1>1. Init => Promised!Init
  BY DEF Init, Promised!Init, Owner, AutoClosedRows
<1>. QED
  BY <1>1, LedgerInductive, NextRefines, PTL DEF Spec, ImplementsLedger, Promised!Spec
-----------------------------------------------------------------------------
(* The cached columns and the log.                                         *)

\* What the columns of o say is what the log L derives; the clock matters only
\* to the duration of a session that is running.
Matches(o, L) ==
    LET d == DeriveTimeline(L, 0)
    IN  /\ o.status = d.status
        /\ o.startedAt = d.startedAt
        /\ o.endedAt = d.endedAt
        /\ o.status = "completed" => o.duration = d.elapsed

(* The clock changes nothing but the time of an open interval, and a completed
   session has none. *)
LEMMA ClockFree ==
    ASSUME NEW L, NEW c, NEW c2
    PROVE  LET d == DeriveTimeline(L, c)
               e == DeriveTimeline(L, c2)
           IN  /\ d.status = e.status /\ d.startedAt = e.startedAt /\ d.endedAt = e.endedAt
               /\ d.status = "completed" => d.elapsed = e.elapsed
  BY DEF DeriveTimeline

(* What a request has put on a row matches the log it derived it from. *)
LEMMA ShownMatches ==
    ASSUME NEW o, NEW L, NEW c, Shows(o, DeriveTimeline(L, c))
    PROVE  Matches(o, L)
  BY ClockFree DEF Shows, Matches

(* A completed timeline keeps its first event's time and its end. *)
LEMMA DerivedFields ==
    ASSUME NEW L, NEW c
    PROVE  /\ DeriveTimeline(L, c).status = "completed" <=> Stopped(L)
           /\ DeriveTimeline(L, c).startedAt = L[Min(DOMAIN L)].at
  BY DEF DeriveTimeline, TimelineStatus

(* The numbers of a log are a finite set. *)
LEMMA LogFinite == ASSUME NEW L, IsLog(L) PROVE IsFiniteSet(DOMAIN L) /\ DOMAIN L \in SUBSET Nat
<1>1. PICK D \in SUBSET (1..MaxSeq) : L \in [D -> Event]
  BY DEF IsLog
<1>2. IsFiniteSet(1..MaxSeq) /\ DOMAIN L = D /\ D \subseteq 1..MaxSeq
  BY <1>1, FS_Interval, SessionsAssumption
<1>3. IsFiniteSet(DOMAIN L)
  BY <1>2, FS_Subset
<1>. QED
  BY <1>2, <1>3

(* An event after the last does not change which one is the first. *)
LEMMA FirstStays ==
    ASSUME NEW L, IsLog(L), DOMAIN L # {}, NEW e
    PROVE  LET M == Merged(L, Only(NextSeq(L), e))
           IN  M[Min(DOMAIN M)] = L[Min(DOMAIN L)]
<1>. DEFINE n == NextSeq(L)
            M == Merged(L, Only(n, e))
            D == DOMAIN L
<1>1. IsFiniteSet(D) /\ D \in SUBSET Nat
  BY LogFinite
<1>2. n = Max(D) + 1 /\ Max(D) \in D /\ \A y \in D : Max(D) >= y
  BY <1>1, HasMax, EmptyIsLog DEF NextSeq
<1>3. \A y \in D : y < n /\ y \in Nat
  BY <1>1, <1>2
<1>4. DOMAIN M = D \cup {n} /\ \A y \in D : M[y] = L[y]
  BY DEF Merged, Only
<1>5. PICK x \in D : \A y \in D : x <= y
  BY <1>1, NatLeast
<1>6. Min(D) = x
  BY <1>1, <1>5 DEF Min
<1>7. Min(D \cup {n}) = x
  <2>1. /\ x \in D \cup {n} /\ \A y \in D \cup {n} : x <= y
    <3>1. x \in Nat /\ n \in Nat /\ x < n
      BY <1>1, <1>2, <1>3
    <3>. HIDE DEF n
    <3>. QED
      BY <1>5, <3>1
  <2>2. ASSUME NEW z \in D \cup {n}, \A y \in D \cup {n} : z <= y PROVE z = x
    BY <1>1, <1>2, <1>5, <2>1, <2>2
  <2>. QED
    BY <2>1, <2>2 DEF Min
<1>. HIDE DEF n, M
<1>. QED
  BY <1>4, <1>6, <1>7 DEF n, M

-----------------------------------------------------------------------------
(* The cache, one request at a time.                                       *)
(*                                                                         *)
(* The row is written from the log that its request has read.  Requests    *)
(* that overlap may add to the log of one session between the read and the *)
(* write, and then the cache is wrong until the next sync; where requests  *)
(* follow one another, what a request holds is what is committed, and what *)
(* it has changed matches the log it will leave.                           *)

OneAtATime == \A t, t2 \in Tx : t = t2

ClosingEvent(L) == Only(NextSeq(L), [type |-> "stop", at |-> LastEventAt(L)])

\* The row whose events a request has flushed and whose timeline it has not
\* derived yet.
Pending(step, r, s) == step = "derive" /\ s = r.cur

FitSlot(step, r, w) ==
    /\ r.kind = "reap" =>
         /\ r.stale \cap w.changed = {} /\ \A s \in w.held : w.base[s] # None
         /\ step \in {"append", "derive"} => r.seen = log[r.cur] /\ DOMAIN log[r.cur] # {}
         /\ step = "derive" => w.ins[r.cur] = ClosingEvent(r.seen)
    /\ (step = "append" /\ r.kind = "sync") =>
         DOMAIN r.seen \subseteq DOMAIN log[r.cur] \cup DOMAIN w.ins[r.cur]
    /\ step = "derive" => DOMAIN log[r.cur] \cup DOMAIN w.ins[r.cur] # {}
    /\ \A s \in w.held :
         /\ w.base[s] \in {None, sessions[s]}
         /\ s \in w.changed => DOMAIN log[s] \cup DOMAIN w.ins[s] # {}
         /\ (s \in w.changed /\ ~Pending(step, r, s))
              => Matches(w.obj[s], Merged(log[s], w.ins[s]))
         /\ (s \notin w.changed /\ ~Pending(step, r, s)) => DOMAIN w.ins[s] = {}
         /\ (s \notin w.changed /\ w.base[s] = None)
              => s = r.cur /\ step \in {"read", "append", "derive"}

RowsMatch ==
    \A s \in SessionIds :
        (/\ sessions[s] # None
         /\ sessions[s].source = "timer" \/ DOMAIN log[s] # {})
            => Matches(sessions[s], log[s])

CInv == RowsMatch /\ \A t \in Tx : FitSlot(pc[t], req[t], work[t])

(* A step inside the only request keeps the invariant if it does in its slot. *)
LEMMA SlotFits ==
    ASSUME IInv, CInv, OneAtATime, NEW t \in Tx, UNCHANGED db,
           FitSlot(pc'[t], req'[t], work'[t])
    PROVE  CInv'
<1>1. RowsMatch'
  BY DEF CInv, RowsMatch, db
<1>2. ASSUME NEW t2 \in Tx PROVE FitSlot(pc[t2], req[t2], work[t2])'
  <2>1. FitSlot(pc'[t2], req'[t2], work'[t2])
    BY DEF OneAtATime
  <2>. QED
    BY <2>1 DEF FitSlot, db
<1>. QED
  BY <1>1, <1>2 DEF CInv

(* What a slot's step takes over from the step before. *)
LEMMA FitWork ==
    ASSUME IInv, CInv, NEW t \in Tx
    PROVE  /\ FitSlot(pc[t], req[t], work[t]) /\ WorkShape(work[t]) /\ WorkInv(work[t])
           /\ RequestShape(req[t]) /\ Progress(pc[t], req[t], work[t])
  BY SlotGood DEF CInv, Good

(* Opening a request keeps the invariant. *)
LEMMA ArriveFits ==
    ASSUME IInv, CInv, OneAtATime, NEW t \in Tx, Arrive(t) \/ BeginReap(t)
    PROVE  CInv'
<1>1. PICK step, r, S : /\ Begin(t, step, r, S) /\ S \in SUBSET SessionIds
                        /\ step \notin {"append", "derive"}
  <2>1. {} \in SUBSET SessionIds /\ Stale \in SUBSET SessionIds
        /\ \A s \in SessionIds : {s} \in SUBSET SessionIds
    BY DEF Stale
  <2>2. CASE BeginReap(t)
    BY <2>1, <2>2 DEF BeginReap
  <2>3. CASE \E u \in Users, s \in SessionIds, at \in OccurredAt : BeginStart(t, u, s, at)
    BY <2>1, <2>3 DEF BeginStart
  <2>4. CASE \E u \in Users, s \in SessionIds, at \in OccurredAt :
               \E type \in {"pause", "resume", "stop"} : BeginTransition(t, u, s, type, at)
    BY <2>1, <2>4 DEF BeginTransition
  <2>5. CASE \E u \in Users, batch \in Batches : BeginSync(t, u, batch)
    BY <2>1, <2>5 DEF BeginSync
  <2>. QED
    BY <2>2, <2>3, <2>4, <2>5 DEF Arrive
<1>2. UNCHANGED db /\ pc'[t] = step /\ req'[t] = r /\ work'[t] = Loaded(EmptyWork, S)
  BY <1>1 DEF Begin, IInv, TypeOK
<1>. DEFINE l == Loaded(EmptyWork, S)
            rows == {s \in S : sessions[s] # None}
<1>3. /\ l.held = {} \cup rows /\ l.changed = {}
      /\ \A s \in SessionIds : DOMAIN l.ins[s] = {}
      /\ \A s \in rows : l.base[s] = sessions[s]
  <2>1. /\ l.held = EmptyWork.held \cup rows /\ l.changed = EmptyWork.changed
        /\ l.ins = EmptyWork.ins
    BY DEF Loaded, EmptyWork
  <2>2. ASSUME NEW s \in rows PROVE l.base[s] = sessions[s]
    <3>1. s \in SessionIds
      BY <1>1
    <3>. QED
      BY <3>1 DEF Loaded, EmptyWork
  <2>. HIDE DEF l
  <2>. QED
    BY <1>1, <2>1, <2>2, EmptyIsLog DEF EmptyWork
<1>. HIDE DEF l
<1>4. FitSlot(step, r, l)
  BY <1>1, <1>3 DEF FitSlot
<1>. QED
  BY <1>2, <1>4, SlotFits DEF l

(* Looking up the row of an upload keeps the invariant. *)
LEMMA LoadItemFits ==
    ASSUME IInv, CInv, OneAtATime, NEW t \in Tx, LoadItem(t)
    PROVE  CInv'
<1>. DEFINE s == Incoming(t).id
            l == Loaded(work[t], {s})
<1>1. /\ pc[t] = "load" /\ UNCHANGED db /\ pc'[t] \in {"read", "insert"}
      /\ req'[t] = [req[t] EXCEPT !.cur = s]
      /\ work'[t] = IF Held(t, s) THEN work[t] ELSE l
  BY DEF LoadItem, Step, IInv, TypeOK
<1>2. /\ FitSlot(pc[t], req[t], work[t]) /\ WorkShape(work[t]) /\ WorkInv(work[t])
      /\ RequestShape(req[t]) /\ Progress(pc[t], req[t], work[t])
  BY FitWork
<1>3. req[t].kind = "sync" /\ s \in SessionIds
  BY <1>1, <1>2, IncomingShape DEF Progress
<1>4. req'[t].kind = "sync"
  BY <1>1, <1>2, <1>3 DEF RequestShape, HasFields
<1>5. CASE Held(t, s)
  <2>1. FitSlot(pc'[t], req'[t], work'[t])
    BY <1>1, <1>2, <1>4, <1>5 DEF FitSlot, Pending
  <2>. QED
    BY <1>1, <2>1, SlotFits
<1>6. CASE ~Held(t, s)
  <2>. DEFINE rows == {x \in {s} : sessions[x] # None}
  <2>1. /\ l.held = work[t].held \cup rows /\ l.changed = work[t].changed
        /\ l.ins = work[t].ins
        /\ l.base = [x \in SessionIds |-> IF x \in rows THEN sessions[x] ELSE work[t].base[x]]
        /\ l.obj = [x \in SessionIds |-> IF x \in rows THEN sessions[x] ELSE work[t].obj[x]]
    BY <1>2, <1>3, LoadedWork
  <2>. HIDE DEF l
  <2>2. s \notin work[t].held /\ DOMAIN work[t].ins[s] = {}
    BY <1>2, <1>3, <1>6 DEF WorkInv, Held
  <2>3. ASSUME NEW x \in l.held
        PROVE  /\ l.base[x] \in {None, sessions[x]}
               /\ x \in l.changed => DOMAIN log[x] \cup DOMAIN l.ins[x] # {}
               /\ x \in l.changed => Matches(l.obj[x], Merged(log[x], l.ins[x]))
               /\ x \notin l.changed => DOMAIN l.ins[x] = {}
               /\ x \notin l.changed => l.base[x] # None
    <3>1. CASE x \in rows
      <4>1. x = s /\ s \notin l.changed /\ sessions[s] # None
        BY <1>2, <2>1, <2>2, <3>1 DEF WorkShape
      <4>. QED
        BY <1>3, <2>1, <2>2, <3>1, <4>1
    <3>2. CASE x \notin rows
      <4>1. x \in work[t].held /\ x \in SessionIds
        BY <1>2, <2>1, <3>2 DEF WorkShape
      <4>. QED
        BY <1>1, <1>2, <2>1, <3>2, <4>1 DEF FitSlot, Pending
    <3>. QED
      BY <3>1, <3>2
  <2>4. FitSlot(pc'[t], req'[t], l)
    BY <1>1, <1>4, <2>3 DEF FitSlot, Pending
  <2>. QED
    BY <1>1, <1>6, <2>4, SlotFits
<1>. QED
  BY <1>5, <1>6

(* Flushing a new row keeps the invariant. *)
LEMMA FlushRowFits ==
    ASSUME IInv, CInv, OneAtATime, NEW t \in Tx, FlushRow(t)
    PROVE  CInv'
<1>. DEFINE s == req[t].cur
            w == work'[t]
<1>1. /\ pc[t] = "insert" /\ req[t].kind = "sync" /\ UNCHANGED db /\ pc'[t] = "read"
      /\ req'[t] = req[t]
  BY DEF FlushRow, Step, IInv, TypeOK
<1>2. /\ FitSlot(pc[t], req[t], work[t]) /\ WorkShape(work[t]) /\ WorkInv(work[t])
  BY FitWork
<1>3. /\ s \in SessionIds /\ s \notin work[t].held
      /\ w.held = work[t].held \cup {s} /\ w.changed = work[t].changed
      /\ w.base = work[t].base /\ w.ins = work[t].ins
      /\ \A x \in SessionIds \ {s} : w.obj[x] = work[t].obj[x]
  BY FlushRowWork
<1>. HIDE DEF w
<1>4. DOMAIN work[t].ins[s] = {} /\ work[t].base[s] = None /\ s \notin work[t].changed
  BY <1>2, <1>3 DEF WorkInv, WorkShape
<1>5. ASSUME NEW x \in w.held
      PROVE  /\ w.base[x] \in {None, sessions[x]}
             /\ x \in w.changed => DOMAIN log[x] \cup DOMAIN w.ins[x] # {}
             /\ x \in w.changed => Matches(w.obj[x], Merged(log[x], w.ins[x]))
             /\ x \notin w.changed => DOMAIN w.ins[x] = {}
             /\ (x \notin w.changed /\ w.base[x] = None) => x = s
  <2>1. CASE x = s
    BY <1>3, <1>4, <2>1
  <2>2. CASE x # s
    <3>1. x \in work[t].held /\ x \in SessionIds
      BY <1>2, <1>3, <2>2 DEF WorkShape
    <3>. QED
      BY <1>1, <1>2, <1>3, <2>2, <3>1 DEF FitSlot, Pending
  <2>. QED
    BY <2>1, <2>2
<1>6. FitSlot(pc'[t], req'[t], w)
  BY <1>1, <1>5 DEF FitSlot, Pending
<1>. QED
  BY <1>1, <1>6, SlotFits DEF w

(* Reading a log keeps the invariant. *)
LEMMA ReadFits ==
    ASSUME IInv, CInv, OneAtATime, NEW t \in Tx, ReadLog(t) \/ \E s \in SessionIds : ReapRead(t, s)
    PROVE  CInv'
<1>1. /\ FitSlot(pc[t], req[t], work[t]) /\ WorkShape(work[t])
      /\ RequestShape(req[t]) /\ Progress(pc[t], req[t], work[t])
  BY FitWork
<1>2. CASE ReadLog(t)
  <2>. DEFINE s == req[t].cur
  <2>1. /\ pc[t] = "read" /\ req[t].kind # "reap" /\ pc'[t] = "append" /\ work'[t] = work[t]
        /\ req'[t] = [req[t] EXCEPT !.seen = Merged(log[s], work[t].ins[s])] /\ UNCHANGED db
    BY <1>2 DEF ReadLog, Step, IInv, TypeOK
  <2>2. /\ req'[t].kind = req[t].kind /\ req'[t].cur = s
        /\ req'[t].seen = Merged(log[s], work[t].ins[s])
    BY <1>1, <2>1 DEF RequestShape, HasFields
  <2>3. DOMAIN req'[t].seen \subseteq DOMAIN log[s] \cup DOMAIN work[t].ins[s]
    BY <2>2 DEF Merged
  <2>4. FitSlot(pc'[t], req'[t], work'[t])
    BY <1>1, <2>1, <2>2, <2>3 DEF FitSlot, Pending
  <2>. QED
    BY <2>1, <2>4, SlotFits
<1>3. ASSUME NEW s \in SessionIds, ReapRead(t, s) PROVE CInv'
  <2>1. /\ pc[t] = "read" /\ req[t].kind = "reap" /\ s \in req[t].stale /\ work'[t] = work[t]
        /\ UNCHANGED db
        /\ \/ /\ pc'[t] = "append" /\ req'[t] = [req[t] EXCEPT !.cur = s, !.seen = log[s]]
              /\ log[s] # <<>>
           \/ /\ pc'[t] \in {"read", "commit"}
              /\ req'[t] = [req[t] EXCEPT !.stale = @ \ {s}]
    BY <1>3 DEF ReapRead, Step, IInv, TypeOK
  <2>2. CASE /\ pc'[t] = "append" /\ req'[t] = [req[t] EXCEPT !.cur = s, !.seen = log[s]]
             /\ log[s] # <<>>
    <3>1. /\ req'[t].kind = "reap" /\ req'[t].cur = s /\ req'[t].seen = log[s]
          /\ req'[t].stale = req[t].stale
      BY <1>1, <2>1, <2>2 DEF RequestShape, HasFields
    <3>2. DOMAIN log[s] # {}
      <4>1. PICK B : B = log[s]
        OBVIOUS
      <4>2. PICK D \in SUBSET (1..MaxSeq) : B \in [D -> Event]
        BY <4>1 DEF IInv, TypeOK, IsLog
      <4>3. DOMAIN B = {} => B = <<>>
        BY <4>2
      <4>. QED
        BY <2>2, <4>1, <4>3
    <3>3. FitSlot(pc'[t], req'[t], work'[t])
      BY <1>1, <2>1, <2>2, <3>1, <3>2 DEF FitSlot, Pending
    <3>. QED
      BY <2>1, <3>3, SlotFits
  <2>3. CASE /\ pc'[t] \in {"read", "commit"}
             /\ req'[t] = [req[t] EXCEPT !.stale = @ \ {s}]
    <3>1. req'[t].kind = "reap" /\ req'[t].stale = req[t].stale \ {s}
      BY <1>1, <2>1, <2>3 DEF RequestShape, HasFields
    <3>3. FitSlot(pc'[t], req'[t], work'[t])
      BY <1>1, <2>1, <2>3, <3>1 DEF FitSlot, Pending
    <3>. QED
      BY <2>1, <3>3, SlotFits
  <2>. QED
    BY <2>1, <2>2, <2>3
<1>. QED
  BY <1>2, <1>3

(* Flushing events leaves their session to be derived again, and only it. *)
LEMMA FlushEventsFits ==
    ASSUME IInv, CInv, OneAtATime, NEW t \in Tx, FlushEvents(t)
    PROVE  CInv'
<1>. DEFINE s == req[t].cur
            A == Added(t)
<1>1. /\ pc[t] = "append" /\ pc'[t] = "derive" /\ req'[t] = req[t] /\ UNCHANGED db
      /\ IsLog(A)
  BY DEF FlushEvents, CanAppend, Step, IInv, TypeOK
<1>2. /\ FitSlot(pc[t], req[t], work[t]) /\ WorkShape(work[t])
      /\ RequestShape(req[t]) /\ Progress(pc[t], req[t], work[t])
  BY FitWork
<1>3. /\ s \in work[t].held /\ s \in SessionIds
      /\ work'[t].held = work[t].held /\ work'[t].changed = work[t].changed
      /\ work'[t].base = work[t].base /\ work'[t].obj = work[t].obj
      /\ work'[t].ins[s] = Merged(work[t].ins[s], A)
      /\ \A x \in SessionIds \ {s} : work'[t].ins[x] = work[t].ins[x]
  BY FlushEventsWork
<1>4. DOMAIN work'[t].ins[s] = DOMAIN work[t].ins[s] \cup DOMAIN A
  BY <1>3 DEF Merged
<1>5. DOMAIN log[s] \cup DOMAIN work'[t].ins[s] # {}
  <2>1. CASE req[t].kind = "sync"
    <3>1. DOMAIN A = DOMAIN Incoming(t).events \ DOMAIN req[t].seen
      BY <2>1 DEF Added
    <3>2. DOMAIN req[t].seen \subseteq DOMAIN log[s] \cup DOMAIN work[t].ins[s]
      BY <1>1, <1>2, <2>1 DEF FitSlot
    <3>3. DOMAIN Incoming(t).events # {}
      <4>1. Incoming(t) \in Uploads
        BY <1>1, <2>1, IncomingShape DEF Incoming
      <4>2. IsLog(Incoming(t).events) /\ Incoming(t).events # <<>>
        BY <4>1, SessionsAssumption DEF IsPayload
      <4>3. PICK B : B = Incoming(t).events
        OBVIOUS
      <4>4. PICK D \in SUBSET (1..MaxSeq) : B \in [D -> Event]
        BY <4>2, <4>3 DEF IsLog
      <4>5. DOMAIN B = {} => B = <<>>
        BY <4>4
      <4>. QED
        BY <4>2, <4>3, <4>5
    <3>. QED
      BY <1>4, <3>1, <3>2, <3>3
  <2>2. CASE req[t].kind # "sync"
    <3>1. NextSeq(req[t].seen) \in DOMAIN A
      BY <2>2 DEF Added, Only
    <3>. QED
      BY <1>4, <3>1
  <2>. QED
    BY <2>1, <2>2
<1>6. req[t].kind = "reap" => work'[t].ins[s] = ClosingEvent(req[t].seen)
  <2>. SUFFICES ASSUME req[t].kind = "reap" PROVE work'[t].ins[s] = ClosingEvent(req[t].seen)
    OBVIOUS
  <2>1. A = ClosingEvent(req[t].seen)
    BY DEF Added, ClosingEvent
  <2>2. DOMAIN work[t].ins[s] = {}
    BY <1>1, <1>2, <1>3 DEF FitSlot, Progress, Pending
  <2>3. PICK B : B = A
    OBVIOUS
  <2>4. PICK D \in SUBSET (1..MaxSeq) : B \in [D -> Event]
    BY <1>1, <2>3 DEF IsLog
  <2>5. Merged(work[t].ins[s], B) = B
    BY <2>2, <2>4 DEF Merged
  <2>. QED
    BY <1>3, <2>1, <2>3, <2>5
<1>. HIDE DEF A
<1>7. ASSUME NEW x \in work[t].held, x # s
      PROVE  work'[t].ins[x] = work[t].ins[x] /\ x \in SessionIds
  BY <1>2, <1>3, <1>7 DEF WorkShape
<1>8. FitSlot(pc'[t], req'[t], work'[t])
  <2>1. ASSUME NEW x \in work[t].held
        PROVE  /\ work[t].base[x] \in {None, sessions[x]}
               /\ x \in work[t].changed => DOMAIN log[x] \cup DOMAIN work'[t].ins[x] # {}
               /\ (x \in work[t].changed /\ x # s)
                    => Matches(work[t].obj[x], Merged(log[x], work'[t].ins[x]))
               /\ (x \notin work[t].changed /\ x # s) => DOMAIN work'[t].ins[x] = {}
               /\ (x \notin work[t].changed /\ work[t].base[x] = None) => x = s
    BY <1>1, <1>2, <1>5, <1>7 DEF FitSlot, Pending
  <2>. QED
    BY <1>1, <1>2, <1>3, <1>5, <1>6, <2>1 DEF FitSlot, Pending
<1>. QED
  BY <1>1, <1>8, SlotFits

(* A slot that has put a matching timeline on its pending row is sound. *)
LEMMA DerivedFits ==
    ASSUME IInv, CInv, OneAtATime, NEW t \in Tx, UNCHANGED db,
           pc[t] = "derive", pc'[t] \in {"load", "read", "commit"},
           req'[t].kind = req[t].kind,
           req'[t].kind = "reap" => req'[t].stale \subseteq req[t].stale \ {req[t].cur},
           req[t].cur \in work[t].held, req[t].cur \in SessionIds,
           work'[t].held = work[t].held, work'[t].changed = work[t].changed \cup {req[t].cur},
           work'[t].base = work[t].base, work'[t].ins = work[t].ins,
           \A x \in SessionIds \ {req[t].cur} : work'[t].obj[x] = work[t].obj[x],
           Matches(work'[t].obj[req[t].cur], Merged(log[req[t].cur], work[t].ins[req[t].cur]))
    PROVE  CInv'
<1>. DEFINE s == req[t].cur
<1>1. FitSlot(pc[t], req[t], work[t]) /\ WorkShape(work[t])
  BY FitWork
<1>2. ASSUME NEW x \in work[t].held
      PROVE  /\ work'[t].base[x] \in {None, sessions[x]}
             /\ x \in work'[t].changed => DOMAIN log[x] \cup DOMAIN work'[t].ins[x] # {}
             /\ x \in work'[t].changed => Matches(work'[t].obj[x], Merged(log[x], work'[t].ins[x]))
             /\ x \notin work'[t].changed => DOMAIN work'[t].ins[x] = {}
             /\ (x \notin work'[t].changed => work'[t].base[x] # None)
  <2>1. CASE x = s
    BY <1>1, <2>1 DEF FitSlot
  <2>2. CASE x # s
    <3>1. x \in SessionIds
      BY <1>1 DEF WorkShape
    <3>. QED
      BY <1>1, <2>2, <3>1 DEF FitSlot, Pending
  <2>. QED
    BY <2>1, <2>2
<1>3. req'[t].kind = "reap" => \A x \in work[t].held : work[t].base[x] # None
  BY <1>1 DEF FitSlot
<1>4. req'[t].kind = "reap" => req'[t].stale \cap work'[t].changed = {}
  BY <1>1 DEF FitSlot
<1>5. FitSlot(pc'[t], req'[t], work'[t])
  BY <1>2, <1>3, <1>4 DEF FitSlot, Pending
<1>. QED
  BY <1>5, SlotFits

(* Deriving keeps the invariant. *)
LEMMA DeriveFits ==
    ASSUME IInv, CInv, OneAtATime, NEW t \in Tx, DeriveTransition(t) \/ DeriveSync(t)
    PROVE  CInv'
<1>. DEFINE s == req[t].cur
            L == Merged(log[s], work[t].ins[s])
<1>1. /\ pc[t] = "derive" /\ s \in work[t].held /\ s \in SessionIds
      /\ work'[t].held = work[t].held /\ work'[t].changed = work[t].changed \cup {s}
      /\ work'[t].base = work[t].base /\ work'[t].ins = work[t].ins
      /\ \A x \in SessionIds \ {s} : work'[t].obj[x] = work[t].obj[x]
      /\ Shows(work'[t].obj[s], DeriveTimeline(L, req[t].clock))
  BY DeriveWork
<1>2. Matches(work'[t].obj[s], L)
  BY <1>1, ShownMatches
<1>3. /\ UNCHANGED db /\ pc'[t] \in {"load", "read", "commit"}
      /\ req'[t].kind = req[t].kind /\ req'[t].kind # "reap"
  <2>1. RequestShape(req[t])
    BY FitWork
  <2>2. CASE DeriveTransition(t)
    BY <2>2 DEF DeriveTransition, Step, IInv, TypeOK
  <2>3. CASE DeriveSync(t)
    <3>1. /\ UNCHANGED db /\ pc'[t] \in {"load", "commit"} /\ req[t].kind = "sync"
          /\ req'[t] = [req[t] EXCEPT !.batch = Tail(@)]
      BY <2>3 DEF DeriveSync, Step, IInv, TypeOK
    <3>. QED
      BY <2>1, <3>1 DEF RequestShape, HasFields
  <2>. QED
    BY <2>2, <2>3
<1>. HIDE DEF L
<1>. QED
  BY <1>1, <1>2, <1>3, DerivedFits DEF L

(* The reaper, too, leaves a row that matches its log, with the stop. *)
LEMMA DeriveReapFits ==
    ASSUME IInv, CInv, OneAtATime, NEW t \in Tx, DeriveReap(t)
    PROVE  CInv'
<1>. DEFINE s == req[t].cur
            L == log[s]
            M == Merged(L, work[t].ins[s])
            o == work'[t].obj[s]
<1>1. /\ FitSlot(pc[t], req[t], work[t]) /\ WorkShape(work[t]) /\ WorkInv(work[t])
      /\ RequestShape(req[t]) /\ Progress(pc[t], req[t], work[t])
  BY FitWork
<1>2. /\ req[t].kind = "reap" /\ UNCHANGED db /\ pc'[t] \in {"read", "commit"}
      /\ req'[t] = [req[t] EXCEPT !.stale = @ \ {s}]
  BY DEF DeriveReap, Step, IInv, TypeOK
<1>3. req'[t].kind = "reap" /\ req'[t].stale = req[t].stale \ {s}
  BY <1>1, <1>2 DEF RequestShape, HasFields
<1>4. /\ pc[t] = "derive" /\ s \in work[t].held /\ s \in SessionIds
      /\ work'[t].held = work[t].held /\ work'[t].changed = work[t].changed \cup {s}
      /\ work'[t].base = work[t].base /\ work'[t].ins = work[t].ins
      /\ \A x \in SessionIds \ {s} : work'[t].obj[x] = work[t].obj[x]
      /\ o.startedAt = work[t].obj[s].startedAt /\ o.status = "completed"
      /\ o.endedAt = DeriveTimeline(Merged(req[t].seen, Added(t)), req[t].clock).endedAt
      /\ o.duration = DeriveTimeline(Merged(req[t].seen, Added(t)), req[t].clock).elapsed
  BY DeriveReapWork
<1>5. /\ req[t].seen = L /\ DOMAIN L # {} /\ work[t].ins[s] = ClosingEvent(L)
      /\ work[t].base[s] = sessions[s] /\ sessions[s] # None /\ s \notin work[t].changed
  BY <1>1, <1>2, <1>4 DEF FitSlot, Progress
<1>6. Merged(req[t].seen, Added(t)) = M
  BY <1>2, <1>5 DEF Added, ClosingEvent
<1>7. Matches(sessions[s], L) /\ work[t].obj[s] = sessions[s]
  BY <1>1, <1>4, <1>5 DEF CInv, RowsMatch, WorkInv
<1>8. IsLog(L)
  BY <1>4 DEF IInv, TypeOK
<1>9. M[Min(DOMAIN M)] = L[Min(DOMAIN L)]
  <2>1. M = Merged(L, Only(NextSeq(L), [type |-> "stop", at |-> LastEventAt(L)]))
    BY <1>5 DEF ClosingEvent
  <2>. HIDE DEF L, M
  <2>. QED
    BY <1>5, <1>8, <2>1, FirstStays
<1>10. Stopped(M)
  <2>1. Stopped(work[t].ins[s]) /\ IsLog(work[t].ins[s]) /\ DOMAIN L \cap DOMAIN work[t].ins[s] = {}
    BY <1>1, <1>2, <1>4 DEF Progress, WorkShape, WorkInv
  <2>2. PICK B : B = work[t].ins[s]
    OBVIOUS
  <2>. HIDE DEF L
  <2>3. Stopped(Merged(L, B))
    BY <1>8, <2>1, <2>2, MergedStopped
  <2>. QED
    BY <2>2, <2>3
<1>11. sessions[s].startedAt = L[Min(DOMAIN L)].at
  BY <1>7, DerivedFields DEF Matches
<1>. HIDE DEF L, M, o
<1>12. Matches(o, M)
  <2>1. /\ DeriveTimeline(M, req[t].clock).status = "completed"
        /\ DeriveTimeline(M, 0).status = "completed"
        /\ DeriveTimeline(M, 0).startedAt = M[Min(DOMAIN M)].at
    BY <1>10, DerivedFields
  <2>2. /\ DeriveTimeline(M, req[t].clock).endedAt = DeriveTimeline(M, 0).endedAt
        /\ DeriveTimeline(M, req[t].clock).elapsed = DeriveTimeline(M, 0).elapsed
    BY <2>1, ClockFree
  <2>. QED
    BY <1>4, <1>6, <1>7, <1>9, <1>11, <2>1, <2>2 DEF Matches
<1>13. pc'[t] \in {"load", "read", "commit"}
  BY <1>2
<1>14. /\ Matches(work'[t].obj[req[t].cur], Merged(log[req[t].cur], work[t].ins[req[t].cur]))
       /\ req'[t].kind = req[t].kind
  BY <1>2, <1>3, <1>12 DEF o, M, L
<1>. QED
  BY <1>2, <1>3, <1>4, <1>13, <1>14, DerivedFits

(* A request that ends leaves an empty slot. *)
LEMMA FinishFits ==
    ASSUME IInv, CInv, OneAtATime, NEW t \in Tx, Finish(t), RowsMatch'
    PROVE  CInv'
<1>1. work'[t] = EmptyWork /\ pc'[t] = "idle" /\ req'[t] = NoReq
  BY DEF Finish, IInv, TypeOK
<1>2. ASSUME NEW t2 \in Tx PROVE FitSlot(pc[t2], req[t2], work[t2])'
  <2>1. t2 = t /\ EmptyWork.held = {}
    BY DEF OneAtATime, EmptyWork
  <2>. QED
    BY <1>1, <2>1, NoReqShape DEF FitSlot
<1>. QED
  BY <1>2 DEF CInv

(* What the only request leaves of a row it has changed: what it shows. *)
LEMMA CommittedRow ==
    ASSUME IInv, CInv, NEW t \in Tx, Commit(t), NEW s \in SessionIds
    PROVE  /\ s \in work[t].changed =>
                /\ s \in work[t].held
                /\ Matches(sessions'[s], log'[s])
                /\ Matches(work[t].obj[s], log'[s])
           /\ s \notin work[t].changed => sessions'[s] = sessions[s] /\ log'[s] = log[s]
<1>1. /\ pc[t] = "commit" /\ sessions'[s] = Result(t, s)
      /\ log'[s] = Merged(work[t].ins[s], log[s])
  BY DEF Commit
<1>2. /\ FitSlot(pc[t], req[t], work[t]) /\ WorkShape(work[t]) /\ WorkInv(work[t])
  BY FitWork
<1>3. ASSUME s \notin work[t].changed PROVE sessions'[s] = sessions[s] /\ log'[s] = log[s]
  <2>1. DOMAIN work[t].ins[s] = {}
    BY <1>1, <1>2, <1>3 DEF FitSlot, Pending, WorkInv
  <2>2. s \notin Dirty(t)
    BY <1>1, <1>2, <1>3 DEF Dirty, Fresh, FitSlot
  <2>. QED
    BY <1>1, <2>1, <2>2, NothingAdded, ResultRow
<1>4. ASSUME s \in work[t].changed
      PROVE  /\ s \in work[t].held /\ Matches(sessions'[s], log'[s])
             /\ Matches(work[t].obj[s], log'[s])
  <2>1. s \in work[t].held /\ Matches(work[t].obj[s], Merged(log[s], work[t].ins[s]))
    BY <1>1, <1>2, <1>4 DEF FitSlot, Pending, WorkShape
  <2>2. Merged(log[s], work[t].ins[s]) = log'[s]
    <3>1. DOMAIN work[t].ins[s] \cap DOMAIN log[s] = {}
      BY <1>2 DEF WorkInv
    <3>2. PICK A, B : A = work[t].ins[s] /\ B = log[s]
      OBVIOUS
    <3>3. Merged(A, B) = Merged(B, A)
      BY <3>1, <3>2 DEF Merged
    <3>. QED
      BY <1>1, <3>2, <3>3
  <2>. DEFINE o == work[t].obj[s]
              K == log'[s]
  <2>3. Matches(o, K)
    BY <2>1, <2>2
  <2>. HIDE DEF o, K
  <2>4. Matches(sessions'[s], K)
    <3>1. CASE work[t].base[s] = None
      <4>1. Held(t, s) /\ Fresh(t, s)
        BY <2>1, <3>1 DEF Held, Fresh
      <4>2. sessions'[s] = o
        BY <1>1, <4>1 DEF Result, o
      <4>. QED
        BY <2>3, <4>2
    <3>2. CASE work[t].base[s] # None
      <4>1. /\ work[t].base[s] = sessions[s] /\ sessions[s] \in Row
        <5>1. work[t].base[s] \in {None, sessions[s]}
          BY <1>2, <2>1 DEF FitSlot
        <5>2. sessions[s] \in Row \cup {None}
          BY DEF IInv, TypeOK
        <5>. QED
          BY <3>2, <5>1, <5>2
      <4>2. sessions'[s] = Updated(sessions[s], sessions[s], o)
        <5>1. Held(t, s) /\ ~Fresh(t, s)
          BY <2>1, <3>2 DEF Held, Fresh
        <5>. QED
          BY <1>1, <4>1, <5>1 DEF Result, o
      <4>3. /\ sessions'[s].status = o.status /\ sessions'[s].startedAt = o.startedAt
            /\ sessions'[s].endedAt = o.endedAt /\ sessions'[s].duration = o.duration
        BY <4>1, <4>2 DEF Updated, Column, Row
      <4>. QED
        BY <2>3, <4>3 DEF Matches
    <3>. QED
      BY <3>1, <3>2
  <2>. QED
    BY <2>1, <2>3, <2>4 DEF o, K
<1>. QED
  BY <1>3, <1>4

(* A commit leaves matching rows. *)
LEMMA CommitFits ==
    ASSUME IInv, CInv, OneAtATime, NEW t \in Tx, Commit(t)
    PROVE  CInv'
<1>1. RowsMatch'
  <2>. SUFFICES ASSUME NEW s \in SessionIds, sessions'[s] # None,
                       sessions'[s].source = "timer" \/ DOMAIN log'[s] # {}
                PROVE  Matches(sessions'[s], log'[s])
    BY DEF RowsMatch
  <2>. QED
    BY CommittedRow DEF CInv, RowsMatch
<1>2. Finish(t)
  BY DEF Commit
<1>. QED
  BY <1>1, <1>2, FinishFits

(* A session that has just started matches its start. *)
LEMMA CommitStartFits ==
    ASSUME IInv, CInv, OneAtATime, NEW t \in Tx, CommitStart(t)
    PROVE  CInv'
<1>. DEFINE s == req[t].cur
            e == [type |-> "start", at |-> req[t].at]
            M == log'[s]
<1>1. /\ pc[t] = "insert" /\ req[t].kind = "start" /\ Finish(t)
      /\ Insertable(t, req[t].user, s)
      /\ sessions' = [sessions EXCEPT ![s] = TimerRow(req[t].user, req[t].at)]
      /\ log' = [log EXCEPT ![s] = Merged(Only(1, e), @)]
  BY DEF CommitStart, CanInsert
<1>2. s \in SessionIds /\ sessions[s] = None /\ DOMAIN log[s] = {}
  BY <1>1, SlotGood DEF Good, Progress, Insertable, IInv, Committed, NoRowNoLog
<1>3. DOMAIN M = {1} /\ M[1] = e
  <2>1. log'[s] = Merged(Only(1, e), log[s])
    BY <1>1, <1>2 DEF IInv, TypeOK
  <2>2. DOMAIN Merged(Only(1, e), log[s]) = {1} \cup {} /\ Merged(Only(1, e), log[s])[1] = e
    BY <1>2 DEF Merged, Only
  <2>. QED
    BY <2>1, <2>2
<1>4. Min({1}) = 1 /\ Max({1}) = 1
  BY DEF Min, Max
<1>5. sessions'[s] = TimerRow(req[t].user, req[t].at)
  BY <1>1, <1>2 DEF IInv, TypeOK
<1>6. Matches(sessions'[s], M)
  <2>. HIDE DEF M
  <2>1. ~Stopped(M) /\ M[Max(DOMAIN M)].type = "start" /\ M[Min(DOMAIN M)].at = req[t].at
    BY <1>3, <1>4 DEF Stopped
  <2>2. LET d == DeriveTimeline(M, 0)
        IN  d.status = "active" /\ d.startedAt = req[t].at /\ d.endedAt = NoTime
    BY <2>1 DEF DeriveTimeline, TimelineStatus, Opening
  <2>. QED
    BY <1>5, <2>2 DEF Matches, TimerRow
<1>7. \A x \in SessionIds \ {s} : sessions'[x] = sessions[x] /\ log'[x] = log[x]
  BY <1>1 DEF IInv, TypeOK
<1>8. RowsMatch'
  BY <1>6, <1>7 DEF RowsMatch, CInv
<1>. QED
  BY <1>1, <1>8, FinishFits

(* Every step keeps the invariant. *)
LEMMA NextFits == OneAtATime /\ IInv /\ CInv /\ [Next]_vars => CInv'
<1>. SUFFICES ASSUME OneAtATime, IInv, CInv, [Next]_vars PROVE CInv'
  OBVIOUS
<1>1. CASE Tick \/ UNCHANGED vars
  <2>1. UNCHANGED <<sessions, log, pc, req, work>>
    BY <1>1 DEF Tick, vars, db
  <2>. QED
    BY <2>1 DEF CInv, RowsMatch, FitSlot
<1>2. ASSUME NEW u \in Users, NEW s \in SessionIds, NEW span \in ManualSpans,
             CreateManual(u, s, span)
      PROVE  CInv'
  <2>1. /\ sessions[s] = None /\ UNCHANGED <<log, pc, req, work>>
        /\ sessions'[s] = ManualRow(u, span[1], span[2])
        /\ \A x \in SessionIds \ {s} : sessions'[x] = sessions[x]
        /\ \A t \in Tx : s \notin work[t].held
        /\ DOMAIN log[s] = {}
    BY <1>2 DEF CreateManual, IInv, TypeOK, Committed, NoRowNoLog, Held
  <2>2. sessions'[s].source # "timer"
    BY <2>1 DEF ManualRow
  <2>3. RowsMatch'
    BY <2>1, <2>2 DEF CInv, RowsMatch
  <2>4. ASSUME NEW t \in Tx PROVE FitSlot(pc[t], req[t], work[t])'
    <3>1. FitSlot(pc[t], req[t], work[t]) /\ WorkShape(work[t])
      BY FitWork
    <3>2. \A x \in work[t].held : sessions'[x] = sessions[x]
      BY <2>1, <3>1 DEF WorkShape
    <3>. QED
      BY <2>1, <3>1, <3>2 DEF FitSlot
  <2>. QED
    BY <2>3, <2>4 DEF CInv
<1>3. ASSUME NEW t \in Tx, Arrive(t) \/ BeginReap(t) PROVE CInv'
  BY <1>3, ArriveFits
<1>4. ASSUME NEW t \in Tx, Abort(t) PROVE CInv'
  <2>1. Finish(t) /\ UNCHANGED <<sessions, log>>
    BY <1>4 DEF Abort, db
  <2>. QED
    BY <2>1, FinishFits DEF CInv, RowsMatch
<1>5. ASSUME NEW t \in Tx, Proceed(t) PROVE CInv'
  BY <1>5, LoadItemFits, FlushRowFits, ReadFits, FlushEventsFits, DeriveFits, DeriveReapFits,
     CommitStartFits, CommitFits DEF Proceed
<1>. QED
  BY <1>1, <1>2, <1>3, <1>4, <1>5 DEF Next

(* The empty database meets the invariant. *)
LEMMA InitFits == Init => CInv
<1>. SUFFICES ASSUME Init PROVE CInv
  OBVIOUS
<1>1. ASSUME NEW t \in Tx PROVE FitSlot(pc[t], req[t], work[t])
  <2>1. pc[t] = "idle" /\ req[t] = NoReq /\ work[t].held = {}
    BY DEF Init, EmptyWork
  <2>. QED
    BY <2>1, NoReqShape DEF FitSlot
<1>. QED
  BY <1>1 DEF Init, CInv, RowsMatch

(* Where requests follow one another, what the row of a timer session caches is
   what its event log derives, whatever is uploaded, in whatever order and
   however often (_apply_timeline and the reaper's own update). *)
THEOREM CacheIsDerived ==
    ASSUME OneAtATime
    PROVE  Spec => []CacheMatchesLog
<1>1. IInv /\ CInv => CacheMatchesLog
  <2>. SUFFICES ASSUME IInv, CInv, NEW s \in SessionIds, sessions[s] # None,
                       sessions[s].source = "timer"
                PROVE  CacheMatchesLog!(s)!2
    BY DEF CacheMatchesLog
  <2>1. Matches(sessions[s], log[s])
    BY DEF CInv, RowsMatch
  <2>. QED
    BY <2>1, ClockFree DEF Matches
<1>2. IInv /\ CInv /\ [Next]_vars => CInv'
  BY NextFits
<1>. QED
  BY <1>1, <1>2, InitFits, Inductive, PTL DEF Spec

(* No step of the only request credits a finished session again. *)
LEMMA NextKeepsCredit ==
    OneAtATime /\ IInv /\ CInv /\ [Next]_vars =>
      [\A t \in Tx, s \in SessionIds :
          (/\ req[t].kind = "sync" /\ pc[t] = "commit" /\ pc'[t] = "idle"
           /\ s \in work[t].changed /\ work[t].ins[s] = <<>>
           /\ sessions[s].status = "completed")
             => LET row == sessions'[s] old == sessions[s]
                IN  /\ row.status = "completed" /\ row.duration = old.duration
                    /\ row.startedAt = old.startedAt /\ row.endedAt = old.endedAt]_vars
<1>. SUFFICES ASSUME IInv, CInv, Next, NEW t \in Tx, NEW s \in SessionIds,
                     pc[t] = "commit", pc'[t] = "idle",
                     s \in work[t].changed, work[t].ins[s] = <<>>,
                     sessions[s].status = "completed"
              PROVE  /\ sessions'[s].status = "completed"
                     /\ sessions'[s].duration = sessions[s].duration
                     /\ sessions'[s].startedAt = sessions[s].startedAt
                     /\ sessions'[s].endedAt = sessions[s].endedAt
  OBVIOUS
<1>1. CASE Abort(t)
  BY <1>1 DEF Abort, db
<1>2. CASE Commit(t)
  <2>1. DOMAIN work[t].ins[s] = {} /\ s \in work[t].held /\ DOMAIN log[s] # {}
    <3>1. FitSlot(pc[t], req[t], work[t]) /\ WorkShape(work[t])
      BY FitWork
    <3>2. DOMAIN work[t].ins[s] = {} /\ s \in work[t].held
      BY <3>1, EmptyIsLog DEF WorkShape
    <3>3. DOMAIN log[s] \cup DOMAIN work[t].ins[s] # {}
      BY <3>1, <3>2 DEF FitSlot
    <3>. QED
      BY <3>2, <3>3
  <2>2. log'[s] = log[s]
    BY <1>2, <2>1, NothingAdded, CommitRow
  <2>3. sessions[s] # None
    BY <2>1 DEF IInv, Committed, NoRowNoLog
  <2>4. Matches(sessions[s], log[s])
    BY <2>1, <2>3 DEF CInv, RowsMatch
  <2>5. Matches(sessions'[s], log[s])
    BY <1>2, <2>2, CommittedRow
  <2>. QED
    BY <2>4, <2>5 DEF Matches
<1>3. ~CommitStart(t)
  BY DEF CommitStart
<1>. QED
  BY <1>1, <1>2, <1>3, WhoEnds

(* Where requests follow one another, a sync that adds no event to a finished
   session leaves the time it is credited as it was, however often it is
   retried (sync and _sync_one). *)
THEOREM RetriesKeepCredit ==
    ASSUME OneAtATime
    PROVE  Spec => RetryKeepsCredit
<1>1. IInv /\ CInv /\ [Next]_vars => CInv'
  BY NextFits
<1>. QED
  BY <1>1, NextKeepsCredit, InitFits, Inductive, PTL DEF Spec, RetryKeepsCredit
-----------------------------------------------------------------------------
(* No stretch of time is verified twice.                                   *)
(*                                                                         *)
(* Each request compares what it judges with the rows it can see.  Two     *)
(* requests that judge overlapping sessions at once would both pass; what  *)
(* prevents it is the running index: a new row goes in as a running one,   *)
(* so a user's new rows are in one open request at a time, and a row that  *)
(* is already committed is seen by every request.                          *)

Sendable == UNION {{b[i] : i \in DOMAIN b} : b \in Batches}

\* Devices send a session whole: what is uploaded of a session of a user is
\* the same events every time.
WholeSessions ==
    \A p, q \in Sendable :
        (p.id = q.id /\ p.subjectOf = q.subjectOf) => p.events = q.events

Sent(s, u, L) == \E p \in Sendable : p.id = s /\ p.subjectOf = u /\ L = p.events

\* Two sessions of user u are finished and overlap.
Clash(s, r, u) ==
    \E L, K : LET d == DeriveTimeline(L, 0) e == DeriveTimeline(K, 0)
              IN  /\ Sent(s, u, L) /\ Stopped(L)
                  /\ Sent(r, u, K) /\ Stopped(K)
                  /\ d.startedAt < e.endedAt /\ d.endedAt > e.startedAt
                  /\ d.endedAt # NoTime /\ e.endedAt # NoTime

IsNew(w, s) == s \in w.held /\ w.base[s] = None

\* What a request of user u holds of row s is whole.
UploadRow(step, r, w, s, L) ==
    IF w.base[s] # None
    THEN DOMAIN w.ins[s] = {} /\ Matches(w.base[s], L) /\ Matches(w.obj[s], L)
    ELSE /\ DOMAIN w.ins[s] = {} \/ Sent(s, r.user, w.ins[s])
         /\ s \in w.changed => Sent(s, r.user, w.ins[s]) /\ Matches(w.obj[s], w.ins[s])
         /\ s \notin w.changed => s = r.cur /\ step \in {"read", "append", "derive"}

UploadSlot(step, r, w) ==
    /\ r.kind \in {"none", "sync"}
    /\ step = "idle" => w.held = {}
    /\ r.batch \in Seq(Sendable)
    /\ step \in {"insert", "read", "append", "derive"} => Head(r.batch).subjectOf = r.user
    /\ step = "append" =>
         IF w.base[r.cur] # None THEN r.seen = Head(r.batch).events
         ELSE \/ DOMAIN r.seen = {} /\ DOMAIN w.ins[r.cur] = {}
              \/ r.seen = Head(r.batch).events /\ w.ins[r.cur] = Head(r.batch).events
    /\ (step = "derive" /\ w.base[r.cur] = None) => w.ins[r.cur] = Head(r.batch).events
    /\ \A s \in w.held : UploadRow(step, r, w, s, log[s])

\* Rows of user u that are, or are about to be, verified.
Ok(s, u) ==
    \/ sessions[s] # None /\ sessions[s].owner = u /\ sessions[s].integrity = "ok"
    \/ \E t \in Tx : /\ s \in work[t].changed /\ req[t].user = u
                     /\ work[t].obj[s].integrity = "ok"

RowsWhole ==
    \A s \in SessionIds : sessions[s] # None =>
        /\ sessions[s].source = "timer"
        /\ Sent(s, sessions[s].owner, log[s])
        /\ Matches(sessions[s], log[s])

\* A user's new rows are in one request.
NewRowsApart ==
    \A t, t2 \in Tx : \A s, r \in SessionIds :
        (t # t2 /\ IsNew(work[t], s) /\ IsNew(work[t2], r)) => req[t].user # req[t2].user

OneCounts ==
    \A s, r \in SessionIds : \A u \in Users \cup {None} :
        (s # r /\ Clash(s, r, u)) => ~(Ok(s, u) /\ Ok(r, u))

\* A new row that passed did so before any session it overlaps was on record.
NewOkIsAlone ==
    \A t \in Tx : \A s, r \in SessionIds :
        (/\ s # r /\ Clash(s, r, req[t].user)
         /\ IsNew(work[t], r) /\ r \in work[t].changed /\ work[t].obj[r].integrity = "ok")
           => sessions[s] = None \/ sessions[s].owner # req[t].user

VInv ==
    /\ RowsWhole
    /\ \A t \in Tx : UploadSlot(pc[t], req[t], work[t])
    /\ NewRowsApart
    /\ OneCounts
    /\ NewOkIsAlone

(* Overlap is mutual. *)
LEMMA ClashMutual == ASSUME NEW s, NEW r, NEW u, Clash(s, r, u) PROVE Clash(r, s, u)
<1>1. PICK L, K : LET d == DeriveTimeline(L, 0) e == DeriveTimeline(K, 0)
              IN  /\ Sent(s, u, L) /\ Stopped(L)
                  /\ Sent(r, u, K) /\ Stopped(K)
                  /\ d.startedAt < e.endedAt /\ d.endedAt > e.startedAt
                  /\ d.endedAt # NoTime /\ e.endedAt # NoTime
  BY DEF Clash
<1>2. LET d == DeriveTimeline(K, 0) e == DeriveTimeline(L, 0)
              IN  /\ Sent(r, u, K) /\ Stopped(K)
                  /\ Sent(s, u, L) /\ Stopped(L)
                  /\ d.startedAt < e.endedAt /\ d.endedAt > e.startedAt
                  /\ d.endedAt # NoTime /\ e.endedAt # NoTime
  BY <1>1
<1>. QED
  BY <1>2 DEF Clash

(* What is sent of a session of a user is one log, with an event. *)
LEMMA SentOnce ==
    ASSUME WholeSessions, NEW s, NEW u, NEW L, Sent(s, u, L)
    PROVE  /\ IsLog(L) /\ DOMAIN L # {}
           /\ \A K : Sent(s, u, K) => K = L
<1>1. PICK p \in Sendable : p.id = s /\ p.subjectOf = u /\ L = p.events
  BY DEF Sent
<1>2. p \in Uploads
  <2>1. PICK b \in Batches : p \in {b[i] : i \in DOMAIN b}
    BY DEF Sendable
  <2>2. b \in Seq(Uploads)
    BY SessionsAssumption
  <2>. QED
    BY <2>1, <2>2
<1>3. IsLog(L) /\ L # <<>>
  BY <1>1, <1>2, SessionsAssumption DEF IsPayload
<1>4. PICK D \in SUBSET (1..MaxSeq) : L \in [D -> Event]
  BY <1>3 DEF IsLog
<1>5. DOMAIN L # {}
  BY <1>3, <1>4
<1>6. \A K : Sent(s, u, K) => K = L
  BY <1>1 DEF Sent, WholeSessions
<1>. QED
  BY <1>3, <1>5, <1>6

(* A slot's facts, together. *)
LEMMA UploadWork ==
    ASSUME IInv, VInv, NEW t \in Tx
    PROVE  /\ UploadSlot(pc[t], req[t], work[t]) /\ WorkShape(work[t]) /\ WorkInv(work[t])
           /\ RequestShape(req[t]) /\ Progress(pc[t], req[t], work[t])
           /\ pc[t] # "idle" => req[t].kind = "sync" /\ Own(req[t], work[t])
<1>1. UploadSlot(pc[t], req[t], work[t]) /\ Good(t, pc[t], req[t], work[t])
  BY SlotGood DEF VInv
<1>. QED
  BY <1>1 DEF Good, UploadSlot, Progress

(* Nothing merged with a log is that log. *)
LEMMA MergedNothing ==
    ASSUME NEW L, IsLog(L), NEW E, DOMAIN E = {}
    PROVE  Merged(L, E) = L /\ Merged(E, L) = L
<1>1. PICK D \in SUBSET (1..MaxSeq) : L \in [D -> Event]
  BY DEF IsLog
<1>. QED
  BY <1>1 DEF Merged

(* A row of the user that is on record: its log is what was sent. *)
LEMMA WholeRow ==
    ASSUME IInv, VInv, WholeSessions, NEW s \in SessionIds, sessions[s] # None,
           NEW K, Sent(s, sessions[s].owner, K)
    PROVE  log[s] = K /\ Matches(sessions[s], K) /\ sessions[s].source = "timer"
  BY SentOnce DEF VInv, RowsWhole

(* What request t sees of a row of user u that is on record, or that it has
   judged itself: a timer session with the times its events give. *)
LEMMA SeenTimes ==
    ASSUME IInv, VInv, WholeSessions, NEW t \in Tx, pc[t] # "idle", NEW r \in SessionIds,
           NEW K, Sent(r, req[t].user, K), Stopped(K),
           \/ sessions[r] # None /\ sessions[r].owner = req[t].user
           \/ IsNew(work[t], r) /\ r \in work[t].changed
    PROVE  LET o == Result(t, r)
               e == DeriveTimeline(K, 0)
           IN  /\ Held(t, r) \/ sessions[r] # None
               /\ o.owner = req[t].user /\ o.source = "timer"
               /\ o.status = "completed" /\ o.startedAt = e.startedAt /\ o.endedAt = e.endedAt
<1>1. /\ UploadSlot(pc[t], req[t], work[t]) /\ WorkShape(work[t]) /\ WorkInv(work[t])
      /\ Own(req[t], work[t])
  BY UploadWork
<1>2. DeriveTimeline(K, 0).status = "completed"
  BY DerivedFields
<1>. DEFINE w == work[t]
            o == Result(t, r)
<1>3. CASE IsNew(w, r)
  <2>1. r \in w.changed
    BY <1>1, <1>3 DEF IsNew, WorkInv
  <2>2. /\ o = w.obj[r] /\ o.owner = req[t].user /\ o.source = "timer"
        /\ Sent(r, req[t].user, w.ins[r]) /\ Matches(o, w.ins[r]) /\ Held(t, r)
    BY <1>1, <1>3, <2>1 DEF IsNew, Result, Held, Fresh, Own, WorkInv, UploadSlot, UploadRow
  <2>3. w.ins[r] = K
    BY <2>2, SentOnce
  <2>. QED
    BY <1>2, <2>2, <2>3 DEF Matches
<1>4. CASE ~IsNew(w, r)
  <2>1. /\ sessions[r] # None /\ sessions[r].owner = req[t].user /\ sessions[r] \in Row
    BY <1>4 DEF IInv, TypeOK
  <2>2. log[r] = K /\ Matches(sessions[r], K) /\ sessions[r].source = "timer"
    BY <2>1, WholeRow
  <2>3. CASE r \notin w.held
    BY <1>2, <2>1, <2>2, <2>3 DEF Result, Held, Matches
  <2>4. CASE r \in w.held
    <3>1. /\ Matches(w.base[r], K) /\ Matches(w.obj[r], K)
          /\ o = Updated(sessions[r], w.base[r], w.obj[r])
      BY <1>1, <1>4, <2>2, <2>4 DEF IsNew, UploadSlot, UploadRow, Result, Held, Fresh
    <3>. HIDE DEF o
    <3>2. /\ o.status \in {sessions[r].status, w.obj[r].status}
          /\ o.startedAt \in {sessions[r].startedAt, w.obj[r].startedAt}
          /\ o.endedAt \in {sessions[r].endedAt, w.obj[r].endedAt}
          /\ o.owner = sessions[r].owner /\ o.source = sessions[r].source
      BY <2>1, <3>1 DEF Updated, Column, Row
    <3>. QED
      BY <1>2, <2>1, <2>2, <3>1, <3>2 DEF Matches, o
  <2>. QED
    BY <2>3, <2>4
<1>. QED
  BY <1>3, <1>4
-----------------------------------------------------------------------------
(* Steps.                                                                  *)

(* A step of t that judges nothing keeps the invariant if it does in its own
   slot and adds no row next to another request's new row of the same user. *)
LEMMA UploadMoves ==
    ASSUME IInv, VInv, NEW t \in Tx, UNCHANGED db,
           \A t2 \in Tx \ {t} :
               pc'[t2] = pc[t2] /\ req'[t2] = req[t2] /\ work'[t2] = work[t2],
           UploadSlot(pc'[t], req'[t], work'[t]),
           \/ work'[t].held = {} /\ work'[t].changed = {}
           \/ /\ req'[t].user = req[t].user
              /\ work'[t].changed = work[t].changed
              /\ \A s \in work[t].changed : work'[t].obj[s] = work[t].obj[s]
              /\ \A s \in work[t].changed : IsNew(work'[t], s) => IsNew(work[t], s),
           \A s \in SessionIds : IsNew(work'[t], s) =>
               \/ IsNew(work[t], s) /\ req'[t].user = req[t].user
               \/ \A t2 \in Tx \ {t}, r \in SessionIds :
                      IsNew(work[t2], r) => req[t2].user # req'[t].user
    PROVE  VInv'
<1>1. RowsWhole'
  BY DEF VInv, RowsWhole, db
<1>2. ASSUME NEW t2 \in Tx PROVE UploadSlot(pc[t2], req[t2], work[t2])'
  <2>1. UploadSlot(pc'[t2], req'[t2], work'[t2])
    BY DEF VInv
  <2>. QED
    BY <2>1 DEF UploadSlot, UploadRow, db
<1>3. NewRowsApart'
  <2>. SUFFICES ASSUME NEW t2 \in Tx, NEW t3 \in Tx, NEW s \in SessionIds, NEW r \in SessionIds,
                       t2 # t3, IsNew(work'[t2], s), IsNew(work'[t3], r)
                PROVE  req'[t2].user # req'[t3].user
    BY DEF NewRowsApart, IsNew
  <2>1. CASE t2 # t /\ t3 # t
    BY <2>1 DEF VInv, NewRowsApart
  <2>2. CASE t2 = t
    BY <2>2 DEF VInv, NewRowsApart
  <2>3. CASE t3 = t
    BY <2>3 DEF VInv, NewRowsApart
  <2>. QED
    BY <2>1, <2>2, <2>3
<1>4. ASSUME NEW s \in SessionIds, NEW u, Ok(s, u)' PROVE Ok(s, u)
  BY <1>4 DEF Ok, db
<1>5. OneCounts'
  BY <1>4 DEF VInv, OneCounts, Clash, Sent
<1>6. NewOkIsAlone'
  <2>. SUFFICES ASSUME NEW t2 \in Tx, NEW s \in SessionIds, NEW r \in SessionIds,
                       s # r, Clash(s, r, req'[t2].user), IsNew(work'[t2], r),
                       r \in work'[t2].changed, work'[t2].obj[r].integrity = "ok"
                PROVE  sessions'[s] = None \/ sessions'[s].owner # req'[t2].user
    BY DEF NewOkIsAlone, IsNew, Clash, Sent
  <2>1. /\ req'[t2].user = req[t2].user /\ r \in work[t2].changed
        /\ work'[t2].obj[r] = work[t2].obj[r] /\ IsNew(work[t2], r)
    BY DEF IsNew
  <2>. QED
    BY <2>1 DEF VInv, NewOkIsAlone, db
<1>. QED
  BY <1>1, <1>2, <1>3, <1>5, <1>6 DEF VInv
(* Opening an upload keeps the invariant. *)
LEMMA BeginUpload ==
    ASSUME IInv, VInv, NEW t \in Tx, NEW u \in Users, NEW batch \in Batches,
           BeginSync(t, u, batch)
    PROVE  VInv'
<1>. DEFINE r == [NewRequest("sync", u) EXCEPT !.batch = batch]
            w == Loaded(EmptyWork, {})
<1>1. /\ UNCHANGED db /\ pc'[t] = "load" /\ req'[t] = r /\ work'[t] = w
      /\ \A t2 \in Tx \ {t} :
           pc'[t2] = pc[t2] /\ req'[t2] = req[t2] /\ work'[t2] = work[t2]
  BY DEF BeginSync, Begin, IInv, TypeOK
<1>2. r.kind = "sync" /\ r.batch = batch
  BY DEF NewRequest, NoReq
<1>3. w.held = {} /\ w.changed = {}
  BY DEF Loaded, EmptyWork
<1>4. batch \in Seq(Sendable)
  <2>1. batch \in Seq(Uploads)
    BY SessionsAssumption
  <2>2. \A i \in 1..Len(batch) : batch[i] \in Sendable
    BY <2>1 DEF Sendable
  <2>3. batch \in [1..Len(batch) -> Sendable] /\ Len(batch) \in Nat
    BY <2>1, <2>2
  <2>. QED
    BY <2>3
<1>. HIDE DEF r, w
<1>5. UploadSlot("load", r, w)
  BY <1>2, <1>3, <1>4 DEF UploadSlot
<1>6. \A s \in SessionIds : ~IsNew(w, s)
  BY <1>3 DEF IsNew
<1>. QED
  BY <1>1, <1>3, <1>5, <1>6, UploadMoves

(* The upload a request is at. *)
LEMMA AtUpload ==
    ASSUME IInv, VInv, WholeSessions, NEW t \in Tx,
           pc[t] \in {"load", "insert", "read", "append", "derive"}
    PROVE  /\ req[t].kind = "sync"
           /\ Incoming(t) \in Sendable /\ Incoming(t).id \in SessionIds
           /\ IsLog(Incoming(t).events) /\ DOMAIN Incoming(t).events # {}
           /\ pc[t] # "load" =>
                /\ req[t].cur = Incoming(t).id
                /\ Sent(req[t].cur, req[t].user, Incoming(t).events)
<1>1. /\ UploadSlot(pc[t], req[t], work[t]) /\ Progress(pc[t], req[t], work[t])
      /\ req[t].kind = "sync"
  BY UploadWork
<1>2. req[t].batch \in Seq(Sendable) /\ req[t].batch # <<>>
  BY <1>1 DEF UploadSlot, Progress
<1>3. Incoming(t) \in Sendable /\ Incoming(t).id \in SessionIds
  BY <1>1, <1>2, IncomingShape DEF Incoming
<1>4. Sent(Incoming(t).id, Incoming(t).subjectOf, Incoming(t).events)
  BY <1>3 DEF Sent
<1>5. IsLog(Incoming(t).events) /\ DOMAIN Incoming(t).events # {}
  BY <1>4, SentOnce
<1>6. pc[t] # "load" =>
         req[t].cur = Incoming(t).id /\ Incoming(t).subjectOf = req[t].user
  BY <1>1 DEF UploadSlot, Progress, Incoming
<1>. QED
  BY <1>1, <1>3, <1>4, <1>5, <1>6

(* Looking up the row of an upload keeps the invariant. *)
LEMMA LoadItemUpload ==
    ASSUME IInv, VInv, WholeSessions, NEW t \in Tx, LoadItem(t)
    PROVE  VInv'
<1>. DEFINE s == Incoming(t).id
            l == Loaded(work[t], {s})
            r == [req[t] EXCEPT !.cur = s]
<1>1. /\ pc[t] = "load" /\ UNCHANGED db /\ OwnItem(t)
      /\ pc'[t] = (IF Held(t, s) \/ sessions[s] # None THEN "read" ELSE "insert")
      /\ req'[t] = r
      /\ work'[t] = IF Held(t, s) THEN work[t] ELSE l
      /\ \A t2 \in Tx \ {t} :
           pc'[t2] = pc[t2] /\ req'[t2] = req[t2] /\ work'[t2] = work[t2]
  BY DEF LoadItem, Step, IInv, TypeOK
<1>2. /\ UploadSlot(pc[t], req[t], work[t]) /\ WorkShape(work[t]) /\ WorkInv(work[t])
      /\ RequestShape(req[t])
  BY UploadWork
<1>3. /\ req[t].kind = "sync" /\ s \in SessionIds
      /\ Incoming(t).subjectOf = req[t].user
      /\ sessions[s] # None => sessions[s].owner = req[t].user
      /\ Incoming(t) = Head(req[t].batch)
      /\ Sent(s, req[t].user, Incoming(t).events)
  BY <1>1, AtUpload DEF OwnItem, Incoming, Sent
<1>4. /\ r.kind = "sync" /\ r.cur = s /\ r.batch = req[t].batch /\ r.user = req[t].user
  BY <1>2, <1>3 DEF RequestShape, HasFields
<1>. HIDE DEF r
<1>5. CASE Held(t, s)
  <2>1. ASSUME NEW x \in work[t].held PROVE UploadRow("read", r, work[t], x, log[x])
    BY <1>1, <1>2, <1>4 DEF UploadSlot, UploadRow
  <2>2. UploadSlot("read", r, work[t])
    BY <1>2, <1>3, <1>4, <2>1 DEF UploadSlot
  <2>. QED
    BY <1>1, <1>4, <1>5, <2>2, UploadMoves
<1>6. CASE ~Held(t, s)
  <2>. DEFINE rows == {x \in {s} : sessions[x] # None}
              step == IF sessions[s] # None THEN "read" ELSE "insert"
  <2>1. /\ l.held = work[t].held \cup rows /\ l.changed = work[t].changed
        /\ l.ins = work[t].ins
        /\ l.base = [x \in SessionIds |-> IF x \in rows THEN sessions[x] ELSE work[t].base[x]]
        /\ l.obj = [x \in SessionIds |-> IF x \in rows THEN sessions[x] ELSE work[t].obj[x]]
    BY <1>2, <1>3, LoadedWork
  <2>. HIDE DEF l
  <2>2. s \notin work[t].held /\ DOMAIN work[t].ins[s] = {}
    BY <1>2, <1>3, <1>6 DEF WorkInv, Held
  <2>3. ASSUME NEW x \in l.held PROVE UploadRow(step, r, l, x, log[x])
    <3>1. CASE x \in rows
      <4>1. x = s /\ sessions[s] # None /\ l.base[s] = sessions[s] /\ l.obj[s] = sessions[s]
        BY <1>3, <2>1, <3>1
      <4>2. Matches(sessions[s], log[s])
        BY <1>3, <4>1 DEF VInv, RowsWhole
      <4>. QED
        BY <2>1, <2>2, <4>1, <4>2 DEF UploadRow
    <3>2. CASE x \notin rows
      <4>1. x \in work[t].held /\ x \in SessionIds
        BY <1>2, <2>1, <3>2 DEF WorkShape
      <4>2. UploadRow("load", req[t], work[t], x, log[x])
        BY <1>1, <1>2, <4>1 DEF UploadSlot
      <4>3. l.base[x] = work[t].base[x] /\ l.obj[x] = work[t].obj[x]
        BY <2>1, <3>2, <4>1
      <4>. QED
        BY <1>4, <2>1, <4>2, <4>3 DEF UploadRow
    <3>. QED
      BY <3>1, <3>2
  <2>4. UploadSlot(step, r, l)
    BY <1>2, <1>3, <1>4, <2>3 DEF UploadSlot
  <2>5. ASSUME NEW x \in SessionIds, IsNew(l, x) PROVE IsNew(work[t], x)
    BY <2>1, <2>5 DEF IsNew
  <2>6. ASSUME NEW x \in work[t].changed PROVE l.obj[x] = work[t].obj[x]
    <3>1. x # s /\ x \in SessionIds
      BY <1>2, <2>2, <2>6 DEF WorkShape
    <3>. QED
      BY <2>1, <3>1
  <2>7. \A x \in work[t].changed : x \in SessionIds
    BY <1>2 DEF WorkShape
  <2>8. pc'[t] = step /\ work'[t] = l /\ req'[t] = r
    BY <1>1, <1>6
  <2>. HIDE DEF step, rows
  <2>9. /\ \A x \in work[t].changed : work'[t].obj[x] = work[t].obj[x]
        /\ \A x \in work[t].changed : IsNew(work'[t], x) => IsNew(work[t], x)
        /\ work'[t].changed = work[t].changed
        /\ \A x \in SessionIds : IsNew(work'[t], x) => IsNew(work[t], x)
        /\ UploadSlot(pc'[t], req'[t], work'[t])
        /\ req'[t].user = req[t].user
    BY <1>4, <2>1, <2>4, <2>5, <2>6, <2>7, <2>8
  <2>. QED
    BY <1>1, <2>9, UploadMoves
<1>. QED
  BY <1>5, <1>6

(* Flushing a new row keeps the invariant: the running index admits it only
   where no other open request has a new row of the user. *)
LEMMA FlushRowUpload ==
    ASSUME IInv, VInv, WholeSessions, NEW t \in Tx, FlushRow(t)
    PROVE  VInv'
<1>. DEFINE s == req[t].cur
            w == work'[t]
<1>1. /\ pc[t] = "insert" /\ UNCHANGED db /\ pc'[t] = "read" /\ req'[t] = req[t]
      /\ Insertable(t, req[t].user, s)
      /\ \A t2 \in Tx \ {t} :
           pc'[t2] = pc[t2] /\ req'[t2] = req[t2] /\ work'[t2] = work[t2]
  BY DEF FlushRow, CanInsert, Step, IInv, TypeOK
<1>2. /\ UploadSlot(pc[t], req[t], work[t]) /\ WorkShape(work[t]) /\ WorkInv(work[t])
  BY UploadWork
<1>3. /\ s \in SessionIds /\ s \notin work[t].held
      /\ w.held = work[t].held \cup {s} /\ w.changed = work[t].changed
      /\ w.base = work[t].base /\ w.ins = work[t].ins
      /\ \A x \in SessionIds \ {s} : w.obj[x] = work[t].obj[x]
  BY FlushRowWork
<1>. HIDE DEF w
<1>4. DOMAIN work[t].ins[s] = {} /\ work[t].base[s] = None /\ s \notin work[t].changed
  BY <1>2, <1>3 DEF WorkInv, WorkShape
<1>5. ASSUME NEW x \in w.held PROVE UploadRow("read", req[t], w, x, log[x])
  <2>1. CASE x = s
    BY <1>3, <1>4, <2>1 DEF UploadRow
  <2>2. CASE x # s
    <3>1. x \in work[t].held /\ x \in SessionIds
      BY <1>2, <1>3, <2>2 DEF WorkShape
    <3>2. UploadRow("insert", req[t], work[t], x, log[x])
      BY <1>1, <1>2, <3>1 DEF UploadSlot
    <3>. QED
      BY <1>3, <2>2, <3>1, <3>2 DEF UploadRow
  <2>. QED
    BY <2>1, <2>2
<1>6. UploadSlot("read", req[t], w)
  BY <1>1, <1>2, <1>5 DEF UploadSlot
<1>7. ASSUME NEW t2 \in Tx \ {t}, NEW r \in SessionIds, IsNew(work[t2], r)
      PROVE  req[t2].user # req[t].user
  <2>1. work[t2].obj[r].owner # req[t].user
    BY <1>1, <1>7 DEF Insertable, Fresh, Held, IsNew, Others
  <2>2. pc[t2] # "idle"
    BY <1>7, UploadWork DEF IsNew, UploadSlot
  <2>3. work[t2].obj[r].owner = req[t2].user
    BY <1>7, <2>2, UploadWork DEF IsNew, Own
  <2>. QED
    BY <2>1, <2>3
<1>8. \A x \in work[t].changed : x \in SessionIds \ {s} /\ (IsNew(w, x) => IsNew(work[t], x))
  BY <1>2, <1>3, <1>4 DEF WorkShape, IsNew
<1>9. \A x \in work[t].changed : w.obj[x] = work[t].obj[x]
  BY <1>3, <1>8
<1>. QED
  BY <1>1, <1>3, <1>6, <1>7, <1>8, <1>9, UploadMoves DEF w
(* Reading the events of an upload's session keeps the invariant. *)
LEMMA ReadUpload ==
    ASSUME IInv, VInv, WholeSessions, NEW t \in Tx, ReadLog(t)
    PROVE  VInv'
<1>. DEFINE s == req[t].cur
            events == Incoming(t).events
            r == req'[t]
            w == work[t]
<1>1. /\ pc[t] = "read" /\ pc'[t] = "append" /\ work'[t] = work[t] /\ UNCHANGED db
      /\ r = [req[t] EXCEPT !.seen = Merged(log[s], w.ins[s])]
      /\ \A t2 \in Tx \ {t} :
           pc'[t2] = pc[t2] /\ req'[t2] = req[t2] /\ work'[t2] = work[t2]
  BY DEF ReadLog, Step, IInv, TypeOK
<1>2. /\ UploadSlot(pc[t], req[t], w) /\ WorkShape(w) /\ WorkInv(w)
      /\ RequestShape(req[t]) /\ Progress(pc[t], req[t], w) /\ Own(req[t], w)
  BY <1>1, UploadWork
<1>3. /\ r.kind = req[t].kind /\ r.cur = s /\ r.user = req[t].user /\ r.batch = req[t].batch
      /\ r.seen = Merged(log[s], w.ins[s])
  BY <1>1, <1>2 DEF RequestShape, HasFields
<1>4. /\ events = Head(req[t].batch).events /\ Sent(s, req[t].user, events)
      /\ IsLog(events) /\ req[t].kind = "sync"
  BY <1>1, AtUpload DEF Incoming
<1>5. s \in w.held /\ s \in SessionIds /\ UploadRow("read", req[t], w, s, log[s])
  BY <1>1, <1>2, <1>4 DEF Progress, WorkShape, UploadSlot
<1>. HIDE DEF events, r, w
<1>6. IF w.base[s] # None THEN r.seen = events
      ELSE \/ DOMAIN r.seen = {} /\ DOMAIN w.ins[s] = {}
           \/ r.seen = events /\ w.ins[s] = events
  <2>1. CASE w.base[s] # None
    <3>1. DOMAIN w.ins[s] = {} /\ sessions[s] # None /\ sessions[s].owner = req[t].user
      BY <1>2, <1>5, <2>1 DEF UploadRow, WorkInv, Own
    <3>2. log[s] = events
      BY <1>4, <1>5, <3>1, WholeRow
    <3>3. PICK E : E = w.ins[s]
      OBVIOUS
    <3>4. Merged(events, E) = events
      BY <1>4, <3>1, <3>3, MergedNothing
    <3>. QED
      BY <1>3, <2>1, <3>2, <3>3, <3>4
  <2>2. CASE w.base[s] = None
    <3>1. DOMAIN log[s] = {}
      BY <1>2, <1>5, <2>2 DEF WorkInv, IInv, Committed, NoRowNoLog
    <3>2. PICK E, K : E = log[s] /\ K = w.ins[s]
      OBVIOUS
    <3>3. CASE DOMAIN w.ins[s] = {}
      <4>1. DOMAIN Merged(E, K) = {}
        BY <3>1, <3>2, <3>3 DEF Merged
      <4>. QED
        BY <1>3, <2>2, <3>2, <3>3, <4>1
    <3>4. CASE Sent(s, req[t].user, w.ins[s])
      <4>1. K = events
        BY <1>4, <3>2, <3>4, SentOnce
      <4>2. Merged(E, K) = K
        BY <1>4, <3>1, <3>2, <4>1, MergedNothing
      <4>. QED
        BY <1>3, <2>2, <3>2, <4>1, <4>2
    <3>. QED
      BY <1>5, <2>2, <3>3, <3>4 DEF UploadRow
  <2>. QED
    BY <2>1, <2>2
<1>7. ASSUME NEW x \in w.held PROVE UploadRow("append", r, w, x, log[x])
  BY <1>1, <1>2, <1>3 DEF UploadSlot, UploadRow
<1>8. UploadSlot("append", r, w)
  BY <1>1, <1>2, <1>3, <1>4, <1>6, <1>7 DEF UploadSlot
<1>9. /\ work'[t] = work[t] /\ req'[t].user = req[t].user
       /\ UploadSlot(pc'[t], req'[t], work'[t])
  BY <1>1, <1>3, <1>8 DEF r, w
<1>. QED
  BY <1>1, <1>9, UploadMoves

(* Flushing an upload's events leaves them whole. *)
LEMMA FlushEventsUpload ==
    ASSUME IInv, VInv, WholeSessions, NEW t \in Tx, FlushEvents(t)
    PROVE  VInv'
<1>. DEFINE s == req[t].cur
            A == Added(t)
            events == Incoming(t).events
            w == work[t]
            v == work'[t]
<1>1. /\ pc[t] = "append" /\ pc'[t] = "derive" /\ req'[t] = req[t] /\ UNCHANGED db
      /\ IsLog(A)
      /\ \A t2 \in Tx \ {t} :
           pc'[t2] = pc[t2] /\ req'[t2] = req[t2] /\ work'[t2] = work[t2]
  BY DEF FlushEvents, CanAppend, Step, IInv, TypeOK
<1>2. /\ UploadSlot(pc[t], req[t], w) /\ WorkShape(w) /\ WorkInv(w)
      /\ RequestShape(req[t]) /\ Progress(pc[t], req[t], w) /\ Own(req[t], w)
  BY <1>1, UploadWork
<1>3. /\ s \in w.held /\ s \in SessionIds
      /\ v.held = w.held /\ v.changed = w.changed
      /\ v.base = w.base /\ v.obj = w.obj
      /\ v.ins[s] = Merged(w.ins[s], A)
      /\ \A x \in SessionIds \ {s} : v.ins[x] = w.ins[x]
  BY FlushEventsWork
<1>4. /\ events = Head(req[t].batch).events /\ Sent(s, req[t].user, events)
      /\ IsLog(events) /\ req[t].kind = "sync"
  BY <1>1, AtUpload DEF Incoming
<1>5. A = [n \in DOMAIN events \ DOMAIN req[t].seen |-> events[n]]
  BY <1>4 DEF Added
<1>6. /\ UploadRow("append", req[t], w, s, log[s])
      /\ IF w.base[s] # None THEN req[t].seen = events
         ELSE \/ DOMAIN req[t].seen = {} /\ DOMAIN w.ins[s] = {}
              \/ req[t].seen = events /\ w.ins[s] = events
  BY <1>1, <1>2, <1>3, <1>4 DEF UploadSlot
<1>. HIDE DEF A, events, w, v
<1>7. w.base[s] # None => DOMAIN v.ins[s] = {}
  <2>. SUFFICES ASSUME w.base[s] # None PROVE DOMAIN v.ins[s] = {}
    OBVIOUS
  <2>1. DOMAIN A = {} /\ DOMAIN w.ins[s] = {}
    BY <1>5, <1>6 DEF UploadRow
  <2>. QED
    BY <1>3, <2>1 DEF Merged
<1>8. w.base[s] = None => v.ins[s] = events
  <2>. SUFFICES ASSUME w.base[s] = None PROVE v.ins[s] = events
    OBVIOUS
  <2>1. PICK D \in SUBSET (1..MaxSeq) : events \in [D -> Event]
    BY <1>4 DEF IsLog
  <2>2. PICK K : K = w.ins[s]
    OBVIOUS
  <2>3. CASE DOMAIN req[t].seen = {} /\ DOMAIN w.ins[s] = {}
    <3>1. A = events
      BY <1>5, <2>1, <2>3
    <3>2. Merged(K, A) = A
      BY <1>1, <2>2, <2>3, MergedNothing
    <3>. QED
      BY <1>3, <2>2, <3>1, <3>2
  <2>4. CASE req[t].seen = events /\ w.ins[s] = events
    <3>1. DOMAIN A = {}
      BY <1>5, <2>4
    <3>2. Merged(events, A) = events
      BY <1>4, <3>1, MergedNothing
    <3>. QED
      BY <1>3, <2>4, <3>2
  <2>. QED
    BY <1>6, <2>3, <2>4
<1>9. ASSUME NEW x \in v.held PROVE UploadRow("derive", req[t], v, x, log[x])
  <2>1. CASE x = s
    <3>1. CASE w.base[s] # None
      BY <1>3, <1>6, <1>7, <2>1, <3>1 DEF UploadRow
    <3>2. CASE w.base[s] = None
      <4>1. s \in w.changed => Sent(s, req[t].user, w.ins[s]) /\ Matches(w.obj[s], w.ins[s])
        BY <1>6, <3>2 DEF UploadRow
      <4>2. s \in w.changed => Matches(v.obj[s], v.ins[s])
        BY <1>3, <1>4, <1>8, <3>2, <4>1, SentOnce
      <4>. QED
        BY <1>3, <1>4, <1>8, <2>1, <3>2, <4>2 DEF UploadRow
    <3>. QED
      BY <3>1, <3>2
  <2>2. CASE x # s
    <3>1. x \in w.held /\ x \in SessionIds
      BY <1>2, <1>3 DEF WorkShape
    <3>2. UploadRow("append", req[t], w, x, log[x])
      BY <1>1, <1>2, <3>1 DEF UploadSlot
    <3>. QED
      BY <1>3, <2>2, <3>1, <3>2 DEF UploadRow
  <2>. QED
    BY <2>1, <2>2
<1>10. UploadSlot("derive", req[t], v)
  BY <1>1, <1>2, <1>3, <1>4, <1>8, <1>9 DEF UploadSlot
<1>11. \A x \in SessionIds : IsNew(v, x) <=> IsNew(w, x)
  BY <1>3 DEF IsNew
<1>12. w.changed \subseteq SessionIds
  BY <1>2 DEF WorkShape
<1>. QED
  BY <1>1, <1>3, <1>10, <1>11, <1>12, UploadMoves DEF v, w

(* A request that ends without a commit keeps the invariant. *)
LEMMA AbortUpload ==
    ASSUME IInv, VInv, NEW t \in Tx, Abort(t)
    PROVE  VInv'
<1>1. /\ UNCHANGED db /\ pc'[t] = "idle" /\ req'[t] = NoReq /\ work'[t] = EmptyWork
      /\ \A t2 \in Tx \ {t} :
           pc'[t2] = pc[t2] /\ req'[t2] = req[t2] /\ work'[t2] = work[t2]
  BY DEF Abort, Finish, IInv, TypeOK
<1>2. /\ EmptyWork.held = {} /\ EmptyWork.changed = {}
      /\ NoReq.kind = "none" /\ NoReq.batch = <<>>
  BY DEF EmptyWork, NoReq
<1>3. UploadSlot("idle", NoReq, EmptyWork)
  BY <1>2 DEF UploadSlot
<1>4. \A s \in SessionIds : ~IsNew(EmptyWork, s)
  BY <1>2 DEF IsNew
<1>. QED
  BY <1>1, <1>2, <1>3, <1>4, UploadMoves
(* What a request finds to overlap the upload it judges does not pass. *)
LEMMA OverlapFails ==
    ASSUME NEW d, NEW latest, NEW received, NEW conflict
    PROVE  EvaluateSession("timer", d, latest, received, TRUE, conflict).status # "ok"
<1>. DEFINE R == {r \in Reason :
                    \/ r = "timeline_invalid" /\ d.problems # {}
                    \/ r = "event_conflict" /\ conflict
                    \/ r = "marathon_session" /\ d.elapsed > MaxSession
                    \/ r = "long_single_interval" /\ d.longest > MaxInterval
                    \/ r = "overlapping_session"
                    \/ r = "clock_skew" /\ latest - received > MaxSkew
                    \/ /\ r = "retroactive_edit"
                       /\ d.endedAt # NoTime
                       /\ received - d.endedAt > RetroWindow}
<1>1. "overlapping_session" \in R
  BY DEF Reason
<1>2. EvaluateSession("timer", d, latest, received, TRUE, conflict) = Verdict(R)
  BY DEF EvaluateSession, TimerVerdict
<1>. HIDE DEF R
<1>3. Verdict(R).status = "flagged"
  BY <1>1 DEF Verdict
<1>4. EvaluateSession("timer", d, latest, received, TRUE, conflict).status = "flagged"
  BY <1>2, <1>3
<1>. QED
  BY <1>4

(* What judging an upload leaves: the row matches what was sent, and passes
   only if no session the request sees overlaps it. *)
LEMMA JudgedUpload ==
    ASSUME IInv, VInv, WholeSessions, NEW t \in Tx, DeriveSync(t)
    PROVE  LET w == work[t]
               v == work'[t]
               s == req[t].cur
               K == Incoming(t).events
           IN  /\ pc[t] = "derive" /\ pc'[t] \in {"load", "commit"}
               /\ req'[t].kind = "sync" /\ req'[t].user = req[t].user
               /\ req'[t].batch \in Seq(Sendable)
               /\ s \in w.held /\ s \in SessionIds
               /\ v.held = w.held /\ v.changed = w.changed \cup {s}
               /\ v.base = w.base /\ v.ins = w.ins
               /\ \A x \in SessionIds \ {s} : v.obj[x] = w.obj[x]
               /\ Sent(s, req[t].user, K)
               /\ w.base[s] = None => w.ins[s] = K
               /\ Matches(v.obj[s], K)
               /\ v.obj[s].integrity = "ok" =>
                    \E c : ~Overlaps(t, s, DeriveTimeline(K, c))
<1>. DEFINE w == work[t]
            v == work'[t]
            s == req[t].cur
            K == Incoming(t).events
            L == Merged(log[s], w.ins[s])
            d == DeriveTimeline(L, req[t].clock)
            row == WithTimeline(w.obj[s], d)
            conflict == \E n \in DOMAIN K \cap DOMAIN req[t].seen : K[n] # req[t].seen[n]
            verdict == EvaluateSession(row.source, d, LastEventAt(L), req[t].clock,
                                       Overlaps(t, s, d), conflict)
<1>1. /\ pc[t] = "derive" /\ s \in w.held /\ s \in SessionIds
      /\ v.held = w.held /\ v.changed = w.changed \cup {s}
      /\ v.base = w.base /\ v.ins = w.ins
      /\ \A x \in SessionIds \ {s} : v.obj[x] = w.obj[x]
      /\ Shows(v.obj[s], d)
  BY DeriveWork
<1>2. /\ UploadSlot("derive", req[t], w) /\ WorkShape(w) /\ WorkInv(w) /\ RequestShape(req[t])
      /\ Own(req[t], w)
  BY <1>1, UploadWork
<1>3. /\ req[t].kind = "sync" /\ Sent(s, req[t].user, K) /\ IsLog(K)
      /\ K = Head(req[t].batch).events
  BY <1>1, AtUpload DEF Incoming
<1>4. /\ pc'[t] \in {"load", "commit"} /\ req'[t] = [req[t] EXCEPT !.batch = Tail(@)]
      /\ v.obj = [w.obj EXCEPT ![s] = WithVerdict(row, verdict)]
  <2>. DEFINE notes == w.notes[s] \cup FlagNote(row, verdict)
                  \cup (IF DOMAIN K \ DOMAIN req[t].seen # {} \/ conflict THEN {Synced} ELSE {})
              u == [w EXCEPT !.changed = @ \cup {s}, !.obj[s] = WithVerdict(row, verdict),
                             !.notes[s] = notes]
  <2>1. /\ pc'[t] \in {"load", "commit"} /\ req'[t] = [req[t] EXCEPT !.batch = Tail(@)]
        /\ v = [w EXCEPT !.changed = @ \cup {s}, !.obj[s] = WithVerdict(row, verdict),
                         !.notes[s] = @ \cup FlagNote(row, verdict)
                         \cup (IF DOMAIN K \ DOMAIN req[t].seen # {} \/ conflict THEN {Synced} ELSE {})]
    BY DEF DeriveSync, Step, IInv, TypeOK
  <2>. HIDE DEF row, verdict, conflict
  <2>. QED
    BY <1>2, <2>1 DEF WorkShape, HasFields
<1>5. req[t].batch \in Seq(Sendable) /\ req[t].batch # <<>>
  BY <1>1, <1>2, <1>3, IncomingShape DEF UploadSlot
<1>6. /\ req'[t].kind = "sync" /\ req'[t].user = req[t].user
      /\ req'[t].batch = Tail(req[t].batch) /\ Tail(req[t].batch) \in Seq(Sendable)
  BY <1>2, <1>3, <1>4, <1>5 DEF RequestShape, HasFields
<1>7. UploadRow("derive", req[t], w, s, log[s])
  BY <1>1, <1>2 DEF UploadSlot
<1>8. w.base[s] = None => w.ins[s] = K
  BY <1>2, <1>3 DEF UploadSlot
<1>. HIDE DEF K, w
<1>9. L = K
  <2>1. CASE w.base[s] # None
    <3>1. DOMAIN w.ins[s] = {} /\ sessions[s] # None /\ sessions[s].owner = req[t].user
      BY <1>1, <1>2, <1>7, <2>1 DEF UploadRow, WorkInv, Own
    <3>2. log[s] = K
      BY <1>1, <1>3, <3>1, WholeRow
    <3>3. PICK E : E = w.ins[s]
      OBVIOUS
    <3>4. Merged(K, E) = K
      BY <1>3, <3>1, <3>3, MergedNothing
    <3>. QED
      BY <3>2, <3>3, <3>4
  <2>2. CASE w.base[s] = None
    <3>1. DOMAIN log[s] = {}
      BY <1>1, <1>2, <2>2 DEF WorkInv, IInv, Committed, NoRowNoLog
    <3>2. PICK E : E = log[s]
      OBVIOUS
    <3>3. Merged(E, K) = K
      BY <1>3, <3>1, <3>2, MergedNothing
    <3>. QED
      BY <1>8, <2>2, <3>2, <3>3
  <2>. QED
    BY <2>1, <2>2
<1>10. Matches(v.obj[s], K)
  BY <1>1, <1>9, ShownMatches
<1>11. row.source = "timer" /\ v.obj[s].integrity = verdict.status
  <2>1. RowShape(w.obj[s]) /\ w.obj[s].source = "timer"
    <3>1. RowShape(w.obj[s])
      BY <1>1, <1>2 DEF WorkShape
    <3>2. CASE w.base[s] # None
      BY <1>1, <1>2, <3>1, <3>2 DEF WorkInv, VInv, RowsWhole
    <3>3. CASE w.base[s] = None
      BY <1>1, <1>2, <3>1, <3>3 DEF WorkInv
    <3>. QED
      BY <3>2, <3>3
  <2>2. RowShape(row) /\ row.source = "timer"
    BY <2>1, WithTimelineShape
  <2>. HIDE DEF row, verdict
  <2>3. v.obj[s] = WithVerdict(row, verdict)
    BY <1>1, <1>2, <1>4 DEF WorkShape
  <2>. QED
    BY <2>2, <2>3, WithVerdictShape
<1>12. v.obj[s].integrity = "ok" => ~Overlaps(t, s, DeriveTimeline(K, req[t].clock))
  <2>. SUFFICES ASSUME v.obj[s].integrity = "ok", Overlaps(t, s, DeriveTimeline(K, req[t].clock))
                PROVE  FALSE
    OBVIOUS
  <2>1. PICK o : o = Overlaps(t, s, d) /\ o = TRUE
    BY <1>9 DEF Overlaps
  <2>. HIDE DEF d, conflict, row, L
  <2>2. verdict.status # "ok"
    BY <1>11, <2>1, OverlapFails
  <2>. QED
    BY <1>11, <2>2
<1>. QED
  BY <1>1, <1>3, <1>4, <1>6, <1>8, <1>10, <1>12 DEF K, w
(* A session that request t has just passed overlaps none that has passed. *)
LEMMA PassedIsAlone ==
    ASSUME IInv, VInv, WholeSessions, NEW t \in Tx, DeriveSync(t),
           work'[t].obj[req[t].cur].integrity = "ok",
           NEW r \in SessionIds \ {req[t].cur}, Clash(req[t].cur, r, req[t].user)
    PROVE  /\ ~(sessions[r] # None /\ sessions[r].owner = req[t].user)
           /\ ~(IsNew(work[t], r) /\ r \in work[t].changed)
<1>. DEFINE s == req[t].cur
            u == req[t].user
<1>1. PICK L, K : LET d == DeriveTimeline(L, 0) e == DeriveTimeline(K, 0)
                  IN  /\ Sent(s, u, L) /\ Stopped(L)
                      /\ Sent(r, u, K) /\ Stopped(K)
                      /\ d.startedAt < e.endedAt /\ d.endedAt > e.startedAt
                      /\ d.endedAt # NoTime /\ e.endedAt # NoTime
  BY DEF Clash
<1>2. /\ pc[t] = "derive" /\ Sent(s, u, Incoming(t).events)
      /\ \E c : ~Overlaps(t, s, DeriveTimeline(Incoming(t).events, c))
  BY JudgedUpload
<1>3. Incoming(t).events = L
  BY <1>1, <1>2, SentOnce
<1>4. PICK c : ~Overlaps(t, s, DeriveTimeline(L, c))
  BY <1>2, <1>3
<1>. DEFINE d == DeriveTimeline(L, c)
            e == DeriveTimeline(K, 0)
<1>5. /\ d.endedAt = DeriveTimeline(L, 0).endedAt
      /\ d.startedAt = DeriveTimeline(L, 0).startedAt
  BY ClockFree
<1>. HIDE DEF d
<1>6. SUFFICES ASSUME \/ sessions[r] # None /\ sessions[r].owner = u
                      \/ IsNew(work[t], r) /\ r \in work[t].changed
               PROVE  FALSE
  OBVIOUS
<1>7. LET o == Result(t, r)
      IN  /\ Held(t, r) \/ sessions[r] # None
          /\ o.owner = req[t].user /\ o.source = "timer"
          /\ o.status = "completed" /\ o.startedAt = e.startedAt /\ o.endedAt = e.endedAt
  BY <1>1, <1>2, <1>6, SeenTimes
<1>8. Overlaps(t, s, d)
  BY <1>1, <1>5, <1>7 DEF Overlaps
<1>. QED
  BY <1>4, <1>8 DEF d

(* ... and none that another request has passed. *)
LEMMA PassedCountsAlone ==
    ASSUME IInv, VInv, WholeSessions, NEW t \in Tx, DeriveSync(t),
           work'[t].obj[req[t].cur].integrity = "ok",
           NEW r \in SessionIds \ {req[t].cur}, Clash(req[t].cur, r, req[t].user)
    PROVE  ~Ok(r, req[t].user)
<1>. DEFINE s == req[t].cur
            u == req[t].user
<1>1. /\ ~(sessions[r] # None /\ sessions[r].owner = u)
      /\ ~(IsNew(work[t], r) /\ r \in work[t].changed)
  BY PassedIsAlone
<1>2. pc[t] = "derive" /\ s \in work[t].held /\ s \in SessionIds
  BY JudgedUpload
<1>3. WorkInv(work[t]) /\ Own(req[t], work[t])
  BY <1>2, UploadWork
<1>4. ASSUME NEW t2 \in Tx, r \in work[t2].changed, req[t2].user = u,
             work[t2].obj[r].integrity = "ok"
      PROVE  FALSE
  <2>1. /\ WorkShape(work[t2]) /\ WorkInv(work[t2])
        /\ UploadSlot(pc[t2], req[t2], work[t2])
    BY UploadWork
  <2>2. r \in work[t2].held /\ pc[t2] # "idle"
    BY <1>4, <2>1 DEF WorkShape, UploadSlot
  <2>3. Own(req[t2], work[t2])
    BY <2>2, UploadWork
  <2>4. IsNew(work[t2], r)
    BY <1>1, <1>4, <2>1, <2>2, <2>3 DEF IsNew, WorkInv, Own
  <2>5. t2 # t
    BY <1>1, <1>4, <2>4
  <2>6. ~IsNew(work[t], s)
    BY <1>2, <1>4, <2>4, <2>5 DEF VInv, NewRowsApart
  <2>7. sessions[s] # None /\ sessions[s].owner = u
    BY <1>2, <1>3, <2>6 DEF IsNew, WorkInv, Own
  <2>. QED
    BY <1>2, <1>4, <2>4, <2>7 DEF VInv, NewOkIsAlone
<1>. QED
  BY <1>1, <1>4 DEF Ok

(* Judging an upload keeps the invariant. *)
LEMMA DeriveUpload ==
    ASSUME IInv, VInv, WholeSessions, NEW t \in Tx, DeriveSync(t)
    PROVE  VInv'
<1>. DEFINE w == work[t]
            v == work'[t]
            s == req[t].cur
            u == req[t].user
            K == Incoming(t).events
<1>1. /\ pc[t] = "derive" /\ pc'[t] \in {"load", "commit"}
      /\ req'[t].kind = "sync" /\ req'[t].user = u
      /\ req'[t].batch \in Seq(Sendable)
      /\ s \in w.held /\ s \in SessionIds
      /\ v.held = w.held /\ v.changed = w.changed \cup {s}
      /\ v.base = w.base /\ v.ins = w.ins
      /\ \A x \in SessionIds \ {s} : v.obj[x] = w.obj[x]
      /\ Sent(s, u, K)
      /\ w.base[s] = None => w.ins[s] = K
      /\ Matches(v.obj[s], K)
  BY JudgedUpload
<1>2. /\ UNCHANGED db
      /\ \A t2 \in Tx \ {t} :
           pc'[t2] = pc[t2] /\ req'[t2] = req[t2] /\ work'[t2] = work[t2]
  BY DEF DeriveSync, Step, IInv, TypeOK
<1>3. /\ UploadSlot("derive", req[t], w) /\ WorkShape(w) /\ WorkInv(w) /\ Own(req[t], w)
  BY <1>1, UploadWork
<1>. HIDE DEF K, w, v
<1>4. RowsWhole'
  BY <1>2 DEF VInv, RowsWhole, db
<1>5. ASSUME NEW x \in v.held PROVE UploadRow(pc'[t], req'[t], v, x, log[x])
  <2>1. x \in w.held /\ x \in SessionIds /\ UploadRow("derive", req[t], w, x, log[x])
    BY <1>1, <1>3 DEF WorkShape, UploadSlot
  <2>2. CASE x # s
    BY <1>1, <2>1, <2>2 DEF UploadRow
  <2>3. CASE x = s /\ w.base[s] = None
    BY <1>1, <2>1, <2>3 DEF UploadRow
  <2>4. CASE x = s /\ w.base[s] # None
    <3>1. sessions[s] # None /\ sessions[s].owner = u
      BY <1>1, <1>3, <2>4 DEF WorkInv, Own
    <3>2. log[s] = K
      BY <1>1, <3>1, WholeRow
    <3>. QED
      BY <1>1, <2>1, <2>4, <3>2 DEF UploadRow
  <2>. QED
    BY <2>2, <2>3, <2>4
<1>6. UploadSlot(pc'[t], req'[t], v)
  BY <1>1, <1>5 DEF UploadSlot
<1>7. ASSUME NEW t2 \in Tx PROVE UploadSlot(pc[t2], req[t2], work[t2])'
  <2>1. UploadSlot(pc'[t2], req'[t2], work'[t2])
    BY <1>2, <1>6 DEF VInv, v
  <2>. QED
    BY <1>2, <2>1 DEF UploadSlot, UploadRow, db
<1>8. ASSUME NEW t2 \in Tx, NEW x \in SessionIds
      PROVE  /\ IsNew(work'[t2], x) <=> IsNew(work[t2], x)
             /\ req'[t2].user = req[t2].user
  <2>1. CASE t2 = t
    BY <1>1, <2>1 DEF IsNew, v, w
  <2>2. CASE t2 # t
    BY <1>2, <2>2
  <2>. QED
    BY <2>1, <2>2
<1>9. NewRowsApart'
  <2>. SUFFICES ASSUME NEW t2 \in Tx, NEW t3 \in Tx, NEW x \in SessionIds, NEW r \in SessionIds,
                       t2 # t3, IsNew(work'[t2], x), IsNew(work'[t3], r)
                PROVE  req'[t2].user # req'[t3].user
    BY DEF NewRowsApart, IsNew
  <2>. QED
    BY <1>8 DEF VInv, NewRowsApart
<1>10. ASSUME NEW x \in SessionIds, NEW o \in Users \cup {None}, Ok(x, o)'
       PROVE  Ok(x, o) \/ (x = s /\ o = u /\ v.obj[s].integrity = "ok")
  <2>1. CASE sessions'[x] # None /\ sessions'[x].owner = o /\ sessions'[x].integrity = "ok"
    BY <1>2, <2>1 DEF Ok, db
  <2>2. CASE \E t2 \in Tx : /\ x \in work'[t2].changed /\ req'[t2].user = o
                            /\ work'[t2].obj[x].integrity = "ok"
    <3>1. PICK t2 \in Tx : /\ x \in work'[t2].changed /\ req'[t2].user = o
                           /\ work'[t2].obj[x].integrity = "ok"
      BY <2>2
    <3>2. CASE t2 # t
      BY <1>2, <3>1, <3>2 DEF Ok
    <3>3. CASE t2 = t /\ x = s
      BY <1>1, <3>1, <3>3 DEF v
    <3>4. CASE t2 = t /\ x # s
      <4>1. x \in w.changed /\ w.obj[x].integrity = "ok" /\ u = o
        BY <1>1, <3>1, <3>4 DEF v
      <4>. QED
        BY <4>1 DEF Ok, w
    <3>. QED
      BY <3>2, <3>3, <3>4
  <2>. QED
    BY <1>10, <2>1, <2>2 DEF Ok
<1>11. OneCounts'
  <2>. SUFFICES ASSUME NEW x \in SessionIds, NEW r \in SessionIds, NEW o \in Users \cup {None},
                       x # r, Clash(x, r, o), Ok(x, o)', Ok(r, o)'
                PROVE  FALSE
    BY DEF OneCounts, Clash, Sent
  <2>1. CASE Ok(x, o) /\ Ok(r, o)
    BY <2>1 DEF VInv, OneCounts
  <2>2. CASE x = s /\ o = u /\ v.obj[s].integrity = "ok"
    <3>1. Ok(r, u)
      BY <1>10, <2>2
    <3>. QED
      BY <2>2, <3>1, PassedCountsAlone DEF v
  <2>3. CASE r = s /\ o = u /\ v.obj[s].integrity = "ok"
    <3>1. Ok(x, u)
      BY <1>10, <2>3
    <3>2. Clash(s, x, u)
      BY <2>3, ClashMutual
    <3>. QED
      BY <2>3, <3>1, <3>2, PassedCountsAlone DEF v
  <2>. QED
    BY <1>10, <2>1, <2>2, <2>3
<1>12. NewOkIsAlone'
  <2>. SUFFICES ASSUME NEW t2 \in Tx, NEW x \in SessionIds, NEW r \in SessionIds,
                       x # r, Clash(x, r, req'[t2].user), IsNew(work'[t2], r),
                       r \in work'[t2].changed, work'[t2].obj[r].integrity = "ok"
                PROVE  sessions'[x] = None \/ sessions'[x].owner # req'[t2].user
    BY DEF NewOkIsAlone, IsNew, Clash, Sent
  <2>1. IsNew(work[t2], r) /\ Clash(x, r, req[t2].user)
    BY <1>8
  <2>2. CASE t2 # t
    BY <1>2, <2>1, <2>2 DEF VInv, NewOkIsAlone, db
  <2>3. CASE t2 = t /\ r # s
    <3>1. r \in w.changed /\ w.obj[r].integrity = "ok"
      BY <1>1, <2>3 DEF v
    <3>. QED
      BY <1>1, <1>2, <2>1, <2>3, <3>1 DEF VInv, NewOkIsAlone, db, w
  <2>4. CASE t2 = t /\ r = s
    <3>1. Clash(s, x, u)
      BY <2>1, <2>4, ClashMutual
    <3>2. ~(sessions[x] # None /\ sessions[x].owner = u)
      BY <2>4, <3>1, PassedIsAlone
    <3>. QED
      BY <1>1, <1>2, <2>4, <3>2 DEF db
  <2>. QED
    BY <2>2, <2>3, <2>4
<1>. QED
  BY <1>4, <1>7, <1>9, <1>11, <1>12 DEF VInv
(* What a commit leaves of a row: a new row comes with what was sent of it, a
   row on record keeps its log and its times. *)
LEMMA CommittedUpload ==
    ASSUME IInv, VInv, WholeSessions, NEW t \in Tx, Commit(t), NEW s \in SessionIds
    PROVE  /\ IsNew(work[t], s) =>
                /\ sessions'[s] = work[t].obj[s] /\ log'[s] = work[t].ins[s]
                /\ sessions'[s].owner = req[t].user /\ sessions'[s].source = "timer"
                /\ s \in work[t].changed
                /\ Sent(s, req[t].user, log'[s]) /\ Matches(sessions'[s], log'[s])
           /\ ~IsNew(work[t], s) => log'[s] = log[s]
           /\ (sessions[s] = None /\ ~IsNew(work[t], s)) => sessions'[s] = None
           /\ sessions[s] # None =>
                /\ log'[s] = log[s] /\ sessions'[s] # None
                /\ sessions'[s].owner = sessions[s].owner
                /\ sessions'[s].source = sessions[s].source
                /\ Matches(sessions'[s], log'[s])
                /\ \/ sessions'[s].integrity = sessions[s].integrity
                   \/ /\ s \in work[t].changed /\ sessions[s].owner = req[t].user
                      /\ sessions'[s].integrity = work[t].obj[s].integrity
<1>. DEFINE w == work[t]
<1>1. /\ pc[t] = "commit" /\ sessions'[s] = Result(t, s)
      /\ log'[s] = Merged(w.ins[s], log[s])
      /\ s \in Dirty(t) => RowOK(Result(t, s))
  BY CommitRow DEF Commit
<1>2. /\ UploadSlot("commit", req[t], w) /\ WorkShape(w) /\ WorkInv(w) /\ Own(req[t], w)
  BY <1>1, UploadWork
<1>3. IsLog(log[s]) /\ IsLog(w.ins[s])
  BY <1>2 DEF IInv, TypeOK, WorkShape
<1>4. PICK E, L : E = w.ins[s] /\ L = log[s]
  OBVIOUS
<1>5. s \in w.held => UploadRow("commit", req[t], w, s, log[s])
  BY <1>2 DEF UploadSlot
<1>. HIDE DEF w
<1>6. ~IsNew(w, s) => log'[s] = log[s]
  <2>. SUFFICES ASSUME ~IsNew(w, s) PROVE log'[s] = log[s]
    OBVIOUS
  <2>1. DOMAIN E = {}
    BY <1>2, <1>4, <1>5 DEF IsNew, WorkInv, UploadRow
  <2>2. Merged(E, L) = L
    BY <1>3, <1>4, <2>1, MergedNothing
  <2>. QED
    BY <1>1, <1>4, <2>2
<1>7. IsNew(w, s) =>
        /\ sessions'[s] = w.obj[s] /\ log'[s] = w.ins[s]
        /\ sessions'[s].owner = req[t].user /\ sessions'[s].source = "timer"
        /\ s \in w.changed
        /\ Sent(s, req[t].user, log'[s]) /\ Matches(sessions'[s], log'[s])
  <2>. SUFFICES ASSUME IsNew(w, s)
                PROVE  /\ sessions'[s] = w.obj[s] /\ log'[s] = w.ins[s]
                       /\ sessions'[s].owner = req[t].user /\ sessions'[s].source = "timer"
                       /\ s \in w.changed
                       /\ Sent(s, req[t].user, log'[s]) /\ Matches(sessions'[s], log'[s])
    OBVIOUS
  <2>1. /\ s \in w.changed /\ Sent(s, req[t].user, w.ins[s]) /\ Matches(w.obj[s], w.ins[s])
    BY <1>5 DEF IsNew, UploadRow
  <2>2. w.obj[s].owner = req[t].user /\ w.obj[s].source = "timer" /\ sessions[s] = None
    BY <1>2 DEF IsNew, WorkInv, Own
  <2>3. sessions'[s] = w.obj[s]
    BY <1>1 DEF IsNew, Result, Held, Fresh, w
  <2>4. DOMAIN L = {}
    BY <1>4, <2>2 DEF IInv, Committed, NoRowNoLog
  <2>5. Merged(E, L) = E
    BY <1>3, <1>4, <2>4, MergedNothing
  <2>6. log'[s] = w.ins[s]
    BY <1>1, <1>4, <2>5
  <2>. QED
    BY <2>1, <2>2, <2>3, <2>6
<1>8. CASE s \notin w.held
  <2>1. sessions'[s] = sessions[s] /\ ~IsNew(w, s)
    BY <1>1, <1>8 DEF Result, Held, IsNew, w
  <2>2. sessions[s] # None => Matches(sessions[s], log[s])
    BY DEF VInv, RowsWhole
  <2>. QED
    BY <1>6, <2>1, <2>2 DEF w
<1>9. CASE s \in w.held /\ w.base[s] = None
  <2>1. IsNew(w, s) /\ sessions[s] = None
    BY <1>2, <1>9 DEF IsNew, WorkInv
  <2>. QED
    BY <1>7, <2>1 DEF w
<1>10. CASE s \in w.held /\ w.base[s] # None
  <2>1. sessions[s] # None /\ sessions[s] \in Row /\ sessions[s].owner = req[t].user /\ ~IsNew(w, s)
    BY <1>2, <1>10 DEF WorkInv, Own, IInv, TypeOK, IsNew
  <2>2. log'[s] = log[s]
    BY <1>6, <2>1
  <2>3. Matches(sessions[s], L) /\ Matches(w.base[s], L) /\ Matches(w.obj[s], L)
    BY <1>4, <1>5, <1>10, <2>1 DEF VInv, RowsWhole, UploadRow
  <2>4. sessions'[s] = Updated(sessions[s], w.base[s], w.obj[s])
    BY <1>1, <1>10 DEF Result, Held, Fresh, w
  <2>5. CASE s \in w.changed
    <3>. DEFINE o == sessions'[s]
    <3>1. /\ o.status = Column(sessions[s].status, w.base[s].status, w.obj[s].status)
          /\ o.startedAt = Column(sessions[s].startedAt, w.base[s].startedAt, w.obj[s].startedAt)
          /\ o.endedAt = Column(sessions[s].endedAt, w.base[s].endedAt, w.obj[s].endedAt)
          /\ o.duration = Column(sessions[s].duration, w.base[s].duration, w.obj[s].duration)
          /\ o.owner = sessions[s].owner /\ o.source = sessions[s].source
          /\ o.integrity \in {sessions[s].integrity, w.obj[s].integrity}
      BY <2>1, <2>4 DEF Updated, Column, Row
    <3>2. RowOK(sessions'[s])
      BY <1>1, <1>10, <2>5 DEF Dirty, w
    <3>. HIDE DEF o
    <3>3. Matches(o, L)
      BY <2>3, <3>1 DEF Matches, Column
    <3>4. o # None
      BY <3>2, NoneIsNoRow DEF RowOK, o
    <3>. QED
      BY <1>4, <2>1, <2>2, <2>5, <3>1, <3>3, <3>4 DEF o, w
  <2>6. CASE s \notin w.changed
    <3>1. w.obj[s] = w.base[s]
      BY <1>2, <1>10, <2>6 DEF WorkInv
    <3>2. sessions'[s] = sessions[s]
      BY <2>1, <2>4, <3>1, UpdatedRow
    <3>. QED
      BY <1>4, <2>1, <2>2, <2>3, <3>2 DEF w
  <2>. QED
    BY <2>5, <2>6
<1>. QED
  BY <1>8, <1>9, <1>10

(* Committing keeps the invariant. *)
LEMMA CommitUpload ==
    ASSUME IInv, VInv, WholeSessions, NEW t \in Tx, Commit(t), IInv'
    PROVE  VInv'
<1>. DEFINE u == req[t].user
<1>1. /\ pc[t] = "commit" /\ pc'[t] = "idle" /\ req'[t] = NoReq /\ work'[t] = EmptyWork
      /\ \A t2 \in Tx \ {t} :
           pc'[t2] = pc[t2] /\ req'[t2] = req[t2] /\ work'[t2] = work[t2]
  BY DEF Commit, Finish, IInv, TypeOK
<1>2. /\ EmptyWork.held = {} /\ EmptyWork.changed = {}
      /\ NoReq.kind = "none" /\ NoReq.batch = <<>>
  BY DEF EmptyWork, NoReq
<1>3. RowsWhole'
  <2>. SUFFICES ASSUME NEW s \in SessionIds, sessions'[s] # None
                PROVE  /\ sessions'[s].source = "timer"
                       /\ Sent(s, sessions'[s].owner, log'[s])
                       /\ Matches(sessions'[s], log'[s])
    BY DEF RowsWhole, Sent, Matches
  <2>1. CASE IsNew(work[t], s)
    BY <2>1, CommittedUpload
  <2>2. CASE ~IsNew(work[t], s)
    <3>1. sessions[s] # None
      BY <2>2, CommittedUpload
    <3>. QED
      BY <2>2, <3>1, CommittedUpload DEF VInv, RowsWhole
  <2>. QED
    BY <2>1, <2>2
<1>4. ASSUME NEW t2 \in Tx PROVE UploadSlot(pc[t2], req[t2], work[t2])'
  <2>1. CASE t2 = t
    <3>1. /\ pc'[t2] = "idle" /\ req'[t2].kind = "none" /\ req'[t2].batch = <<>>
          /\ work'[t2].held = {}
      BY <1>1, <1>2, <2>1
    <3>. QED
      BY <3>1 DEF UploadSlot
  <2>2. CASE t2 # t
    <3>1. UploadSlot(pc[t2], req[t2], work[t2]) /\ WorkShape(work[t2]) /\ WorkInv(work[t2])
      BY UploadWork
    <3>2. ASSUME NEW s \in work[t2].held, work[t2].base[s] # None PROVE log'[s] = log[s]
      <4>1. s \in SessionIds /\ sessions[s] # None
        BY <3>1, <3>2 DEF WorkShape, WorkInv
      <4>. QED
        BY <4>1, CommittedUpload
    <3>3. ASSUME NEW s \in work[t2].held
          PROVE  UploadRow(pc'[t2], req'[t2], work'[t2], s, log'[s])
      <4>1. UploadRow(pc[t2], req[t2], work[t2], s, log[s])
        BY <3>1 DEF UploadSlot
      <4>. QED
        BY <1>1, <2>2, <3>2, <4>1 DEF UploadRow
    <3>. QED
      BY <1>1, <2>2, <3>1, <3>3 DEF UploadSlot
  <2>. QED
    BY <2>1, <2>2
<1>5. ASSUME NEW t2 \in Tx, NEW s, IsNew(work'[t2], s)
      PROVE  t2 # t /\ IsNew(work[t2], s) /\ req'[t2] = req[t2] /\ work'[t2] = work[t2]
  BY <1>1, <1>2, <1>5 DEF IsNew
<1>6. NewRowsApart'
  <2>. SUFFICES ASSUME NEW t2 \in Tx, NEW t3 \in Tx, NEW x \in SessionIds, NEW r \in SessionIds,
                       t2 # t3, IsNew(work'[t2], x), IsNew(work'[t3], r)
                PROVE  req'[t2].user # req'[t3].user
    BY DEF NewRowsApart, IsNew
  <2>. QED
    BY <1>5 DEF VInv, NewRowsApart
<1>7. ASSUME NEW x \in SessionIds, NEW o, Ok(x, o)' PROVE Ok(x, o)
  <2>1. CASE sessions'[x] # None /\ sessions'[x].owner = o /\ sessions'[x].integrity = "ok"
    <3>1. CASE IsNew(work[t], x)
      BY <2>1, <3>1, CommittedUpload DEF Ok
    <3>2. CASE ~IsNew(work[t], x)
      <4>1. sessions[x] # None
        BY <2>1, <3>2, CommittedUpload
      <4>. QED
        BY <2>1, <4>1, CommittedUpload DEF Ok
    <3>. QED
      BY <3>1, <3>2
  <2>2. CASE \E t2 \in Tx : /\ x \in work'[t2].changed /\ req'[t2].user = o
                            /\ work'[t2].obj[x].integrity = "ok"
    <3>1. PICK t2 \in Tx : /\ x \in work'[t2].changed /\ req'[t2].user = o
                           /\ work'[t2].obj[x].integrity = "ok"
      BY <2>2
    <3>2. t2 # t
      BY <1>1, <1>2, <3>1
    <3>. QED
      BY <1>1, <3>1, <3>2 DEF Ok
  <2>. QED
    BY <1>7, <2>1, <2>2 DEF Ok
<1>8. OneCounts'
  <2>. SUFFICES ASSUME NEW x \in SessionIds, NEW r \in SessionIds, NEW o \in Users \cup {None},
                       x # r, Clash(x, r, o), Ok(x, o)', Ok(r, o)'
                PROVE  FALSE
    BY DEF OneCounts, Clash, Sent
  <2>. QED
    BY <1>7 DEF VInv, OneCounts
<1>9. NewOkIsAlone'
  <2>. SUFFICES ASSUME NEW t2 \in Tx, NEW x \in SessionIds, NEW r \in SessionIds,
                       x # r, Clash(x, r, req'[t2].user), IsNew(work'[t2], r),
                       r \in work'[t2].changed, work'[t2].obj[r].integrity = "ok"
                PROVE  sessions'[x] = None \/ sessions'[x].owner # req'[t2].user
    BY DEF NewOkIsAlone, IsNew, Clash, Sent
  <2>1. t2 # t /\ IsNew(work[t2], r) /\ req'[t2] = req[t2] /\ work'[t2] = work[t2]
    BY <1>5
  <2>2. sessions[x] = None \/ sessions[x].owner # req[t2].user
    BY <2>1 DEF VInv, NewOkIsAlone
  <2>3. CASE IsNew(work[t], x)
    <3>1. u # req[t2].user
      BY <2>1, <2>3 DEF VInv, NewRowsApart
    <3>. QED
      BY <2>1, <2>3, <3>1, CommittedUpload
  <2>4. CASE ~IsNew(work[t], x)
    BY <2>1, <2>2, <2>4, CommittedUpload
  <2>. QED
    BY <2>3, <2>4
<1>. QED
  BY <1>3, <1>4, <1>6, <1>8, <1>9 DEF VInv

(* Every step keeps the invariant, when all requests are uploads. *)
LEMMA NextUpload ==
    ASSUME Kinds \subseteq {"sync"}, WholeSessions
    PROVE  IInv /\ VInv /\ [Next]_vars => VInv'
<1>. SUFFICES ASSUME IInv, VInv, [Next]_vars PROVE VInv'
  OBVIOUS
<1>1. CASE Tick \/ UNCHANGED vars
  <2>1. UNCHANGED <<sessions, log, pc, req, work>>
    BY <1>1 DEF Tick, vars, db
  <2>2. RowsWhole' /\ NewRowsApart'
    BY <2>1 DEF VInv, RowsWhole, NewRowsApart, IsNew
  <2>3. \A t \in Tx : UploadSlot(pc[t], req[t], work[t])'
    BY <2>1 DEF VInv, UploadSlot, UploadRow
  <2>4. OneCounts'
    BY <2>1 DEF VInv, OneCounts, Clash, Ok, Sent
  <2>5. NewOkIsAlone'
    BY <2>1 DEF VInv, NewOkIsAlone, Clash, Sent, IsNew
  <2>. QED
    BY <2>2, <2>3, <2>4, <2>5 DEF VInv
<1>2. ASSUME NEW u \in Users, NEW s \in SessionIds, NEW span \in ManualSpans,
             CreateManual(u, s, span)
      PROVE  FALSE
  BY <1>2 DEF CreateManual, UserRequest
<1>3. ASSUME NEW t \in Tx, Arrive(t) PROVE VInv'
  <2>1. CASE \E u \in Users, batch \in Batches : BeginSync(t, u, batch)
    BY <2>1, BeginUpload
  <2>2. CASE \E u \in Users, s \in SessionIds, at \in OccurredAt :
               \/ BeginStart(t, u, s, at)
               \/ \E type \in {"pause", "resume", "stop"} : BeginTransition(t, u, s, type, at)
    BY <2>2 DEF BeginStart, BeginTransition, UserRequest
  <2>. QED
    BY <1>3, <2>1, <2>2 DEF Arrive
<1>4. ASSUME NEW t \in Tx, BeginReap(t) PROVE FALSE
  BY <1>4 DEF BeginReap
<1>5. ASSUME NEW t \in Tx, Abort(t) PROVE VInv'
  BY <1>5, AbortUpload
<1>6. ASSUME NEW t \in Tx, Proceed(t) PROVE VInv'
  <2>1. req[t].kind \in {"none", "sync"}
    BY DEF VInv, UploadSlot
  <2>2. CASE LoadItem(t) \/ FlushRow(t) \/ ReadLog(t) \/ FlushEvents(t)
    BY <2>2, LoadItemUpload, FlushRowUpload, ReadUpload, FlushEventsUpload
  <2>3. CASE DeriveSync(t)
    BY <2>3, DeriveUpload
  <2>4. CASE Commit(t)
    BY <2>4, NextSafe, CommitUpload
  <2>5. ~DeriveTransition(t) /\ ~DeriveReap(t) /\ ~CommitStart(t) /\ ~\E s \in SessionIds : ReapRead(t, s)
    BY <2>1 DEF DeriveTransition, DeriveReap, CommitStart, ReapRead
  <2>. QED
    BY <1>6, <2>2, <2>3, <2>4, <2>5 DEF Proceed
<1>. QED
  BY <1>1, <1>2, <1>3, <1>4, <1>5, <1>6 DEF Next

(* The invariant holds at the start. *)
LEMMA InitUpload == Init => VInv
<1>. SUFFICES ASSUME Init PROVE VInv
  OBVIOUS
<1>1. /\ EmptyWork.held = {} /\ EmptyWork.changed = {}
      /\ NoReq.kind = "none" /\ NoReq.batch = <<>>
  BY DEF EmptyWork, NoReq
<1>2. \A t \in Tx : pc[t] = "idle" /\ req[t] = NoReq /\ work[t] = EmptyWork
  BY DEF Init
<1>3. \A s \in SessionIds : sessions[s] = None
  BY DEF Init
<1>4. UploadSlot("idle", NoReq, EmptyWork)
  BY <1>1 DEF UploadSlot
<1>5. \A s \in SessionIds, u \in Users \cup {None} : ~Ok(s, u)
  BY <1>1, <1>2, <1>3 DEF Ok
<1>. QED
  BY <1>1, <1>2, <1>3, <1>4, <1>5 DEF VInv, RowsWhole, NewRowsApart, OneCounts, NewOkIsAlone, IsNew

(* A log with a stop says when its session ended. *)
LEMMA EndIsATime ==
    ASSUME NEW L, IsLog(L), Stopped(L) PROVE DeriveTimeline(L, 0).endedAt # NoTime
<1>1. PICK D \in SUBSET (1..MaxSeq) : L \in [D -> Event]
  BY DEF IsLog
<1>2. IsFiniteSet(DOMAIN L) /\ DOMAIN L \in SUBSET Nat
  BY LogFinite
<1>. DEFINE n == Min(Stops(L))
            ats == {L[m].at : m \in Earlier(L, n) \cup {n}}
<1>3. n \in DOMAIN L
  <2>1. Stops(L) \in SUBSET Nat /\ Stops(L) # {}
    BY <1>2 DEF Stops, Stopped
  <2>2. PICK x \in Stops(L) : \A y \in Stops(L) : x <= y
    BY <2>1, NatLeast
  <2>3. n \in Stops(L)
    BY <2>2 DEF Min
  <2>. QED
    BY <2>3 DEF Stops
<1>. HIDE DEF n
<1>4. Earlier(L, n) \cup {n} \subseteq DOMAIN L
  BY <1>3 DEF Earlier
<1>5. ats \in SUBSET Nat /\ ats # {} /\ IsFiniteSet(ats)
  <2>1. IsFiniteSet(Earlier(L, n) \cup {n})
    BY <1>2, <1>4, FS_Subset
  <2>2. IsFiniteSet(ats)
    <3>. DEFINE f == [m \in Earlier(L, n) \cup {n} |-> L[m].at]
    <3>1. f \in Surjection(Earlier(L, n) \cup {n}, ats)
      BY DEF Surjection
    <3>. QED
      BY <2>1, <3>1, FS_Surjection
  <2>3. \A m \in DOMAIN L : L[m].at \in Nat
    BY <1>1 DEF Event
  <2>. QED
    BY <1>4, <2>2, <2>3
<1>6. Max(ats) \in Nat
  BY <1>5, HasMax
<1>. HIDE DEF ats
<1>7. DeriveTimeline(L, 0).endedAt = Max(ats)
  BY DEF DeriveTimeline, Clamped, ats, n
<1>. QED
  BY <1>6, <1>7 DEF NoTime

(* Sessions that are finished, on record and passed do not overlap. *)
LEMMA PassedApart == ASSUME IInv, VInv PROVE VerifiedDisjoint
<1>. SUFFICES ASSUME NEW s \in SessionIds, NEW r \in SessionIds, s # r,
                     Verified(sessions[s]), Verified(sessions[r]),
                     sessions[s].owner = sessions[r].owner
              PROVE  \/ sessions[s].endedAt <= sessions[r].startedAt
                     \/ sessions[r].endedAt <= sessions[s].startedAt
  BY DEF VerifiedDisjoint
<1>. DEFINE u == sessions[s].owner
<1>1. /\ sessions[s] \in Row /\ sessions[r] \in Row /\ u \in Users
      /\ sessions[s] # None /\ sessions[r] # None
  BY DEF Verified, IInv, TypeOK, Row
<1>2. /\ Sent(s, u, log[s]) /\ Sent(r, u, log[r])
      /\ Matches(sessions[s], log[s]) /\ Matches(sessions[r], log[r])
  BY <1>1 DEF VInv, RowsWhole
<1>3. Stopped(log[s]) /\ Stopped(log[r])
  BY <1>2, DerivedFields DEF Verified, Matches
<1>4. ~Clash(s, r, u)
  BY <1>1 DEF VInv, OneCounts, Ok, Verified
<1>5. sessions[s].endedAt # NoTime /\ sessions[r].endedAt # NoTime
  BY <1>2, <1>3, EndIsATime DEF Matches, IInv, TypeOK
<1>6. /\ sessions[s].startedAt \in Nat /\ sessions[r].startedAt \in Nat
      /\ sessions[s].endedAt \in Nat /\ sessions[r].endedAt \in Nat
  BY <1>1, <1>5 DEF Row
<1>7. ~(/\ sessions[s].startedAt < sessions[r].endedAt
        /\ sessions[s].endedAt > sessions[r].startedAt)
  BY <1>2, <1>3, <1>4, <1>5 DEF Clash, Matches
<1>. QED
  BY <1>6, <1>7

(* No stretch of time is verified twice, whatever number of devices upload *)
(* at once, when each sends a session whole, as the outbox does.           *)
THEOREM NoTimeTwice ==
    ASSUME Kinds \subseteq {"sync"}, WholeSessions
    PROVE  Spec => []VerifiedDisjoint
<1>1. IInv /\ VInv /\ [Next]_vars => VInv'
  BY NextUpload
<1>2. IInv /\ VInv => VerifiedDisjoint
  BY PassedApart
<1>. QED
  BY <1>1, <1>2, InitUpload, Inductive, PTL DEF Spec
=============================================================================
