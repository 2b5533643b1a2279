---------------------------- MODULE Phone_proofs ----------------------------
(***************************************************************************)
(* Theorems about Phone, for any accounts, number of simultaneous button   *)
(* presses and flushes, batch limit, kinds and number of faults, and       *)
(* bounds.                                                                 *)
(*                                                                         *)
(* That the server never meets a contradiction is not inductive: an event  *)
(* stored now is safe only if no upload in progress, none that is late and *)
(* not the server itself knows another event of the same number.  Safe     *)
(* speaks of every copy of a session's log, wherever it is: the copies say *)
(* the same (Compatible), none knows more than the phone while the row is  *)
(* there (Complete), numbers are given out without holes (Unbroken,        *)
(* NextNumber), and a session about to be inserted has no copies (Fresh).  *)
(*                                                                         *)
(* The other promises hold until a button is pressed while a press is      *)
(* handled (crossed): the screen and the one press in progress rely on     *)
(* each other (Screened), the session that goes on is the last one         *)
(* (Remembered), and a flush works on sessions that are over (Uploaded).   *)
(***************************************************************************)
EXTENDS Phone, Sequences, TLAPS

\* The copies of a session's log: in uploads, on the server, on the phone.
Uploads(s) ==
    {fl[f].payload[s].log : f \in {g \in Flushers : s \in DOMAIN fl[g].payload}}
        \cup {r.payload[s].log : r \in {q \in late : s \in DOMAIN q.payload}}

Copies(s) == {server[s], events[s]} \cup Uploads(s)

Compatible == \A s \in Session : \A L \in Copies(s), M \in Copies(s) : Agree(L, M)

Complete ==
    \A s \in Session : Exists(s) => \A L \in Copies(s) : DOMAIN L \subseteq DOMAIN events[s]

Unbroken ==
    \A s \in Session :
        /\ events[s] \in Seq(EventType)
        /\ ~Exists(s) => events[s] = <<>>

NextNumber ==
    \A t \in Taps, s \in Session :
        tap[t].step = "append" /\ tap[t].s = s /\ Exists(s)
            => tap[t].n <= Len(events[s]) + 1

\* A session that was never on the phone.
Untouched(s) == ~Exists(s) /\ \A L \in Copies(s) : DOMAIN L = {}

\* Nobody else works on a session that is about to be inserted.
Fresh ==
    /\ \A s \in Session : s > made => Untouched(s)
    /\ ui.session # None => ui.session <= made
    /\ \A t \in Taps : tap[t].step # "none" => tap[t].s <= made
    /\ \A t \in Taps, s \in Session :
          tap[t].step = "insert" /\ tap[t].s = s =>
              /\ tap[t].n = 1 /\ Untouched(s) /\ ui.session # s
              /\ \A u \in Taps : tap[u].step # "none" /\ tap[u].s = s => u = t

Safe == Compatible /\ Complete /\ Unbroken /\ NextNumber /\ Fresh

IInv == TypeOK /\ Safe
-----------------------------------------------------------------------------
(* Logs.                                                                   *)

(* The empty log is a log, and so is any sequence of events. *)
LEMMA SequenceIsLog ==
    /\ IsLog(<<>>) /\ DOMAIN <<>> = {}
    /\ \A L \in Seq(EventType) : IsLog(L) /\ DOMAIN L = 1..Len(L)
  BY DEF IsLog

(* An event with a number at most one past the end leaves a sequence. *)
LEMMA InsertedNext ==
    ASSUME NEW L \in Seq(EventType), NEW n \in Nat \ {0}, NEW e \in EventType,
           n <= Len(L) + 1
    PROVE  /\ Insert(L, n, e) \in Seq(EventType)
           /\ Len(Insert(L, n, e)) >= Len(L)
<1>1. CASE n <= Len(L)
  <2>1. DOMAIN L \cup {n} = 1..Len(L)
    BY <1>1
  <2>2. Insert(L, n, e) = [m \in 1..Len(L) |-> L[m]]
    BY <1>1, <2>1 DEF Insert
  <2>. QED
    BY <2>2
<1>2. CASE n = Len(L) + 1
  <2>1. DOMAIN L \cup {n} = 1..(Len(L) + 1)
    BY <1>2
  <2>2. Insert(L, n, e) = [m \in 1..(Len(L) + 1) |-> IF m \in DOMAIN L THEN L[m] ELSE e]
    BY <2>1 DEF Insert
  <2>3. Insert(L, n, e) \in [1..(Len(L) + 1) -> EventType]
    BY <2>2
  <2>4. Len(L) + 1 \in Nat
    OBVIOUS
  <2>. QED
    BY <2>3, <2>4
<1>. QED
  BY <1>1, <1>2

(* What the server knows after an upload is what it knew and what it got. *)
LEMMA Absorbed ==
    ASSUME NEW L, NEW M
    PROVE  /\ DOMAIN Absorb(L, M) = DOMAIN L \cup DOMAIN M
           /\ \A m \in DOMAIN L : Absorb(L, M)[m] = L[m]
           /\ \A m \in DOMAIN M \ DOMAIN L : Absorb(L, M)[m] = M[m]
           /\ IsLog(L) /\ IsLog(M) => IsLog(Absorb(L, M))
  BY DEF Absorb, IsLog

(* The next number is one past the end. *)
LEMMA NextIsPastEnd ==
    ASSUME NEW L \in Seq(EventType)
    PROVE  NextSequence(L) = Len(L) + 1
<1>. DEFINE S == DOMAIN L \cup {0}
<1>1. S = 0..Len(L)
  OBVIOUS
<1>2. Len(L) \in S /\ \A y \in S : Len(L) >= y
  BY <1>1
<1>. HIDE DEF S
<1>3. Max(S) \in S /\ \A y \in S : Max(S) >= y
  BY <1>2 DEF Max
<1>4. Max(S) = Len(L)
  BY <1>1, <1>2, <1>3
<1>. QED
  BY <1>4 DEF NextSequence, S

(* Who knows a session's log. *)
LEMMA CopyOf ==
    ASSUME NEW s
    PROVE  /\ server[s] \in Copies(s) /\ events[s] \in Copies(s)
           /\ \A f \in Flushers : s \in DOMAIN fl[f].payload => fl[f].payload[s].log \in Copies(s)
           /\ \A r \in late : s \in DOMAIN r.payload => r.payload[s].log \in Copies(s)
           /\ \A L \in Copies(s) :
                \/ L = server[s] \/ L = events[s]
                \/ \E f \in Flushers : s \in DOMAIN fl[f].payload /\ L = fl[f].payload[s].log
                \/ \E r \in late : s \in DOMAIN r.payload /\ L = r.payload[s].log
  BY DEF Copies, Uploads
-----------------------------------------------------------------------------
(* Steps that spread no log further than it was.                           *)

\* What L says of session s, some copy of the log says.
Drawn(L, s) == \A n \in DOMAIN L : \E A \in Copies(s) : n \in DOMAIN A /\ L[n] = A[n]

\* No row is added, a row that stays keeps its events, one that goes loses
\* them, and every copy of a log says what some copy said before.
Spreads ==
    /\ \A s \in Session : Exists(s)' => Exists(s) /\ events'[s] = events[s]
    /\ \A s \in Session : ~Exists(s)' => events'[s] = <<>>
    /\ \A s \in Session : \A L \in Copies(s)' : Drawn(L, s)

(* A copy is drawn from the copies. *)
LEMMA CopyIsDrawn == ASSUME NEW s, NEW L \in Copies(s) PROVE Drawn(L, s)
  BY DEF Drawn

(* Such a step keeps the logs in order. *)
LEMMA SpreadKeeps ==
    ASSUME IInv, Spreads
    PROVE  /\ Compatible' /\ Complete' /\ Unbroken'
           /\ \A s \in Session : Untouched(s) => Untouched(s)'
<1>1. Compatible'
  BY DEF IInv, Safe, Compatible, Agree, Spreads, Drawn
<1>2. Complete'
  BY DEF IInv, Safe, Complete, Spreads, Drawn
<1>3. Unbroken'
  <2>1. <<>> \in Seq(EventType)
    OBVIOUS
  <2>2. ASSUME NEW s \in Session
        PROVE  events'[s] \in Seq(EventType) /\ (~Exists(s)' => events'[s] = <<>>)
    <3>1. CASE Exists(s)'
      BY <3>1 DEF IInv, Safe, Unbroken, Spreads
    <3>2. CASE ~Exists(s)'
      <4>1. events'[s] = <<>>
        BY <3>2 DEF Spreads
      <4>. QED
        BY <2>1, <4>1
    <3>. QED
      BY <3>1, <3>2
  <2>. QED
    BY <2>2 DEF Unbroken
<1>4. ASSUME NEW s \in Session, Untouched(s) PROVE Untouched(s)'
  <2>1. ~Exists(s)'
    BY <1>4 DEF Untouched, Spreads
  <2>2. ASSUME NEW L \in Copies(s)' PROVE DOMAIN L = {}
    BY <1>4, <2>2 DEF Untouched, Spreads, Drawn
  <2>. QED
    BY <2>1, <2>2 DEF Untouched
<1>. QED
  BY <1>1, <1>2, <1>3, <1>4

(* A step that leaves the button presses alone as well keeps all of Safe. *)
LEMMA Quiet ==
    ASSUME IInv, UNCHANGED <<ui, tap, made>>, Spreads
    PROVE  Safe'
<1>1. \A t \in Taps : tap[t].step # "none" => tap[t].s \in Session
  BY DEF IInv, TypeOK, IsTap
<1>2. NextNumber'
  BY <1>1 DEF IInv, Safe, NextNumber, Spreads
<1>3. Fresh'
  <2>1. \A s \in Session : Untouched(s) => Untouched(s)'
    BY SpreadKeeps
  <2>. QED
    BY <1>1, <2>1 DEF IInv, Safe, Fresh
<1>. QED
  BY <1>2, <1>3, SpreadKeeps DEF Safe
-----------------------------------------------------------------------------
(* Flushes.                                                                *)

(* Every session named by a request or a flush has entries of the right kind. *)
LEMMA EmptyPayload == IsPayload(<<>>) /\ DOMAIN <<>> = {} /\ IsFlush(NoFlush)
                      /\ NoFlush.payload = <<>>
<1>1. DOMAIN <<>> = {}
  BY SequenceIsLog
<1>. QED
  BY <1>1 DEF IsPayload, IsFlush, NoFlush

FlushSteps == {"idle", "build", "mark", "wait", "settle", "requeue", "reject"}

(* Changing one field of a flush makes a flush. *)
LEMMA FlushEdit ==
    ASSUME NEW F, IsFlush(F)
    PROVE  /\ \A x \in FlushSteps :
                IsFlush([F EXCEPT !.step = x]) /\ [F EXCEPT !.step = x].payload = F.payload
                /\ [F EXCEPT !.step = x].elig = F.elig
           /\ \A x \in SUBSET F.elig :
                IsFlush([F EXCEPT !.todo = x]) /\ [F EXCEPT !.todo = x].payload = F.payload
                /\ [F EXCEPT !.todo = x].elig = F.elig
           /\ \A x \in Accounts \cup {Nobody} :
                IsFlush([F EXCEPT !.from = x]) /\ [F EXCEPT !.from = x].payload = F.payload
           /\ \A x : IsPayload(x) /\ DOMAIN x \subseteq F.elig =>
                IsFlush([F EXCEPT !.payload = x]) /\ [F EXCEPT !.payload = x].payload = x
           /\ IsFlush([F EXCEPT !.reply = "none"])
           /\ [F EXCEPT !.reply = "none"].payload = F.payload
<1>1. PICK a, b, c, d, e, g :
        F = [step |-> a, elig |-> b, todo |-> c, payload |-> d, from |-> e, reply |-> g]
  BY DEF IsFlush
<1>2. /\ a \in FlushSteps /\ b \subseteq Session /\ c \subseteq b
      /\ IsPayload(d) /\ DOMAIN d \subseteq b
      /\ e \in Accounts \cup {Nobody} /\ g \in {"none", "accepted", "refused"}
      /\ F.elig = b /\ F.payload = d
  BY <1>1 DEF IsFlush, FlushSteps
<1>3. ASSUME NEW s1 \in FlushSteps, NEW t1 \in SUBSET b, NEW p1, IsPayload(p1),
             DOMAIN p1 \subseteq b, NEW f1 \in Accounts \cup {Nobody},
             NEW r1 \in {"none", "accepted", "refused"},
             NEW G, G = [step |-> s1, elig |-> b, todo |-> t1, payload |-> p1,
                         from |-> f1, reply |-> r1]
      PROVE  IsFlush(G) /\ G.payload = p1 /\ G.elig = b
  BY <1>2, <1>3 DEF IsFlush, FlushSteps
<1>4. ASSUME NEW x \in FlushSteps
      PROVE  IsFlush([F EXCEPT !.step = x]) /\ [F EXCEPT !.step = x].payload = F.payload
             /\ [F EXCEPT !.step = x].elig = F.elig
  <2>1. [F EXCEPT !.step = x] =
          [step |-> x, elig |-> b, todo |-> c, payload |-> d, from |-> e, reply |-> g]
    BY <1>1
  <2>. QED
    BY <1>2, <1>3, <2>1
<1>5. ASSUME NEW x \in SUBSET F.elig
      PROVE  IsFlush([F EXCEPT !.todo = x]) /\ [F EXCEPT !.todo = x].payload = F.payload
             /\ [F EXCEPT !.todo = x].elig = F.elig
  <2>1. [F EXCEPT !.todo = x] =
          [step |-> a, elig |-> b, todo |-> x, payload |-> d, from |-> e, reply |-> g]
    BY <1>1
  <2>. QED
    BY <1>2, <1>3, <2>1
<1>6. ASSUME NEW x \in Accounts \cup {Nobody}
      PROVE  IsFlush([F EXCEPT !.from = x]) /\ [F EXCEPT !.from = x].payload = F.payload
  <2>1. [F EXCEPT !.from = x] =
          [step |-> a, elig |-> b, todo |-> c, payload |-> d, from |-> x, reply |-> g]
    BY <1>1
  <2>. QED
    BY <1>2, <1>3, <2>1
<1>7. ASSUME NEW x, IsPayload(x), DOMAIN x \subseteq F.elig
      PROVE  IsFlush([F EXCEPT !.payload = x]) /\ [F EXCEPT !.payload = x].payload = x
  <2>1. [F EXCEPT !.payload = x] =
          [step |-> a, elig |-> b, todo |-> c, payload |-> x, from |-> e, reply |-> g]
    BY <1>1
  <2>. QED
    BY <1>2, <1>3, <1>7, <2>1
<1>8. IsFlush([F EXCEPT !.reply = "none"]) /\ [F EXCEPT !.reply = "none"].payload = F.payload
  <2>1. [F EXCEPT !.reply = "none"] =
          [step |-> a, elig |-> b, todo |-> c, payload |-> d, from |-> e, reply |-> "none"]
    BY <1>1
  <2>. QED
    BY <1>2, <1>3, <2>1
<1>. QED
  BY <1>4, <1>5, <1>6, <1>7, <1>8

(* So does going to the beginning of a loop, ... *)
LEMMA FlushGoto ==
    ASSUME NEW F, IsFlush(F), NEW step \in FlushSteps, NEW todo \in SUBSET F.elig
    PROVE  /\ IsFlush([F EXCEPT !.step = step, !.todo = todo])
           /\ [F EXCEPT !.step = step, !.todo = todo].payload = F.payload
<1>1. PICK G : G = [F EXCEPT !.step = step]
  OBVIOUS
<1>2. IsFlush(G) /\ G.payload = F.payload /\ G.elig = F.elig
  BY <1>1, FlushEdit
<1>3. IsFlush([G EXCEPT !.todo = todo]) /\ [G EXCEPT !.todo = todo].payload = F.payload
  BY <1>2, FlushEdit
<1>4. [F EXCEPT !.step = step, !.todo = todo] = [G EXCEPT !.todo = todo]
  BY <1>1
<1>. QED
  BY <1>3, <1>4

(* ... forgetting an answer on the way, ... *)
LEMMA FlushGotoAgain ==
    ASSUME NEW F, IsFlush(F), NEW step \in FlushSteps, NEW todo \in SUBSET F.elig
    PROVE  /\ IsFlush([[F EXCEPT !.step = step, !.todo = todo] EXCEPT !.reply = "none"])
           /\ [[F EXCEPT !.step = step, !.todo = todo] EXCEPT !.reply = "none"].payload
                = F.payload
<1>1. PICK H : H = [F EXCEPT !.step = step, !.todo = todo]
  OBVIOUS
<1>2. IsFlush(H) /\ H.payload = F.payload
  BY <1>1, FlushGoto
<1>3. IsFlush([H EXCEPT !.reply = "none"]) /\ [H EXCEPT !.reply = "none"].payload = F.payload
  BY <1>2, FlushEdit
<1>. QED
  BY <1>1, <1>3

(* ... adding to the payload, ... *)
LEMMA FlushPack ==
    ASSUME NEW F, IsFlush(F), NEW todo \in SUBSET F.elig,
           NEW P, IsPayload(P), DOMAIN P \subseteq F.elig
    PROVE  /\ IsFlush([F EXCEPT !.todo = todo, !.payload = P])
           /\ [F EXCEPT !.todo = todo, !.payload = P].payload = P
<1>1. PICK K : K = [F EXCEPT !.todo = todo]
  OBVIOUS
<1>2. IsFlush(K) /\ K.payload = F.payload /\ K.elig = F.elig
  BY <1>1, FlushEdit
<1>3. IsFlush([K EXCEPT !.payload = P]) /\ [K EXCEPT !.payload = P].payload = P
  BY <1>2, FlushEdit
<1>4. [F EXCEPT !.todo = todo, !.payload = P] = [K EXCEPT !.payload = P]
  BY <1>1
<1>. QED
  BY <1>3, <1>4

(* ... and sending. *)
LEMMA FlushSend ==
    ASSUME NEW F, IsFlush(F), NEW step \in FlushSteps, NEW from \in Accounts \cup {Nobody}
    PROVE  /\ IsFlush([F EXCEPT !.step = step, !.from = from])
           /\ [F EXCEPT !.step = step, !.from = from].payload = F.payload
<1>1. PICK G : G = [F EXCEPT !.step = step]
  OBVIOUS
<1>2. IsFlush(G) /\ G.payload = F.payload
  BY <1>1, FlushEdit
<1>3. IsFlush([G EXCEPT !.from = from]) /\ [G EXCEPT !.from = from].payload = F.payload
  BY <1>2, FlushEdit
<1>4. [F EXCEPT !.step = step, !.from = from] = [G EXCEPT !.from = from]
  BY <1>1
<1>. QED
  BY <1>3, <1>4

(* A new flush is a flush. *)
LEMMA FlushBegun ==
    ASSUME NEW E \in SUBSET Session
    PROVE  /\ IsFlush([NoFlush EXCEPT !.step = "build", !.elig = E, !.todo = E])
           /\ [NoFlush EXCEPT !.step = "build", !.elig = E, !.todo = E].payload = <<>>
<1>. DEFINE Made(step, elig, todo) ==
              [step |-> step, elig |-> elig, todo |-> todo, payload |-> <<>>,
               from |-> Nobody, reply |-> "none"]
<1>1. ASSUME NEW G, G = Made("build", E, E) PROVE IsFlush(G) /\ G.payload = <<>>
  BY <1>1, EmptyPayload DEF IsFlush
<1>2. PICK G : G = [NoFlush EXCEPT !.step = "build"]
  OBVIOUS
<1>3. PICK H : H = [G EXCEPT !.elig = E]
  OBVIOUS
<1>4. G = Made("build", {}, {})
  BY <1>2 DEF NoFlush
<1>5. H = Made("build", E, {})
  BY <1>3, <1>4
<1>6. [H EXCEPT !.todo = E] = Made("build", E, E)
  BY <1>5
<1>7. [NoFlush EXCEPT !.step = "build", !.elig = E, !.todo = E] = [H EXCEPT !.todo = E]
  BY <1>2, <1>3
<1>. QED
  BY <1>1, <1>6, <1>7

(* A flush that moves on, with a payload of known logs, and late requests of
   known logs, spread nothing. *)
LEMMA FlushMoves ==
    ASSUME IInv, NEW f \in Flushers, NEW p, IsFlush(p),
           fl' = [fl EXCEPT ![f] = p], UNCHANGED <<events, server>>,
           \A s \in DOMAIN p.payload : p.payload[s].log \in Copies(s),
           \A r \in late' : /\ IsRequest(r)
                            /\ \A s \in DOMAIN r.payload : r.payload[s].log \in Copies(s)
    PROVE  /\ fl' = [g \in Flushers |-> fl'[g]] /\ \A g \in Flushers : IsFlush(fl'[g])
           /\ \A r \in late' : IsRequest(r)
           /\ \A s \in Session : \A L \in Copies(s)' : Drawn(L, s)
<1>1. fl' = [g \in Flushers |-> IF g = f THEN p ELSE fl[g]]
  BY DEF IInv, TypeOK
<1>2. \A g \in Flushers : IsFlush(fl'[g])
  BY <1>1 DEF IInv, TypeOK
<1>3. ASSUME NEW s \in Session PROVE Copies(s)' \subseteq Copies(s)
  <2>1. \A g \in Flushers : s \in DOMAIN fl'[g].payload => fl'[g].payload[s].log \in Copies(s)
    BY <1>1, CopyOf
  <2>2. \A r \in late' : s \in DOMAIN r.payload => r.payload[s].log \in Copies(s)
    OBVIOUS
  <2>3. Copies(s)' = {server[s], events[s]}
           \cup {fl'[g].payload[s].log : g \in {h \in Flushers : s \in DOMAIN fl'[h].payload}}
           \cup {r.payload[s].log : r \in {q \in late' : s \in DOMAIN q.payload}}
    BY DEF Copies, Uploads
  <2>. QED
    BY <2>1, <2>2, <2>3, CopyOf
<1>. QED
  BY <1>1, <1>2, <1>3, CopyIsDrawn

(* The request of a flush carries the logs of its payload. *)
LEMMA RequestKnown ==
    ASSUME IInv, NEW f \in Flushers
    PROVE  /\ IsRequest(Request(f)) /\ Request(f).payload = fl[f].payload
           /\ \A s \in DOMAIN Request(f).payload : Request(f).payload[s].log \in Copies(s)
<1>1. IsFlush(fl[f])
  BY DEF IInv, TypeOK
<1>. QED
  BY <1>1, CopyOf DEF Request, IsRequest, IsFlush

(* Marking a row changes its sync state only. *)
LEMMA Marked ==
    ASSUME IInv, NEW s, NEW state \in SyncState, SetSync(s, state)
    PROVE  /\ rows' \in [Session -> Row \cup {None}]
           /\ \A r \in Session : Exists(r)' <=> Exists(r)
<1>1. rows \in [Session -> Row \cup {None}] /\ None \notin Row
  BY NoneIsNothing DEF IInv, TypeOK
<1>2. CASE ~Exists(s)
  BY <1>1, <1>2 DEF SetSync, Exists
<1>3. CASE Exists(s) /\ s \notin Session
  <2>1. rows' = rows
    BY <1>1, <1>3 DEF SetSync
  <2>. QED
    BY <1>1, <2>1 DEF Exists
<1>4. CASE Exists(s) /\ s \in Session
  <2>1. rows[s] \in Row
    BY <1>1, <1>4 DEF Exists
  <2>2. [rows[s] EXCEPT !.sync = state] \in Row
    BY <2>1 DEF Row
  <2>3. rows' = [rows EXCEPT ![s] = [rows[s] EXCEPT !.sync = state]]
    BY <1>4 DEF SetSync
  <2>. QED
    BY <1>1, <1>4, <2>1, <2>2, <2>3 DEF Exists
<1>. QED
  BY <1>2, <1>3, <1>4

\* The actions of a flush that leave the server, the screen and the rows'
\* places alone.
FlushAction(f) ==
    \/ BeginFlush(f) \/ BuildPayload(f) \/ PayloadsBuilt(f) \/ MarkSyncing(f) \/ Send(f)
    \/ Receive(f) \/ NetworkError(f) \/ Retry(f) \/ Unauthorized(f) \/ FlushFails(f)
    \/ Settle(f) \/ Requeue(f) \/ Requeued(f) \/ Reject(f)

(* They preserve the invariant. *)
LEMMA FlushKeeps ==
    ASSUME IInv, NEW f \in Flushers, FlushAction(f)
    PROVE  IInv'
<1>. DEFINE F == fl[f]
            Known(p) == \A s \in DOMAIN p : p[s].log \in Copies(s)
            Fine(p) == /\ IsFlush(p) /\ Known(p.payload)
                       /\ fl' = [fl EXCEPT ![f] = p]
            LateFine == \A r \in late' : IsRequest(r) /\ Known(r.payload)
            RowsFine == /\ rows' \in [Session -> Row \cup {None}]
                        /\ \A s \in Session : Exists(s)' <=> Exists(s)
<1>1. IsFlush(F) /\ Known(F.payload) /\ \A r \in late : IsRequest(r) /\ Known(r.payload)
  BY CopyOf DEF IInv, TypeOK
<1>2. rows' = rows => RowsFine
  BY DEF IInv, TypeOK, Exists
<1>3. ASSUME NEW p, Fine(p), LateFine, RowsFine,
             UNCHANGED <<events, ui, tap, made, server>>,
             account' \in Accounts \cup {Nobody}, faults' \in 0..MaxFaults, crossed' = crossed
      PROVE  IInv'
  <2>1. /\ fl' = [g \in Flushers |-> fl'[g]] /\ \A g \in Flushers : IsFlush(fl'[g])
        /\ \A r \in late' : IsRequest(r)
        /\ \A s \in Session : \A L \in Copies(s)' : Drawn(L, s)
    BY <1>3, FlushMoves
  <2>2. Spreads
    BY <1>3, <2>1 DEF Spreads, IInv, Safe, Unbroken
  <2>3. Safe'
    BY <1>3, <2>2, Quiet
  <2>4. TypeOK'
    BY <1>3, <2>1 DEF IInv, TypeOK
  <2>. QED
    BY <2>3, <2>4 DEF IInv
<1>4. late' = late => LateFine
  BY <1>1
<1>5. account \in Accounts \cup {Nobody} /\ faults \in 0..MaxFaults
  BY DEF IInv, TypeOK
<1>6. ASSUME NEW step \in {"mark", "requeue", "reject"} PROVE
        /\ Goto(f, step) = [fl EXCEPT ![f] = [F EXCEPT !.step = step, !.todo = F.elig]]
        /\ IsFlush([F EXCEPT !.step = step, !.todo = F.elig])
        /\ Known([F EXCEPT !.step = step, !.todo = F.elig].payload)
  <2>1. Goto(f, step) = [fl EXCEPT ![f] = [F EXCEPT !.step = step, !.todo = F.elig]]
    BY DEF Goto
  <2>2. step \in FlushSteps /\ F.elig \in SUBSET F.elig
    BY DEF FlushSteps
  <2>3. /\ IsFlush([F EXCEPT !.step = step, !.todo = F.elig])
        /\ [F EXCEPT !.step = step, !.todo = F.elig].payload = F.payload
    BY <1>1, <2>2, FlushGoto
  <2>. QED
    BY <1>1, <2>1, <2>3
<1>. HIDE DEF LateFine, RowsFine
<1>7. CASE BeginFlush(f)
  <2>. DEFINE p == [NoFlush EXCEPT !.step = "build", !.elig = Eligible, !.todo = Eligible]
  <2>1. IsFlush(p) /\ p.payload = <<>>
    BY FlushBegun DEF Eligible
  <2>2. Fine(p)
    BY <1>7, <2>1, EmptyPayload DEF BeginFlush
  <2>. QED
    BY <1>2, <1>3, <1>4, <1>5, <1>7, <2>2 DEF BeginFlush
<1>8. CASE BuildPayload(f)
  <2>1. PICK s \in Session :
          /\ First(f, s)
          /\ fl' = [fl EXCEPT ![f].todo = @ \ {s},
                              ![f].payload = IF Exists(s) /\ events[s] # <<>>
                                             THEN Absorb(@, Entry(s)) ELSE @]
    BY <1>8 DEF BuildPayload
  <2>. DEFINE P == IF Exists(s) /\ events[s] # <<>> THEN Absorb(F.payload, Entry(s)) ELSE F.payload
              p == [F EXCEPT !.todo = F.todo \ {s}, !.payload = P]
  <2>2. fl' = [fl EXCEPT ![f] = p]
    BY <2>1
  <2>3. s \in F.elig
    BY <1>1, <2>1 DEF First, IsFlush
  <2>4. IsPayload(P) /\ Known(P) /\ DOMAIN P \subseteq F.elig
    <3>1. CASE Exists(s) /\ events[s] # <<>>
      <4>1. rows[s].by \in Accounts /\ IsLog(events[s])
        BY <3>1 DEF IInv, TypeOK, Exists, Row
      <4>2. P = Absorb(F.payload, Entry(s))
        BY <3>1
      <4>3. /\ DOMAIN P = DOMAIN F.payload \cup {s}
            /\ \A m \in DOMAIN F.payload : P[m] = F.payload[m]
            /\ s \notin DOMAIN F.payload => P[s].by = rows[s].by /\ P[s].log = events[s]
        BY <4>2 DEF Absorb, Entry
      <4>. HIDE DEF P
      <4>4. IsPayload(F.payload) /\ DOMAIN F.payload \subseteq F.elig
        BY <1>1 DEF IsFlush
      <4>5. IsPayload(P) /\ DOMAIN P \subseteq F.elig
        BY <2>3, <4>1, <4>3, <4>4 DEF IsPayload
      <4>6. \A m \in DOMAIN P : P[m].log \in Copies(m)
        <5>1. events[s] \in Copies(s)
          BY CopyOf
        <5>. QED
          BY <1>1, <4>3, <5>1
      <4>. QED
        BY <4>5, <4>6
    <3>2. CASE ~(Exists(s) /\ events[s] # <<>>)
      BY <1>1, <3>2 DEF IsFlush
    <3>. QED
      BY <3>1, <3>2
  <2>. HIDE DEF P
  <2>5. Fine(p)
    <3>1. IsFlush(p) /\ p.payload = P
      <4>1. F.todo \ {s} \in SUBSET F.elig
        BY <1>1 DEF IsFlush
      <4>2. IsFlush(F) /\ IsPayload(P) /\ DOMAIN P \subseteq F.elig
        BY <1>1, <2>4
      <4>. HIDE DEF F
      <4>. QED
        BY <4>1, <4>2, FlushPack
    <3>. QED
      BY <2>2, <2>4, <3>1
  <2>. QED
    BY <1>2, <1>3, <1>4, <1>5, <1>8, <2>5 DEF BuildPayload
<1>9. CASE PayloadsBuilt(f)
  <2>1. CASE F.payload = <<>>
    <3>1. Fine(NoFlush)
      BY <1>9, <2>1, EmptyPayload DEF PayloadsBuilt
    <3>. QED
      BY <1>2, <1>3, <1>4, <1>5, <1>9, <3>1 DEF PayloadsBuilt
  <2>2. CASE F.payload # <<>>
    <3>1. fl' = Goto(f, "mark")
      BY <1>9, <2>2 DEF PayloadsBuilt
    <3>. QED
      BY <1>2, <1>3, <1>4, <1>5, <1>6, <1>9, <3>1 DEF PayloadsBuilt
  <2>. QED
    BY <2>1, <2>2
<1>10. ASSUME NEW s, First(f, s) PROVE
         IsFlush([F EXCEPT !.todo = F.todo \ {s}]) /\ Known([F EXCEPT !.todo = F.todo \ {s}].payload)
  <2>1. F.todo \ {s} \in SUBSET F.elig
    BY <1>1 DEF IsFlush
  <2>. QED
    BY <1>1, <2>1, FlushEdit
<1>11. ASSUME NEW s \in Session, First(f, s), NEW state \in SyncState, SetSync(s, state),
              fl' = [fl EXCEPT ![f].todo = @ \ {s}],
              UNCHANGED <<account, events, ui, tap, late, server, made, faults, crossed>>
       PROVE  IInv'
  <2>1. RowsFine
    BY <1>11, Marked DEF RowsFine
  <2>2. Fine([F EXCEPT !.todo = F.todo \ {s}])
    BY <1>10, <1>11
  <2>. QED
    BY <1>3, <1>4, <1>5, <1>11, <2>1, <2>2
<1>12. CASE MarkSyncing(f) \/ Settle(f) \/ Requeue(f)
  <2>1. {"syncing", "synced", "local_only"} \subseteq SyncState
    BY DEF SyncState
  <2>. QED
    BY <1>11, <1>12, <2>1 DEF MarkSyncing, Settle, Requeue
<1>13. CASE Send(f)
  <2>1. Fine([F EXCEPT !.step = "wait", !.from = account])
    <3>1. "wait" \in FlushSteps /\ F.elig \in SUBSET F.elig
      BY DEF FlushSteps
    <3>. QED
      BY <1>1, <1>5, <1>13, <3>1, FlushSend DEF Send
  <2>. QED
    BY <1>2, <1>3, <1>4, <1>5, <1>13, <2>1 DEF Send
<1>14. CASE Receive(f)
  <2>1. CASE F.reply = "accepted"
    <3>1. Fine([F EXCEPT !.step = "settle", !.todo = DOMAIN F.payload])
      <4>1. "settle" \in FlushSteps /\ DOMAIN F.payload \in SUBSET F.elig
        BY <1>1 DEF FlushSteps, IsFlush
      <4>. QED
        BY <1>1, <1>14, <2>1, <4>1, FlushGoto DEF Receive
    <3>. QED
      BY <1>2, <1>3, <1>4, <1>5, <1>14, <3>1 DEF Receive
  <2>2. CASE F.reply # "accepted"
    <3>1. fl' = Goto(f, "requeue")
      BY <1>14, <2>2 DEF Receive
    <3>. QED
      BY <1>2, <1>3, <1>4, <1>5, <1>6, <1>14, <3>1 DEF Receive
  <2>. QED
    BY <2>1, <2>2
<1>15. CASE NetworkError(f)
  <2>. DEFINE p == [[F EXCEPT !.step = "requeue", !.todo = F.elig] EXCEPT !.reply = "none"]
  <2>1. fl' = [fl EXCEPT ![f] = p]
    BY <1>15 DEF NetworkError, Goto, IInv, TypeOK
  <2>2. Fine(p)
    <3>1. "requeue" \in FlushSteps /\ F.elig \in SUBSET F.elig
      BY DEF FlushSteps
    <3>2. IsFlush(p) /\ p.payload = F.payload
      BY <1>1, <3>1, FlushGotoAgain
    <3>. QED
      BY <1>1, <2>1, <3>2
  <2>3. LateFine
    BY <1>1, <1>15, RequestKnown DEF NetworkError, LateFine
  <2>. QED
    BY <1>2, <1>3, <1>5, <1>15, <2>2, <2>3 DEF NetworkError
<1>16. CASE Retry(f)
  <2>1. Fine([F EXCEPT !.from = account])
    BY <1>1, <1>5, <1>16, FlushEdit DEF Retry
  <2>. QED
    BY <1>2, <1>3, <1>4, <1>5, <1>16, <2>1 DEF Retry
<1>17. CASE Unauthorized(f)
  <2>1. fl' = Goto(f, "requeue") /\ account' = Nobody /\ faults' \in 0..MaxFaults
    BY <1>5, <1>17, PhoneAssumption DEF Unauthorized, Happens
  <2>. QED
    BY <1>2, <1>3, <1>4, <1>6, <1>17, <2>1 DEF Unauthorized
<1>18. CASE Requeued(f)
  <2>1. CASE F.reply = "refused"
    <3>1. fl' = Goto(f, "reject")
      BY <1>18, <2>1 DEF Requeued
    <3>. QED
      BY <1>2, <1>3, <1>4, <1>5, <1>6, <1>18, <3>1 DEF Requeued
  <2>2. CASE F.reply # "refused"
    <3>1. Fine(NoFlush)
      BY <1>18, <2>2, EmptyPayload DEF Requeued
    <3>. QED
      BY <1>2, <1>3, <1>4, <1>5, <1>18, <3>1 DEF Requeued
  <2>. QED
    BY <2>1, <2>2
<1>19. CASE Reject(f)
  <2>1. PICK s \in Session :
          /\ First(f, s)
          /\ SetSync(s, "rejected")
          /\ fl' = IF F.todo = {s} THEN [fl EXCEPT ![f] = NoFlush]
                   ELSE [fl EXCEPT ![f].todo = @ \ {s}]
    BY <1>19 DEF Reject
  <2>2. "rejected" \in SyncState
    BY DEF SyncState
  <2>3. CASE F.todo = {s}
    <3>1. Fine(NoFlush)
      BY <2>1, <2>3, EmptyPayload
    <3>2. RowsFine
      BY <2>1, <2>2, Marked DEF RowsFine
    <3>. QED
      BY <1>3, <1>4, <1>5, <1>19, <3>1, <3>2 DEF Reject
  <2>4. CASE F.todo # {s}
    BY <1>11, <1>19, <2>1, <2>2, <2>4 DEF Reject
  <2>. QED
    BY <2>3, <2>4
<1>20. CASE FlushFails(f)
  <2>1. faults' \in 0..MaxFaults
    BY <1>5, <1>20, PhoneAssumption DEF FlushFails, Happens
  <2>2. CASE F.step = "settle"
    <3>. DEFINE p == [[F EXCEPT !.step = "requeue", !.todo = F.elig] EXCEPT !.reply = "none"]
    <3>1. fl' = [fl EXCEPT ![f] = p]
      BY <1>20, <2>2 DEF FlushFails, Goto, IInv, TypeOK
    <3>2. "requeue" \in FlushSteps /\ F.elig \in SUBSET F.elig
      BY DEF FlushSteps
    <3>3. IsFlush(p) /\ p.payload = F.payload
      BY <1>1, <3>2, FlushGotoAgain
    <3>4. Fine(p)
      BY <1>1, <3>1, <3>3
    <3>. QED
      BY <1>2, <1>3, <1>4, <1>5, <1>20, <2>1, <3>4 DEF FlushFails
  <2>3. CASE F.step # "settle"
    <3>1. Fine(NoFlush)
      BY <1>20, <2>3, EmptyPayload DEF FlushFails
    <3>. QED
      BY <1>2, <1>3, <1>4, <1>5, <1>20, <2>1, <3>1 DEF FlushFails
  <2>. QED
    BY <2>2, <2>3
<1>. QED
  BY <1>7, <1>8, <1>9, <1>12, <1>13, <1>14, <1>15, <1>16, <1>17, <1>18, <1>19, <1>20
  DEF FlushAction
-----------------------------------------------------------------------------
(* The server, deletions, signing in and out.                              *)

(* What an upload adds to the server is drawn from the copies. *)
LEMMA Served ==
    ASSUME IInv, NEW r, IsRequest(r), Sync(r),
           \A s \in DOMAIN r.payload : r.payload[s].log \in Copies(s),
           UNCHANGED <<rows, events>>,
           \A f \in Flushers : fl'[f].payload = fl[f].payload,
           late' \subseteq late
    PROVE  /\ server' = [s \in Session |-> server'[s]]
           /\ \A s \in Session : IsLog(server'[s])
           /\ Spreads
<1>1. \A s \in Session :
        \/ server'[s] = server[s]
        \/ s \in DOMAIN r.payload /\ server'[s] = Absorb(server[s], r.payload[s].log)
  BY DEF Sync, IInv, TypeOK
<1>2. server' = [s \in Session |-> server'[s]]
  BY DEF Sync, IInv, TypeOK
<1>3. \A s \in Session : IsLog(server[s])
  BY DEF IInv, TypeOK
<1>4. \A s \in DOMAIN r.payload : IsLog(r.payload[s].log)
  BY DEF IsRequest, IsPayload
<1>5. ASSUME NEW s \in Session PROVE IsLog(server'[s]) /\ Drawn(server'[s], s)
  <2>1. CASE server'[s] = server[s]
    BY <1>3, <2>1, CopyIsDrawn, CopyOf
  <2>2. CASE s \in DOMAIN r.payload /\ server'[s] = Absorb(server[s], r.payload[s].log)
    <3>1. server[s] \in Copies(s) /\ r.payload[s].log \in Copies(s)
      BY <2>2, CopyOf
    <3>2. PICK A, B : A = server[s] /\ B = r.payload[s].log
      OBVIOUS
    <3>3. /\ DOMAIN Absorb(A, B) = DOMAIN A \cup DOMAIN B
          /\ \A m \in DOMAIN A : Absorb(A, B)[m] = A[m]
          /\ \A m \in DOMAIN B \ DOMAIN A : Absorb(A, B)[m] = B[m]
          /\ IsLog(A) /\ IsLog(B) => IsLog(Absorb(A, B))
      BY Absorbed
    <3>4. server'[s] = Absorb(A, B)
      BY <2>2, <3>2
    <3>5. IsLog(server'[s])
      BY <1>3, <1>4, <2>2, <3>2, <3>3, <3>4
    <3>6. Drawn(server'[s], s)
      BY <3>1, <3>2, <3>3, <3>4 DEF Drawn
    <3>. QED
      BY <3>5, <3>6
  <2>. QED
    BY <1>1, <2>1, <2>2
<1>6. ASSUME NEW s \in Session, NEW L \in Copies(s)' PROVE Drawn(L, s)
  <2>1. L = server'[s] \/ L \in Copies(s)
    BY <1>6 DEF Copies, Uploads
  <2>. QED
    BY <1>5, <2>1, CopyIsDrawn
<1>7. /\ \A s \in Session : Exists(s)' => Exists(s)
      /\ \A s \in Session : ~Exists(s)' => events'[s] = <<>>
  BY DEF Exists, IInv, Safe, Unbroken
<1>. QED
  BY <1>2, <1>5, <1>6, <1>7 DEF Spreads

(* Deleting rows with their events spreads nothing. *)
LEMMA Deleted ==
    ASSUME IInv, NEW S, Delete(S), UNCHANGED server,
           \A f \in Flushers : \A s \in DOMAIN fl'[f].payload : fl'[f].payload[s].log \in Copies(s),
           late' = late
    PROVE  /\ rows' \in [Session -> Row \cup {None}]
           /\ events' = [s \in Session |-> events'[s]]
           /\ \A s \in Session : IsLog(events'[s])
           /\ Spreads
<1>1. /\ rows' = [s \in Session |-> IF s \in S THEN None ELSE rows[s]]
      /\ events' = [s \in Session |-> IF s \in S THEN <<>> ELSE events[s]]
  BY DEF Delete
<1>2. rows' \in [Session -> Row \cup {None}]
  BY <1>1 DEF IInv, TypeOK
<1>3. /\ events' = [s \in Session |-> events'[s]]
      /\ \A s \in Session : IsLog(events'[s])
  BY <1>1, SequenceIsLog DEF IInv, TypeOK
<1>4. ASSUME NEW s \in Session, NEW L \in Copies(s)' PROVE Drawn(L, s)
  <2>1. \/ L = server[s] \/ L = events'[s]
        \/ \E f \in Flushers : s \in DOMAIN fl'[f].payload /\ L = fl'[f].payload[s].log
        \/ \E r \in late : s \in DOMAIN r.payload /\ L = r.payload[s].log
    BY <1>4 DEF Copies, Uploads
  <2>2. L \in Copies(s) \/ L = <<>>
    BY <1>1, <2>1, CopyOf
  <2>3. Drawn(<<>>, s)
    BY SequenceIsLog DEF Drawn
  <2>. QED
    BY <2>2, <2>3, CopyIsDrawn
<1>5. /\ \A s \in Session : Exists(s)' => Exists(s) /\ events'[s] = events[s]
      /\ \A s \in Session : ~Exists(s)' => events'[s] = <<>>
  BY <1>1 DEF Exists, IInv, Safe, Unbroken
<1>. QED
  BY <1>2, <1>3, <1>4, <1>5 DEF Spreads

(* The requests that reach the server, the deletions, and the changes of
   account preserve the invariant. *)
LEMMA ServerKeeps ==
    ASSUME IInv,
           \/ \E f \in Flushers : Serve(f) \/ Prune(f)
           \/ \E r \in late : ServeLate(r)
           \/ \E a \in Accounts : SignIn(a)
           \/ SignOut \/ Expire
    PROVE  IInv'
<1>1. \A f \in Flushers : IsFlush(fl[f])
  BY DEF IInv, TypeOK
<1>2. fl = [f \in Flushers |-> fl[f]]
  BY DEF IInv, TypeOK
<1>3. ASSUME NEW f \in Flushers, Serve(f) PROVE IInv'
  <2>. DEFINE reply == IF Refused(Request(f)) THEN "refused" ELSE "accepted"
  <2>1. fl' = [fl EXCEPT ![f].reply = reply] /\ reply \in {"none", "accepted", "refused"}
    BY <1>3 DEF Serve
  <2>. HIDE DEF reply
  <2>2. PICK a, b, c, d, e, g :
          fl[f] = [step |-> a, elig |-> b, todo |-> c, payload |-> d, from |-> e, reply |-> g]
    BY <1>1 DEF IsFlush
  <2>3. fl'[f] = [step |-> a, elig |-> b, todo |-> c, payload |-> d, from |-> e, reply |-> reply]
    BY <1>2, <2>1, <2>2
  <2>4. IsFlush(fl'[f]) /\ fl'[f].payload = fl[f].payload
    <3>1. /\ a \in FlushSteps /\ b \subseteq Session /\ c \subseteq b
          /\ IsPayload(d) /\ DOMAIN d \subseteq b /\ e \in Accounts \cup {Nobody}
      BY <1>1, <2>2 DEF IsFlush, FlushSteps
    <3>. QED
      BY <2>1, <2>2, <2>3, <3>1 DEF IsFlush, FlushSteps
  <2>5. fl' = [x \in Flushers |-> IF x = f THEN fl'[f] ELSE fl[x]]
    BY <1>2, <2>1
  <2>6. \A x \in Flushers : IsFlush(fl'[x]) /\ fl'[x].payload = fl[x].payload
    BY <1>1, <2>4, <2>5
  <2>7. /\ server' = [s \in Session |-> server'[s]]
        /\ \A s \in Session : IsLog(server'[s])
        /\ Spreads
    BY <1>3, <2>6, RequestKnown, Served DEF Serve
  <2>8. Safe'
    BY <1>3, <2>7, Quiet DEF Serve
  <2>9. TypeOK'
    BY <1>3, <2>5, <2>6, <2>7 DEF IInv, TypeOK, Serve
  <2>. QED
    BY <2>8, <2>9 DEF IInv
<1>4. ASSUME NEW r \in late, ServeLate(r) PROVE IInv'
  <2>1. IsRequest(r) /\ \A s \in DOMAIN r.payload : r.payload[s].log \in Copies(s)
    BY CopyOf DEF IInv, TypeOK
  <2>2. /\ server' = [s \in Session |-> server'[s]]
        /\ \A s \in Session : IsLog(server'[s])
        /\ Spreads
    BY <1>4, <2>1, Served DEF ServeLate
  <2>3. Safe'
    BY <1>4, <2>2, Quiet DEF ServeLate
  <2>4. TypeOK'
    BY <1>4, <2>2 DEF IInv, TypeOK, ServeLate
  <2>. QED
    BY <2>3, <2>4 DEF IInv
<1>5. ASSUME NEW f \in Flushers, Prune(f) PROVE IInv'
  <2>1. PICK S : Delete(S)
    BY <1>5 DEF Prune
  <2>2. fl' = [x \in Flushers |-> IF x = f THEN NoFlush ELSE fl[x]]
    BY <1>2, <1>5 DEF Prune
  <2>3. \A x \in Flushers :
          IsFlush(fl'[x]) /\ \A s \in DOMAIN fl'[x].payload : fl'[x].payload[s].log \in Copies(s)
    BY <1>1, <2>2, EmptyPayload, CopyOf
  <2>4. /\ rows' \in [Session -> Row \cup {None}]
        /\ events' = [s \in Session |-> events'[s]]
        /\ \A s \in Session : IsLog(events'[s])
        /\ Spreads
    BY <1>5, <2>1, <2>3, Deleted DEF Prune
  <2>5. Safe'
    BY <1>5, <2>4, Quiet DEF Prune
  <2>6. TypeOK'
    BY <1>5, <2>2, <2>3, <2>4 DEF IInv, TypeOK, Prune
  <2>. QED
    BY <2>5, <2>6 DEF IInv
<1>6. CASE SignOut
  <2>1. /\ rows' \in [Session -> Row \cup {None}]
        /\ events' = [s \in Session |-> events'[s]]
        /\ \A s \in Session : IsLog(events'[s])
        /\ Spreads
    BY <1>6, CopyOf, Deleted DEF SignOut
  <2>2. Safe'
    BY <1>6, <2>1, Quiet DEF SignOut
  <2>3. faults' \in 0..MaxFaults
    BY <1>6, PhoneAssumption DEF SignOut, Happens, IInv, TypeOK
  <2>4. TypeOK'
    BY <1>6, <2>1, <2>3 DEF IInv, TypeOK, SignOut
  <2>. QED
    BY <2>2, <2>4 DEF IInv
<1>7. CASE Expire \/ \E a \in Accounts : SignIn(a)
  <2>1. UNCHANGED <<rows, events, ui, tap, fl, late, server, made, crossed>>
    BY <1>7 DEF Expire, SignIn
  <2>2. Spreads
    BY <2>1, CopyIsDrawn DEF Spreads, Exists, Copies, Uploads, IInv, Safe, Unbroken
  <2>3. Safe'
    BY <2>1, <2>2, Quiet
  <2>4. faults' \in 0..MaxFaults /\ account' \in Accounts \cup {Nobody}
    BY <1>7, PhoneAssumption DEF Expire, SignIn, Happens, IInv, TypeOK
  <2>5. TypeOK'
    BY <2>1, <2>4 DEF IInv, TypeOK
  <2>. QED
    BY <2>3, <2>5 DEF IInv
<1>. QED
  BY <1>3, <1>4, <1>5, <1>6, <1>7
-----------------------------------------------------------------------------
(* The buttons.                                                            *)

(* A button press that has ended is a button press. *)
LEMMA TapEnded == IsTap(NoTap) /\ NoTap.step = "none"
  BY SequenceIsLog DEF IsTap, NoTap, EventType

(* A press that moves on to its next step, with a number ... *)
LEMMA TapNumbered ==
    ASSUME NEW P, IsTap(P), P.step # "none", NEW n \in Nat, n > 0
    PROVE  /\ IsTap([P EXCEPT !.step = "append", !.n = n])
           /\ [P EXCEPT !.step = "append", !.n = n].step = "append"
           /\ [P EXCEPT !.step = "append", !.n = n].s = P.s
           /\ [P EXCEPT !.step = "append", !.n = n].n = n
<1>1. PICK a, b, c, d, e, g :
        P = [step |-> a, kind |-> b, s |-> c, n |-> d, seen |-> e, by |-> g]
  BY DEF IsTap
<1>2. b \in EventType /\ c \in Session /\ IsLog(e) /\ g \in Accounts
  BY <1>1 DEF IsTap
<1>3. PICK Q : Q = [P EXCEPT !.step = "append"]
  OBVIOUS
<1>4. Q = [step |-> "append", kind |-> b, s |-> c, n |-> d, seen |-> e, by |-> g]
  BY <1>1, <1>3
<1>5. PICK R : R = [Q EXCEPT !.n = n]
  OBVIOUS
<1>6. R = [step |-> "append", kind |-> b, s |-> c, n |-> n, seen |-> e, by |-> g]
  BY <1>4, <1>5
<1>7. [P EXCEPT !.step = "append", !.n = n] = R
  BY <1>3, <1>5
<1>8. IsTap(R) /\ R.step = "append" /\ R.s = P.s /\ R.n = n
  BY <1>1, <1>2, <1>6 DEF IsTap
<1>. QED
  BY <1>7, <1>8

(* ... or with the one it has. *)
LEMMA TapEdit ==
    ASSUME NEW P, IsTap(P), P.step # "none", P.n > 0, NEW step \in {"append", "persist"}
    PROVE  /\ IsTap([P EXCEPT !.step = step])
           /\ [P EXCEPT !.step = step].step = step
           /\ [P EXCEPT !.step = step].s = P.s
           /\ [P EXCEPT !.step = step].n = P.n
<1>1. PICK a, b, c, d, e, g :
        P = [step |-> a, kind |-> b, s |-> c, n |-> d, seen |-> e, by |-> g]
  BY DEF IsTap
<1>2. b \in EventType /\ c \in Session /\ d \in Nat /\ d > 0 /\ IsLog(e) /\ g \in Accounts
  BY <1>1 DEF IsTap
<1>3. PICK Q : Q = [P EXCEPT !.step = step]
  OBVIOUS
<1>4. Q = [step |-> step, kind |-> b, s |-> c, n |-> d, seen |-> e, by |-> g]
  BY <1>1, <1>3
<1>5. IsTap(Q) /\ Q.step = step /\ Q.s = P.s /\ Q.n = P.n
  BY <1>1, <1>2, <1>4 DEF IsTap
<1>. QED
  BY <1>3, <1>5

(* One press moves on, the others stay where they are. *)
LEMMA TapMoves ==
    ASSUME IInv, NEW t \in Taps, NEW q, IsTap(q), tap' = [tap EXCEPT ![t] = q]
    PROVE  /\ tap' = [u \in Taps |-> tap'[u]] /\ \A u \in Taps : IsTap(tap'[u])
           /\ tap'[t] = q /\ \A u \in Taps \ {t} : tap'[u] = tap[u]
<1>1. tap' = [u \in Taps |-> IF u = t THEN q ELSE tap[u]]
  BY DEF IInv, TypeOK
<1>. QED
  BY <1>1 DEF IInv, TypeOK

(* A step that touches no log and no row's place keeps the logs in order. *)
LEMMA Still ==
    ASSUME IInv, UNCHANGED <<events, fl, late, server>>,
           \A s \in Session : Exists(s)' <=> Exists(s)
    PROVE  /\ Compatible' /\ Complete' /\ Unbroken'
           /\ \A s \in Session : Untouched(s) => Untouched(s)'
<1>1. \A s \in Session : Copies(s)' = Copies(s)
  BY DEF Copies, Uploads
<1>2. Spreads
  BY <1>1, CopyIsDrawn DEF Spreads, IInv, Safe, Unbroken
<1>. QED
  BY <1>2, SpreadKeeps

(* What the type says of the presses, and of who may be inserted. *)
LEMMA TapFacts ==
    ASSUME IInv
    PROVE  /\ made \in Nat /\ Session \subseteq Nat /\ None \notin Session
           /\ \A s \in Session : Exists(s) => s <= made
           /\ \A t \in Taps : /\ tap[t].step # "none" => tap[t].s \in Session /\ tap[t].s <= made
                              /\ tap[t].step = "insert" => ~Exists(tap[t].s)
<1>1. made \in Nat /\ Session \subseteq Nat /\ None \notin Session
  BY PhoneAssumption, NoneIsNothing DEF IInv, TypeOK, Session
<1>2. ASSUME NEW s \in Session, Exists(s) PROVE s <= made
  <2>1. ~Untouched(s)
    BY <1>2 DEF Untouched
  <2>2. ~(s > made)
    BY <2>1 DEF IInv, Safe, Fresh
  <2>. QED
    BY <1>1, <2>2
<1>. QED
  BY <1>1, <1>2 DEF IInv, TypeOK, IsTap, Safe, Fresh, Untouched

(* A press that ends, leaving the screen as it is, frees what it worked on. *)
LEMMA TapEnds ==
    ASSUME IInv, NEW t \in Taps, tap' = [tap EXCEPT ![t] = NoTap],
           UNCHANGED <<account, rows, events, ui, fl, late, server, made>>,
           faults' \in 0..MaxFaults, crossed' \in BOOLEAN
    PROVE  IInv'
<1>1. /\ tap' = [u \in Taps |-> tap'[u]] /\ \A u \in Taps : IsTap(tap'[u])
      /\ tap'[t] = NoTap /\ \A u \in Taps \ {t} : tap'[u] = tap[u]
  BY TapMoves, TapEnded
<1>2. Compatible' /\ Complete' /\ Unbroken' /\ \A s \in Session : Untouched(s) => Untouched(s)'
  BY Still DEF Exists
<1>3. NextNumber'
  BY <1>1, TapEnded DEF IInv, Safe, NextNumber, Exists
<1>4. Fresh'
  BY <1>1, <1>2, TapEnded, TapFacts DEF IInv, Safe, Fresh
<1>5. TypeOK'
  BY <1>1 DEF IInv, TypeOK
<1>. QED
  BY <1>2, <1>3, <1>4, <1>5 DEF IInv, Safe

(* A second press is counted and remembered. *)
LEMMA Overlaps ==
    ASSUME IInv, Overlap
    PROVE  faults' \in 0..MaxFaults /\ crossed' \in BOOLEAN
<1>1. faults' \in 0..MaxFaults
  BY PhoneAssumption DEF Overlap, Happens, IInv, TypeOK
<1>2. crossed' = TRUE \/ crossed' = crossed
  BY DEF Overlap
<1>3. crossed \in BOOLEAN
  BY DEF IInv, TypeOK
<1>. QED
  BY <1>1, <1>2, <1>3

(* A press that begins, on a new session or on the one on the screen. *)
LEMMA TapBegins ==
    ASSUME IInv, NEW t \in Taps, TapStart(t) \/ \E e \in EventType : TapOther(t, e)
    PROVE  IInv'
<1>1. account \in Accounts /\ IsLog(ui.events) /\ IsLog(<<>>)
  BY SequenceIsLog DEF TapStart, TapOther, Screen, IInv, TypeOK
<1>2. CASE TapStart(t)
  <2>. DEFINE q == [step |-> "insert", kind |-> "start", s |-> made + 1,
                    n |-> 1, seen |-> <<>>, by |-> account]
  <2>1. made + 1 \in Session /\ made' = made + 1 /\ made' \in 0..MaxSessions
    BY <1>2, TapFacts, PhoneAssumption DEF TapStart, Session, IInv, TypeOK
  <2>2. IsTap(q)
    BY <1>1, <2>1 DEF IsTap, EventType
  <2>3. tap' = [tap EXCEPT ![t] = q]
    BY <1>2 DEF TapStart
  <2>4. q.step = "insert" /\ q.s = made + 1 /\ q.n = 1
    OBVIOUS
  <2>. HIDE DEF q
  <2>5. /\ tap' = [u \in Taps |-> tap'[u]] /\ \A u \in Taps : IsTap(tap'[u])
        /\ tap'[t] = q /\ \A u \in Taps \ {t} : tap'[u] = tap[u]
    BY <2>2, <2>3, TapMoves
  <2>6. /\ Compatible' /\ Complete' /\ Unbroken'
        /\ \A s \in Session : Untouched(s) => Untouched(s)'
    BY <1>2, Still DEF TapStart, Exists
  <2>7. NextNumber'
    BY <1>2, <2>4, <2>5 DEF IInv, Safe, NextNumber, Exists, TapStart
  <2>8. Fresh'
    <3>1. \A s \in Session : s > made' => Untouched(s)'
      BY <2>1, <2>6, TapFacts DEF IInv, Safe, Fresh
    <3>2. ui'.session # None => ui'.session <= made'
      <4>1. ui' = ui /\ ui.session \in Session \cup {None}
        BY <1>2 DEF TapStart, IInv, TypeOK
      <4>. QED
        BY <2>1, <4>1, TapFacts DEF IInv, Safe, Fresh
    <3>3. Untouched(made + 1) /\ ui.session # made + 1 /\ ui' = ui
      <4>1. ui.session \in Session \cup {None} /\ ui' = ui
        BY <1>2 DEF TapStart, IInv, TypeOK
      <4>. QED
        BY <2>1, <4>1, TapFacts DEF IInv, Safe, Fresh
    <3>4. \A v \in Taps \ {t} : tap[v].step # "none" => tap[v].s # made + 1 /\ tap[v].s <= made'
      BY <2>1, TapFacts
    <3>5. \A u \in Taps : tap'[u].step # "none" => tap'[u].s <= made'
      BY <2>1, <2>4, <2>5, <3>4, TapFacts
    <3>6. ASSUME NEW u \in Taps, NEW s \in Session, tap'[u].step = "insert", tap'[u].s = s
          PROVE  /\ tap'[u].n = 1 /\ Untouched(s)' /\ ui'.session # s
                 /\ \A v \in Taps : tap'[v].step # "none" /\ tap'[v].s = s => v = u
      <4>1. CASE u = t
        BY <2>1, <2>4, <2>5, <2>6, <3>3, <3>4, <3>6, <4>1
      <4>2. CASE u # t
        <5>1. tap'[u] = tap[u] /\ s # made + 1
          BY <2>5, <3>4, <3>6, <4>2
        <5>2. /\ tap[u].n = 1 /\ Untouched(s) /\ ui.session # s
              /\ \A v \in Taps : tap[v].step # "none" /\ tap[v].s = s => v = u
          BY <3>6, <5>1 DEF IInv, Safe, Fresh
        <5>. QED
          BY <2>4, <2>5, <2>6, <3>3, <5>1, <5>2
      <4>. QED
        BY <4>1, <4>2
    <3>. QED
      BY <3>1, <3>2, <3>5, <3>6 DEF Fresh
  <2>9. TypeOK'
    BY <1>2, <2>1, <2>5, Overlaps DEF IInv, TypeOK, TapStart
  <2>. QED
    BY <2>6, <2>7, <2>8, <2>9 DEF IInv, Safe
<1>3. ASSUME NEW e \in EventType, TapOther(t, e) PROVE IInv'
  <2>. DEFINE q == [step |-> "number", kind |-> e, s |-> ui.session,
                    n |-> 0, seen |-> ui.events, by |-> account]
  <2>1. ui.session \in Session
    BY <1>3 DEF TapOther, IInv, TypeOK
  <2>2. IsTap(q)
    BY <1>1, <2>1 DEF IsTap
  <2>3. tap' = [tap EXCEPT ![t] = q]
    BY <1>3 DEF TapOther
  <2>4. q.step = "number" /\ q.s = ui.session
    OBVIOUS
  <2>. HIDE DEF q
  <2>5. /\ tap' = [u \in Taps |-> tap'[u]] /\ \A u \in Taps : IsTap(tap'[u])
        /\ tap'[t] = q /\ \A u \in Taps \ {t} : tap'[u] = tap[u]
    BY <2>2, <2>3, TapMoves
  <2>6. /\ Compatible' /\ Complete' /\ Unbroken'
        /\ \A s \in Session : Untouched(s) => Untouched(s)'
    BY <1>3, Still DEF TapOther, Exists
  <2>7. NextNumber'
    BY <1>3, <2>4, <2>5 DEF IInv, Safe, NextNumber, Exists, TapOther
  <2>8. Fresh'
    BY <1>3, <2>1, <2>4, <2>5, <2>6, TapFacts DEF IInv, Safe, Fresh, TapOther
  <2>9. TypeOK'
    BY <1>3, <2>5, Overlaps DEF IInv, TypeOK, TapOther
  <2>. QED
    BY <2>6, <2>7, <2>8, <2>9 DEF IInv, Safe
<1>. QED
  BY <1>2, <1>3

(* Inserting the session: nobody knows a log of it. *)
LEMMA InsertKeeps ==
    ASSUME IInv, NEW t \in Taps, InsertSession(t)
    PROVE  IInv'
<1>. DEFINE s == tap[t].s
            q == [tap[t] EXCEPT !.step = "append"]
<1>1. tap[t].step = "insert" /\ IsTap(tap[t]) /\ s \in Session /\ s <= made /\ tap[t].by \in Accounts
  BY TapFacts DEF InsertSession, IInv, TypeOK, IsTap
<1>2. /\ tap[t].n = 1 /\ Untouched(s) /\ ui.session # s
      /\ \A u \in Taps : tap[u].step # "none" /\ tap[u].s = s => u = t
  BY <1>1 DEF IInv, Safe, Fresh
<1>3. IsTap(q) /\ q.step = "append" /\ q.s = s /\ q.n = 1
  <2>1. PICK P : P = tap[t]
    OBVIOUS
  <2>2. IsTap(P) /\ P.step # "none" /\ P.n = 1 /\ P.n > 0
    BY <1>1, <1>2, <2>1
  <2>3. /\ IsTap([P EXCEPT !.step = "append"]) /\ [P EXCEPT !.step = "append"].step = "append"
        /\ [P EXCEPT !.step = "append"].s = P.s /\ [P EXCEPT !.step = "append"].n = P.n
    BY <2>2, TapEdit
  <2>. QED
    BY <2>1, <2>2, <2>3
<1>4. /\ tap' = [u \in Taps |-> tap'[u]] /\ \A u \in Taps : IsTap(tap'[u])
      /\ tap'[t] = q /\ \A u \in Taps \ {t} : tap'[u] = tap[u]
  BY <1>3, TapMoves DEF InsertSession
<1>. HIDE DEF q
<1>5. PICK row \in Row : rows' = [rows EXCEPT ![s] = row]
  <2>. DEFINE row == [status |-> "active", sync |-> "local_only", by |-> tap[t].by]
  <2>1. row \in Row
    BY <1>1 DEF Row, SyncState
  <2>. QED
    BY <2>1 DEF InsertSession
<1>6. rows' \in [Session -> Row \cup {None}] /\ \A r \in Session : Exists(r)' <=> r = s \/ Exists(r)
  BY <1>1, <1>5, NoneIsNothing DEF IInv, TypeOK, Exists
<1>7. \A r \in Session : Copies(r)' = Copies(r)
  BY DEF InsertSession, Copies, Uploads
<1>8. \A r \in Session \ {s} : Untouched(r) => Untouched(r)'
  BY <1>6, <1>7 DEF Untouched
<1>. HIDE DEF s
<1>9. Compatible'
  BY <1>7 DEF IInv, Safe, Compatible
<1>10. Complete'
  BY <1>2, <1>6, <1>7 DEF IInv, Safe, Complete, Untouched, InsertSession
<1>11. Unbroken'
  BY <1>6 DEF IInv, Safe, Unbroken, InsertSession
<1>12. NextNumber'
  <2>1. ASSUME NEW u \in Taps, NEW r \in Session,
               tap'[u].step = "append", tap'[u].s = r, Exists(r)'
        PROVE  tap'[u].n <= Len(events'[r]) + 1
    <3>1. events' = events
      BY DEF InsertSession
    <3>2. CASE u = t
      <4>1. events[r] \in Seq(EventType)
        BY DEF IInv, Safe, Unbroken
      <4>2. Len(events[r]) \in Nat
        BY <4>1
      <4>. QED
        BY <1>3, <1>4, <3>1, <3>2, <4>2
    <3>3. CASE u # t
      <4>1. tap'[u] = tap[u] /\ r # s
        BY <1>2, <1>4, <2>1, <3>3
      <4>. QED
        BY <1>6, <2>1, <3>1, <4>1 DEF IInv, Safe, NextNumber
    <3>. QED
      BY <3>2, <3>3
  <2>. QED
    BY <2>1 DEF NextNumber
<1>13. Fresh'
  <2>1. ui' = ui /\ made' = made
    BY DEF InsertSession
  <2>2. \A r \in Session : r > made => Untouched(r)'
    BY <1>1, <1>8, TapFacts DEF IInv, Safe, Fresh
  <2>3. \A u \in Taps : tap'[u].step # "none" => tap[u].step # "none" /\ tap'[u].s = tap[u].s
    BY <1>1, <1>3, <1>4 DEF s
  <2>4. \A u \in Taps : tap'[u].step # "none" => tap'[u].s <= made
    BY <2>3, TapFacts
  <2>5. ASSUME NEW u \in Taps, NEW r \in Session, tap'[u].step = "insert", tap'[u].s = r
        PROVE  /\ tap'[u].n = 1 /\ Untouched(r)' /\ ui.session # r
               /\ \A v \in Taps : tap'[v].step # "none" /\ tap'[v].s = r => v = u
    <3>1. u # t
      BY <1>3, <1>4, <2>5
    <3>2. tap'[u] = tap[u] /\ r # s
      BY <1>2, <1>4, <2>5, <3>1
    <3>3. /\ tap[u].n = 1 /\ Untouched(r) /\ ui.session # r
          /\ \A v \in Taps : tap[v].step # "none" /\ tap[v].s = r => v = u
      BY <2>5, <3>2 DEF IInv, Safe, Fresh
    <3>. QED
      BY <1>8, <2>3, <3>2, <3>3
  <2>6. ui.session # None => ui.session <= made
    BY DEF IInv, Safe, Fresh
  <2>. QED
    BY <2>1, <2>2, <2>4, <2>5, <2>6 DEF Fresh
<1>14. TypeOK'
  BY <1>4, <1>6 DEF IInv, TypeOK, InsertSession
<1>. QED
  BY <1>9, <1>10, <1>11, <1>12, <1>13, <1>14 DEF IInv, Safe

(* Choosing the number: one past what is stored by now. *)
LEMMA NumberKeeps ==
    ASSUME IInv, NEW t \in Taps, GetNextSequence(t)
    PROVE  IInv'
<1>. DEFINE n == NextSequence(events[tap[t].s])
            q == [tap[t] EXCEPT !.step = "append", !.n = n]
<1>1. tap[t].step = "number" /\ IsTap(tap[t]) /\ tap[t].s \in Session
  BY TapFacts DEF GetNextSequence, IInv, TypeOK
<1>2. n \in Nat /\ n > 0 /\ n = Len(events[tap[t].s]) + 1
  <2>1. events[tap[t].s] \in Seq(EventType)
    BY <1>1 DEF IInv, Safe, Unbroken
  <2>2. Len(events[tap[t].s]) \in Nat
    BY <2>1
  <2>3. n = Len(events[tap[t].s]) + 1
    BY <2>1, NextIsPastEnd
  <2>. QED
    BY <2>2, <2>3
<1>. HIDE DEF n
<1>3. IsTap(q) /\ q.step = "append" /\ q.s = tap[t].s /\ q.n = n
  <2>1. PICK P : P = tap[t]
    OBVIOUS
  <2>2. IsTap(P) /\ P.step # "none"
    BY <1>1, <2>1
  <2>3. /\ IsTap([P EXCEPT !.step = "append", !.n = n])
        /\ [P EXCEPT !.step = "append", !.n = n].step = "append"
        /\ [P EXCEPT !.step = "append", !.n = n].s = P.s
        /\ [P EXCEPT !.step = "append", !.n = n].n = n
    BY <1>2, <2>2, TapNumbered
  <2>. QED
    BY <2>1, <2>3
<1>4. tap' = [tap EXCEPT ![t] = q]
  BY DEF GetNextSequence, n
<1>. HIDE DEF q
<1>5. /\ tap' = [u \in Taps |-> tap'[u]] /\ \A u \in Taps : IsTap(tap'[u])
      /\ tap'[t] = q /\ \A u \in Taps \ {t} : tap'[u] = tap[u]
  BY <1>3, <1>4, TapMoves
<1>6. /\ Compatible' /\ Complete' /\ Unbroken'
      /\ \A s \in Session : Untouched(s) => Untouched(s)'
  BY Still DEF GetNextSequence, Exists
<1>7. NextNumber'
  <2>1. UNCHANGED <<rows, events>>
    BY DEF GetNextSequence
  <2>2. ASSUME NEW u \in Taps, NEW s \in Session,
               tap'[u].step = "append", tap'[u].s = s, Exists(s)
        PROVE  tap'[u].n <= Len(events[s]) + 1
    <3>1. CASE u = t
      BY <1>2, <1>3, <1>5, <2>2, <3>1
    <3>2. CASE u # t
      BY <1>5, <2>2, <3>2 DEF IInv, Safe, NextNumber
    <3>. QED
      BY <3>1, <3>2
  <2>. QED
    BY <2>1, <2>2 DEF NextNumber, Exists
<1>8. Fresh'
  <2>1. ui' = ui /\ made' = made
    BY DEF GetNextSequence
  <2>2. \A u \in Taps : tap'[u].step # "none" => tap[u].step # "none" /\ tap'[u].s = tap[u].s
    BY <1>1, <1>3, <1>5
  <2>3. \A u \in Taps : tap'[u].step = "insert" => tap'[u] = tap[u]
    BY <1>3, <1>5
  <2>. QED
    BY <1>6, <2>1, <2>2, <2>3, TapFacts DEF IInv, Safe, Fresh
<1>9. TypeOK'
  BY <1>5 DEF IInv, TypeOK, GetNextSequence
<1>. QED
  BY <1>6, <1>7, <1>8, <1>9 DEF IInv, Safe

(* What a press shows is a log of at least its own event. *)
LEMMA ShownIsLog ==
    ASSUME IInv, NEW t \in Taps, tap[t].step \in {"append", "persist"}
    PROVE  /\ Shown(t) = [ready |-> TRUE, session |-> tap[t].s, events |-> Shown(t).events]
           /\ tap[t].s \in Session /\ IsLog(Shown(t).events) /\ Shown(t).events # <<>>
<1>1. /\ tap[t].s \in Session /\ tap[t].kind \in EventType
      /\ tap[t].n \in Nat \ {0} /\ IsLog(tap[t].seen)
  BY DEF IInv, TypeOK, IsTap
<1>. DEFINE L == Shown(t).events
<1>2. L = [m \in DOMAIN tap[t].seen \cup {tap[t].n} |->
             IF m = tap[t].n THEN tap[t].kind ELSE tap[t].seen[m]]
  BY DEF Shown
<1>3. IsLog(L)
  BY <1>1, <1>2 DEF IsLog
<1>4. L # <<>>
  <2>1. tap[t].n \in DOMAIN L
    BY <1>2
  <2>. QED
    BY <2>1, SequenceIsLog
<1>5. Shown(t) = [ready |-> TRUE, session |-> tap[t].s, events |-> L]
  BY DEF Shown
<1>. QED
  BY <1>1, <1>3, <1>4, <1>5

(* What a press shows is a screen. *)
LEMMA ShownIsScreen ==
    ASSUME IInv, NEW t \in Taps, tap[t].step \in {"append", "persist"}, NEW screen,
           screen = Shown(t)
    PROVE  /\ screen = [ready |-> screen.ready, session |-> screen.session,
                        events |-> screen.events]
           /\ screen.ready \in BOOLEAN /\ screen.session \in Session \cup {None}
           /\ IsLog(screen.events)
<1>1. PICK K : K = Shown(t).events
  OBVIOUS
<1>2. screen = [ready |-> TRUE, session |-> tap[t].s, events |-> K]
  BY <1>1, ShownIsLog
<1>3. tap[t].s \in Session /\ IsLog(K)
  BY <1>1, ShownIsLog
<1>. QED
  BY <1>2, <1>3

(* Showing a session that somebody works on breaks nothing. *)
LEMMA ShowKeepsFresh ==
    ASSUME IInv, NEW t \in Taps, tap[t].step \in {"append", "persist"},
           \/ ui' = ui
           \/ ui' = Shown(t),
           made' = made, NEW q, tap' = [u \in Taps |-> tap'[u]],
           tap'[t] = q, \A u \in Taps \ {t} : tap'[u] = tap[u],
           q.step # "insert", q.step # "none" => q.s = tap[t].s,
           \A s \in Session : Untouched(s) => Untouched(s)'
    PROVE  Fresh'
<1>1. tap[t].s \in Session /\ tap[t].s <= made
  BY TapFacts
<1>2. ui'.session = ui.session \/ ui'.session = tap[t].s
  BY ShownIsLog
<1>3. ui'.session # None => ui'.session <= made'
  BY <1>1, <1>2 DEF IInv, Safe, Fresh
<1>4. \A u \in Taps : tap'[u].step # "none" => tap[u].step # "none" /\ tap'[u].s = tap[u].s
  OBVIOUS
<1>5. ASSUME NEW u \in Taps, NEW s \in Session, tap'[u].step = "insert", tap'[u].s = s
      PROVE  /\ tap'[u].n = 1 /\ Untouched(s)' /\ ui'.session # s
             /\ \A v \in Taps : tap'[v].step # "none" /\ tap'[v].s = s => v = u
  <2>1. u # t /\ tap'[u] = tap[u]
    BY <1>5
  <2>2. /\ tap[u].n = 1 /\ Untouched(s) /\ ui.session # s
        /\ \A v \in Taps : tap[v].step # "none" /\ tap[v].s = s => v = u
    BY <1>5, <2>1 DEF IInv, Safe, Fresh
  <2>. QED
    BY <1>2, <1>4, <2>1, <2>2
<1>6. \A u \in Taps : tap'[u].step # "none" => tap'[u].s <= made'
  BY <1>4, TapFacts
<1>7. \A s \in Session : s > made' => Untouched(s)'
  BY DEF IInv, Safe, Fresh
<1>. QED
  BY <1>3, <1>5, <1>6, <1>7 DEF Fresh

(* Storing an event that nobody knows another one for: the copies of the log
   know no number that the phone has not given out. *)
LEMMA Stored ==
    ASSUME IInv, NEW s \in Session, Exists(s), NEW n \in Nat \ {0}, NEW e \in EventType,
           n <= Len(events[s]) + 1,
           events' = [events EXCEPT ![s] = Insert(@, n, e)],
           UNCHANGED <<rows, fl, late, server>>
    PROVE  /\ events' = [r \in Session |-> events'[r]]
           /\ \A r \in Session : IsLog(events'[r]) /\ Len(events'[r]) >= Len(events[r])
           /\ Compatible' /\ Complete' /\ Unbroken'
           /\ \A r \in Session : Untouched(r) => Untouched(r)'
<1>. DEFINE L == events[s]
            M == Insert(L, n, e)
<1>1. \A r \in Session : events[r] \in Seq(EventType) /\ Len(events[r]) \in Nat
  BY DEF IInv, Safe, Unbroken
<1>2. M \in Seq(EventType) /\ Len(M) >= Len(L) /\ Len(M) \in Nat
  BY <1>1, InsertedNext
<1>3. /\ DOMAIN M = DOMAIN L \cup {n}
      /\ \A m \in DOMAIN L : M[m] = L[m]
  <2>1. PICK K : K = L
    OBVIOUS
  <2>2. PICK I : I = Insert(K, n, e)
    OBVIOUS
  <2>3. DOMAIN I = DOMAIN K \cup {n} /\ \A m \in DOMAIN K : I[m] = K[m]
    BY <2>2 DEF Insert
  <2>. QED
    BY <2>1, <2>2, <2>3
<1>4. events' = [r \in Session |-> IF r = s THEN M ELSE events[r]]
  BY DEF IInv, TypeOK
<1>. HIDE DEF M
<1>5. \A r \in Session : events'[r] \in Seq(EventType) /\ Len(events'[r]) >= Len(events[r])
  BY <1>1, <1>2, <1>4
<1>6. \A r \in Session : IsLog(events'[r])
  BY <1>5, SequenceIsLog
<1>7. \A r \in Session \ {s} : Copies(r)' = Copies(r)
  BY <1>4 DEF Copies, Uploads
<1>8. \A K \in Copies(s)' : K = M \/ K \in Copies(s)
  BY <1>4 DEF Copies, Uploads
<1>9. \A r \in Session : Exists(r)' <=> Exists(r)
  BY DEF Exists
<1>10. \A K \in Copies(s) : DOMAIN K \subseteq DOMAIN L /\ Agree(K, L) /\ Agree(L, K)
  <2>1. L \in Copies(s)
    BY CopyOf
  <2>2. \A A \in Copies(s), B \in Copies(s) : Agree(A, B)
    BY DEF IInv, Safe, Compatible
  <2>3. \A K \in Copies(s) : DOMAIN K \subseteq DOMAIN L
    BY DEF IInv, Safe, Complete
  <2>. QED
    BY <2>1, <2>2, <2>3
<1>11. \A K \in Copies(s) : Agree(K, M) /\ Agree(M, K)
  BY <1>3, <1>10 DEF Agree
<1>12. Agree(M, M)
  BY DEF Agree
<1>13. Compatible'
  <2>1. \A A \in Copies(s)', B \in Copies(s)' : Agree(A, B)
    BY <1>8, <1>11, <1>12 DEF IInv, Safe, Compatible
  <2>2. \A r \in Session \ {s} : \A A \in Copies(r)', B \in Copies(r)' : Agree(A, B)
    BY <1>7 DEF IInv, Safe, Compatible
  <2>3. \A r \in Session : \A A \in Copies(r)', B \in Copies(r)' : Agree(A, B)
    BY <2>1, <2>2
  <2>. QED
    BY <2>3 DEF Compatible, Agree
<1>14. Complete'
  <2>1. \A K \in Copies(s)' : DOMAIN K \subseteq DOMAIN events'[s]
    BY <1>3, <1>4, <1>8, <1>10
  <2>2. \A r \in Session \ {s} : Exists(r)' => \A K \in Copies(r)' : DOMAIN K \subseteq DOMAIN events'[r]
    BY <1>4, <1>7, <1>9 DEF IInv, Safe, Complete
  <2>. QED
    BY <2>1, <2>2 DEF Complete
<1>15. Unbroken'
  <2>1. \A r \in Session : ~Exists(r)' => events'[r] = <<>>
    BY <1>4, <1>9 DEF IInv, Safe, Unbroken
  <2>. QED
    BY <1>5, <2>1 DEF Unbroken
<1>16. \A r \in Session : Untouched(r) => Untouched(r)'
  BY <1>7, <1>9 DEF Untouched
<1>. QED
  BY <1>4, <1>5, <1>6, <1>13, <1>14, <1>15, <1>16

(* Storing the event, and showing a start. *)
LEMMA AppendKeeps ==
    ASSUME IInv, NEW t \in Taps, AppendEvent(t)
    PROVE  IInv'
<1>. DEFINE s == tap[t].s
<1>1. /\ tap[t].step = "append" /\ IsTap(tap[t]) /\ s \in Session
      /\ tap[t].n \in Nat \ {0} /\ tap[t].kind \in EventType
  BY DEF AppendEvent, IInv, TypeOK, IsTap
<1>2. CASE ~Exists(s)
  BY <1>2, TapEnds DEF AppendEvent, IInv, TypeOK
<1>3. CASE Exists(s)
  <2>1. PICK q : /\ tap' = [tap EXCEPT ![t] = q]
                 /\ \/ q = NoTap /\ ui' = Shown(t)
                    \/ q = [tap[t] EXCEPT !.step = "persist"] /\ ui' = ui
    BY <1>3 DEF AppendEvent
  <2>2. /\ events' = [events EXCEPT ![s] = Insert(@, tap[t].n, tap[t].kind)]
        /\ UNCHANGED <<account, rows, fl, late, server, made, faults, crossed>>
    BY <1>3 DEF AppendEvent
  <2>3. IsTap(q) /\ q.step \in {"none", "persist"} /\ (q.step # "none" => q.s = s)
    <3>1. PICK P : P = tap[t]
      OBVIOUS
    <3>2. IsTap(P) /\ P.step # "none" /\ P.n > 0
      BY <1>1, <3>1
    <3>3. /\ IsTap([P EXCEPT !.step = "persist"]) /\ [P EXCEPT !.step = "persist"].step = "persist"
          /\ [P EXCEPT !.step = "persist"].s = P.s
      BY <3>2, TapEdit
    <3>. QED
      BY <2>1, <3>1, <3>3, TapEnded
  <2>4. /\ tap' = [u \in Taps |-> tap'[u]] /\ \A u \in Taps : IsTap(tap'[u])
        /\ tap'[t] = q /\ \A u \in Taps \ {t} : tap'[u] = tap[u]
    BY <2>1, <2>3, TapMoves
  <2>5. tap[t].n <= Len(events[s]) + 1
    BY <1>1, <1>3 DEF IInv, Safe, NextNumber
  <2>6. /\ events' = [r \in Session |-> events'[r]]
        /\ \A r \in Session : IsLog(events'[r]) /\ Len(events'[r]) >= Len(events[r])
        /\ Compatible' /\ Complete' /\ Unbroken'
        /\ \A r \in Session : Untouched(r) => Untouched(r)'
    BY <1>1, <1>3, <2>2, <2>5, Stored
  <2>7. NextNumber'
    <3>1. ASSUME NEW u \in Taps, NEW r \in Session,
                 tap'[u].step = "append", tap'[u].s = r, Exists(r)
          PROVE  tap'[u].n <= Len(events'[r]) + 1
      <4>1. tap'[u] = tap[u] /\ tap[u].n \in Nat
        BY <2>3, <2>4, <3>1 DEF IInv, TypeOK, IsTap
      <4>2. tap[u].n <= Len(events[r]) + 1
        BY <3>1, <4>1 DEF IInv, Safe, NextNumber
      <4>3. events[r] \in Seq(EventType) /\ events'[r] \in Seq(EventType)
        BY <2>6 DEF IInv, Safe, Unbroken
      <4>4. Len(events[r]) \in Nat /\ Len(events'[r]) \in Nat
        BY <4>3
      <4>. QED
        BY <2>6, <4>1, <4>2, <4>4
    <3>. QED
      BY <2>2, <3>1 DEF NextNumber, Exists
  <2>8. Fresh'
    BY <1>1, <2>1, <2>2, <2>3, <2>4, <2>6, ShowKeepsFresh
  <2>9. /\ ui' = [ready |-> ui'.ready, session |-> ui'.session, events |-> ui'.events]
        /\ ui'.ready \in BOOLEAN /\ ui'.session \in Session \cup {None} /\ IsLog(ui'.events)
    <3>1. CASE ui' = ui
      BY <3>1 DEF IInv, TypeOK
    <3>2. CASE ui' = Shown(t)
      BY <1>1, <3>2, ShownIsScreen
    <3>. QED
      BY <2>1, <3>1, <3>2
  <2>10. TypeOK'
    BY <2>2, <2>4, <2>6, <2>9 DEF IInv, TypeOK
  <2>. QED
    BY <2>6, <2>7, <2>8, <2>10 DEF IInv, Safe
<1>. QED
  BY <1>2, <1>3

(* Writing the status and showing the event. *)
LEMMA PersistKeeps ==
    ASSUME IInv, NEW t \in Taps, PersistStatus(t)
    PROVE  IInv'
<1>. DEFINE s == tap[t].s
            status == DeriveTimerState(Shown(t).events)
<1>1. tap[t].step = "persist" /\ s \in Session
  BY DEF PersistStatus, IInv, TypeOK, IsTap
<1>2. status \in {"active", "paused", "completed"}
  BY <1>1, ShownIsLog DEF DeriveTimerState
<1>. HIDE DEF status
<1>3. rows' \in [Session -> Row \cup {None}] /\ \A r \in Session : Exists(r)' <=> Exists(r)
  <2>1. CASE Exists(s)
    <3>1. rows[s] \in Row
      BY <1>1, <2>1 DEF IInv, TypeOK, Exists
    <3>2. [rows[s] EXCEPT !.status = status] \in Row
      BY <1>2, <3>1 DEF Row
    <3>3. rows' = [rows EXCEPT ![s] = [rows[s] EXCEPT !.status = status]]
      BY <2>1 DEF PersistStatus, status
    <3>. QED
      BY <1>1, <2>1, <3>2, <3>3, NoneIsNothing DEF IInv, TypeOK, Exists
  <2>2. CASE ~Exists(s)
    BY <2>2 DEF PersistStatus, IInv, TypeOK, Exists
  <2>. QED
    BY <2>1, <2>2
<1>4. /\ tap' = [u \in Taps |-> tap'[u]] /\ \A u \in Taps : IsTap(tap'[u])
      /\ tap'[t] = NoTap /\ \A u \in Taps \ {t} : tap'[u] = tap[u]
  BY TapMoves, TapEnded DEF PersistStatus
<1>5. /\ Compatible' /\ Complete' /\ Unbroken'
      /\ \A r \in Session : Untouched(r) => Untouched(r)'
  BY <1>3, Still DEF PersistStatus
<1>6. NextNumber'
  <2>1. events' = events
    BY DEF PersistStatus
  <2>. QED
    BY <1>3, <1>4, <2>1, TapEnded DEF IInv, Safe, NextNumber
<1>7. Fresh'
  BY <1>1, <1>4, <1>5, ShowKeepsFresh, TapEnded DEF PersistStatus
<1>8. /\ ui' = [ready |-> ui'.ready, session |-> ui'.session, events |-> ui'.events]
      /\ ui'.ready \in BOOLEAN /\ ui'.session \in Session \cup {None} /\ IsLog(ui'.events)
  BY <1>1, ShownIsScreen DEF PersistStatus
<1>9. TypeOK'
  BY <1>3, <1>4, <1>8 DEF IInv, TypeOK, PersistStatus
<1>. QED
  BY <1>5, <1>6, <1>7, <1>9 DEF IInv, Safe

(* A press that fails. *)
LEMMA FailKeeps ==
    ASSUME IInv, NEW t \in Taps, TapFails(t)
    PROVE  IInv'
<1>1. faults' \in 0..MaxFaults /\ crossed' \in BOOLEAN
  BY PhoneAssumption DEF TapFails, Happens, IInv, TypeOK
<1>. QED
  BY <1>1, TapEnds DEF TapFails
-----------------------------------------------------------------------------
(* The process dies, and starts again.                                     *)

(* A request in flight may still arrive: the copy it carries is known. *)
LEMMA CrashKeeps ==
    ASSUME IInv, Crash
    PROVE  IInv'
<1>1. /\ tap' = [t \in Taps |-> NoTap] /\ fl' = [f \in Flushers |-> NoFlush]
      /\ ui' = Cold /\ faults' \in 0..MaxFaults
      /\ UNCHANGED <<account, rows, events, server, made, crossed>>
  BY PhoneAssumption DEF Crash, Happens, IInv, TypeOK
<1>2. ASSUME NEW r \in late'
      PROVE  IsRequest(r) /\ \A s \in DOMAIN r.payload : r.payload[s].log \in Copies(s)
  <2>1. CASE r \in late
    BY <2>1, CopyOf DEF IInv, TypeOK
  <2>2. ASSUME NEW f \in Flushers, r = Request(f)
        PROVE  IsRequest(r) /\ \A s \in DOMAIN r.payload : r.payload[s].log \in Copies(s)
    BY <2>2, RequestKnown
  <2>. QED
    BY <1>2, <2>1, <2>2 DEF Crash
<1>3. ASSUME NEW s \in Session, NEW L \in Copies(s)' PROVE L \in Copies(s)
  <2>1. \/ L = server[s] \/ L = events[s]
        \/ \E f \in Flushers : s \in DOMAIN fl'[f].payload /\ L = fl'[f].payload[s].log
        \/ \E r \in late' : s \in DOMAIN r.payload /\ L = r.payload[s].log
    BY <1>1, <1>3 DEF Copies, Uploads
  <2>2. \A f \in Flushers : DOMAIN fl'[f].payload = {}
    BY <1>1, EmptyPayload
  <2>. QED
    BY <1>2, <2>1, <2>2, CopyOf
<1>4. Spreads
  BY <1>1, <1>3, CopyIsDrawn DEF Spreads, Exists, IInv, Safe, Unbroken
<1>5. Compatible' /\ Complete' /\ Unbroken' /\ \A s \in Session : Untouched(s) => Untouched(s)'
  BY <1>4, SpreadKeeps
<1>6. \A t \in Taps : tap'[t].step = "none"
  BY <1>1, TapEnded
<1>7. ui'.session = None /\ IsLog(ui'.events) /\ ui'.ready \in BOOLEAN
      /\ ui' = [ready |-> ui'.ready, session |-> ui'.session, events |-> ui'.events]
  BY <1>1, SequenceIsLog DEF Cold
<1>8. NextNumber'
  BY <1>6 DEF NextNumber
<1>9. Fresh'
  BY <1>1, <1>5, <1>6, <1>7 DEF Fresh, IInv, Safe
<1>10. TypeOK'
  <2>1. tap' = [t \in Taps |-> tap'[t]] /\ \A t \in Taps : IsTap(tap'[t])
    BY <1>1, TapEnded
  <2>2. fl' = [f \in Flushers |-> fl'[f]] /\ \A f \in Flushers : IsFlush(fl'[f])
    BY <1>1, EmptyPayload
  <2>. QED
    BY <1>1, <1>2, <1>7, <2>1, <2>2 DEF IInv, TypeOK
<1>. QED
  BY <1>5, <1>8, <1>9, <1>10 DEF IInv, Safe

(* A session that is restored is there, so nobody is about to insert it. *)
LEMMA HydrateKeeps ==
    ASSUME IInv, Hydrate \/ HydrateFails
    PROVE  IInv'
<1>1. /\ UNCHANGED <<account, rows, events, tap, fl, late, server, made, crossed>>
      /\ faults' \in 0..MaxFaults
  BY PhoneAssumption DEF Hydrate, HydrateFails, Happens, IInv, TypeOK
<1>2. /\ ui' = [ready |-> ui'.ready, session |-> ui'.session, events |-> ui'.events]
      /\ ui'.ready \in BOOLEAN /\ IsLog(ui'.events)
      /\ \/ ui'.session = None
         \/ ui'.session \in Session /\ Exists(ui'.session)
  <2>1. CASE ui' = [Cold EXCEPT !.ready = TRUE]
    <3>1. ui' = [ready |-> TRUE, session |-> None, events |-> <<>>]
      BY <2>1 DEF Cold
    <3>. QED
      BY <3>1, SequenceIsLog
  <2>2. ASSUME NEW s \in Session, Running(s),
               ui' = [ready |-> TRUE, session |-> s, events |-> events[s]]
        PROVE  /\ ui' = [ready |-> ui'.ready, session |-> ui'.session, events |-> ui'.events]
               /\ ui'.ready \in BOOLEAN /\ IsLog(ui'.events)
               /\ ui'.session \in Session /\ Exists(ui'.session)
    BY <2>2 DEF Running, IInv, TypeOK
  <2>. QED
    BY <2>1, <2>2 DEF Hydrate, HydrateFails
<1>3. Compatible' /\ Complete' /\ Unbroken' /\ \A s \in Session : Untouched(s) => Untouched(s)'
  BY <1>1, Still DEF Exists
<1>4. NextNumber'
  BY <1>1 DEF IInv, Safe, NextNumber, Exists
<1>5. Fresh'
  <2>1. ui'.session # None => ui'.session <= made
    BY <1>2, TapFacts
  <2>2. ASSUME NEW t \in Taps, NEW s \in Session, tap[t].step = "insert", tap[t].s = s
        PROVE  /\ tap[t].n = 1 /\ Untouched(s)' /\ ui'.session # s
               /\ \A u \in Taps : tap[u].step # "none" /\ tap[u].s = s => u = t
    <3>1. /\ tap[t].n = 1 /\ Untouched(s)
          /\ \A u \in Taps : tap[u].step # "none" /\ tap[u].s = s => u = t
      BY <2>2 DEF IInv, Safe, Fresh
    <3>2. ui'.session # s
      BY <1>2, <2>2, TapFacts
    <3>. QED
      BY <1>3, <3>1, <3>2
  <2>. QED
    BY <1>1, <1>3, <2>1, <2>2 DEF Fresh, IInv, Safe
<1>6. TypeOK'
  BY <1>1, <1>2 DEF IInv, TypeOK
<1>. QED
  BY <1>3, <1>4, <1>5, <1>6 DEF IInv, Safe
-----------------------------------------------------------------------------
(* The theorems.                                                           *)

(* The invariant holds in the beginning: there is no log yet. *)
LEMMA InitSafe == Init => IInv
<1>. SUFFICES ASSUME Init PROVE IInv
  OBVIOUS
<1>1. \A t \in Taps : tap[t] = NoTap /\ tap[t].step = "none"
  BY TapEnded DEF Init
<1>2. \A f \in Flushers : fl[f] = NoFlush /\ DOMAIN fl[f].payload = {}
  BY EmptyPayload DEF Init
<1>3. \A s \in Session : ~Exists(s) /\ events[s] = <<>> /\ server[s] = <<>>
  BY DEF Init, Exists
<1>4. late = {} /\ ui = Cold /\ made = 0 /\ faults = 0 /\ ~crossed /\ account = Nobody
  BY DEF Init
<1>5. \A s \in Session : \A L \in Copies(s) : L = <<>> /\ DOMAIN L = {}
  BY <1>2, <1>3, <1>4, SequenceIsLog DEF Copies, Uploads
<1>6. ui = [ready |-> ui.ready, session |-> ui.session, events |-> ui.events]
      /\ ui.ready \in BOOLEAN /\ ui.session = None /\ IsLog(ui.events)
  BY <1>4, SequenceIsLog DEF Cold
<1>7. TypeOK
  <2>1. tap = [t \in Taps |-> tap[t]] /\ \A t \in Taps : IsTap(tap[t])
    BY <1>1, TapEnded DEF Init
  <2>2. fl = [f \in Flushers |-> fl[f]] /\ \A f \in Flushers : IsFlush(fl[f])
    BY <1>2, EmptyPayload DEF Init
  <2>3. rows \in [Session -> Row \cup {None}]
    BY DEF Init
  <2>4. /\ events = [s \in Session |-> events[s]] /\ \A s \in Session : IsLog(events[s])
        /\ server = [s \in Session |-> server[s]] /\ \A s \in Session : IsLog(server[s])
    BY SequenceIsLog DEF Init
  <2>5. made \in 0..MaxSessions /\ faults \in 0..MaxFaults
    BY <1>4, PhoneAssumption
  <2>6. crossed \in BOOLEAN
    BY DEF Init
  <2>. QED
    BY <1>4, <1>6, <2>1, <2>2, <2>3, <2>4, <2>5, <2>6 DEF TypeOK
<1>8. Compatible /\ Complete
  BY <1>3, <1>5 DEF Compatible, Complete, Agree
<1>9. Unbroken
  <2>1. <<>> \in Seq(EventType)
    OBVIOUS
  <2>. QED
    BY <1>3, <2>1 DEF Unbroken
<1>10. NextNumber /\ Fresh
  BY <1>1, <1>3, <1>5, <1>6 DEF NextNumber, Fresh, Untouched
<1>. QED
  BY <1>7, <1>8, <1>9, <1>10 DEF IInv, Safe

(* Every step preserves the invariant. *)
LEMMA StepSafe == IInv /\ [Next]_vars => IInv'
<1>. SUFFICES ASSUME IInv, [Next]_vars PROVE IInv'
  OBVIOUS
<1>1. CASE UNCHANGED vars
  <2>1. UNCHANGED <<account, rows, events, ui, tap, fl, late, server, made, faults, crossed>>
    BY <1>1 DEF vars
  <2>2. TypeOK'
    BY <2>1 DEF IInv, TypeOK
  <2>3. Spreads
    BY <2>1, CopyIsDrawn DEF Spreads, Exists, Copies, Uploads, IInv, Safe, Unbroken
  <2>. QED
    BY <2>1, <2>2, <2>3, Quiet DEF IInv
<1>2. ASSUME NEW t \in Taps, TapStart(t) \/ TapStep(t) \/ TapFails(t) PROVE IInv'
  BY <1>2, TapBegins, InsertKeeps, NumberKeeps, AppendKeeps, PersistKeeps, FailKeeps DEF TapStep
<1>3. ASSUME NEW t \in Taps, NEW e \in EventType, TapOther(t, e) PROVE IInv'
  BY <1>3, TapBegins
<1>4. CASE Crash \/ Hydrate \/ HydrateFails
  BY <1>4, CrashKeeps, HydrateKeeps
<1>5. ASSUME NEW f \in Flushers,
             \/ BeginFlush(f) \/ LocalStep(f)
             \/ Serve(f) \/ Receive(f) \/ NetworkError(f) \/ Retry(f) \/ Unauthorized(f)
             \/ FlushFails(f)
      PROVE  IInv'
  <2>1. FlushAction(f) \/ Serve(f) \/ Prune(f)
    BY <1>5 DEF FlushAction, LocalStep
  <2>. QED
    BY <2>1, FlushKeeps, ServerKeeps
<1>6. CASE \/ \E r \in late : ServeLate(r)
           \/ \E a \in Accounts : SignIn(a)
           \/ SignOut \/ Expire
  BY <1>6, ServerKeeps
<1>. QED
  BY <1>1, <1>2, <1>3, <1>4, <1>5, <1>6 DEF Next

(* The invariant holds in every behaviour. *)
THEOREM PhoneInductive == Spec => []IInv
  BY InitSafe, StepSafe, PTL DEF Spec

(* Every reachable state of the phone has its type. *)
THEOREM PhoneTypes == Spec => []TypeOK
<1>1. IInv => TypeOK
  BY DEF IInv
<1>. QED
  BY <1>1, PhoneInductive, PTL

(* Whatever is pressed at the same time, crashes, is sent twice or arrives
   late, the phone never tells the server two different events of the same
   session and sequence number, the contradiction sync would answer with a
   conflict flag. *)
THEOREM ServerAgrees == Spec => []NoContradiction
<1>1. IInv => NoContradiction
  BY CopyOf DEF IInv, Safe, Compatible, NoContradiction
<1>. QED
  BY <1>1, PhoneInductive, PTL
-----------------------------------------------------------------------------
(* One press at a time.  The handler of a press works on the session that  *)
(* is on the screen, and shows what it saw there with its own event added: *)
(* that is stored only if nobody else adds events meanwhile.  Screened     *)
(* says what the press in progress knows, and which rows it can be about.  *)

\* L says nothing that M does not say.
Within(L, M) == \A n \in DOMAIN L : n \in DOMAIN M /\ M[n] = L[n]

\* A log of a session that goes on.
Going(L) == DOMAIN L # {} /\ \A n \in DOMAIN L : L[n] # "stop"

Busy(t) == tap[t].step # "none"

OneAtATime == \A t \in Taps, u \in Taps : Busy(t) /\ Busy(u) => t = u

ScreenStored ==
    ui.session # None /\ Exists(ui.session) => \A n \in DOMAIN ui.events :
        n \in DOMAIN events[ui.session] /\ events[ui.session][n] = ui.events[n]

OnScreen ==
    \A t \in Taps : Busy(t) =>
        /\ ui.ready
        /\ tap[t].kind # "start" => ui.session = tap[t].s

Kinds ==
    \A t \in Taps : Busy(t) =>
        /\ tap[t].step = "insert" => tap[t].kind = "start"
        /\ tap[t].step \in {"number", "persist"} => tap[t].kind # "start"
        /\ tap[t].kind = "start" <=> DOMAIN tap[t].seen = {}

SeenIsStored ==
    \A t \in Taps : Busy(t) /\ Exists(tap[t].s) => Within(tap[t].seen, events[tap[t].s])

NewNumber ==
    \A t \in Taps :
        tap[t].step = "append" /\ Exists(tap[t].s) => tap[t].n \notin DOMAIN events[tap[t].s]

OwnIsStored ==
    \A t \in Taps :
        tap[t].step = "persist" /\ Exists(tap[t].s) =>
            /\ tap[t].n \in DOMAIN events[tap[t].s]
            /\ events[tap[t].s][tap[t].n] = tap[t].kind

WorksOnRunning == \A t \in Taps : Busy(t) /\ Exists(tap[t].s) => Running(tap[t].s)

ShowsRunning ==
    ui.session # None /\ Exists(ui.session) /\ Going(ui.events) => Running(ui.session)

Screened ==
    /\ OneAtATime
    /\ ScreenStored /\ ShowsRunning
    /\ OnScreen /\ Kinds /\ SeenIsStored /\ NewNumber /\ OwnIsStored /\ WorksOnRunning

(* The state shown for a log is running just while it goes on. *)
LEMMA DeriveGoing ==
    ASSUME NEW L, IsLog(L)
    PROVE  DeriveTimerState(L) \in {"active", "paused"} <=> Going(L)
<1>1. L = <<>> <=> DOMAIN L = {}
  <2>1. L = [n \in DOMAIN L |-> L[n]] /\ <<>> = [n \in DOMAIN <<>> |-> <<>>[n]]
    BY DEF IsLog
  <2>2. DOMAIN L = {} => L = <<>>
    BY <2>1, SequenceIsLog
  <2>. QED
    BY <2>2, SequenceIsLog
<1>. QED
  BY <1>1 DEF DeriveTimerState, Going

(* What a press becomes: the fields a step does not name stay. *)
LEMMA TapStepped ==
    ASSUME IInv, NEW t \in Taps, NEW x, tap' = [tap EXCEPT ![t].step = x]
    PROVE  /\ tap'[t].step = x /\ tap'[t].kind = tap[t].kind /\ tap'[t].s = tap[t].s
           /\ tap'[t].n = tap[t].n /\ tap'[t].seen = tap[t].seen
<1>1. tap'[t] = [tap[t] EXCEPT !.step = x]
  BY DEF IInv, TypeOK
<1>2. PICK a, b, c, d, e, g :
        tap[t] = [step |-> a, kind |-> b, s |-> c, n |-> d, seen |-> e, by |-> g]
  BY DEF IInv, TypeOK, IsTap
<1>3. tap'[t] = [step |-> x, kind |-> b, s |-> c, n |-> d, seen |-> e, by |-> g]
  BY <1>1, <1>2
<1>. QED
  BY <1>2, <1>3

(* The same, for the step that gets its number. *)
LEMMA TapNumberedFields ==
    ASSUME IInv, NEW t \in Taps, NEW x, NEW y, tap' = [tap EXCEPT ![t].step = x, ![t].n = y]
    PROVE  /\ tap'[t].step = x /\ tap'[t].kind = tap[t].kind /\ tap'[t].s = tap[t].s
           /\ tap'[t].n = y /\ tap'[t].seen = tap[t].seen
<1>1. tap'[t] = [tap[t] EXCEPT !.step = x, !.n = y]
  BY DEF IInv, TypeOK
<1>2. PICK a, b, c, d, e, g :
        tap[t] = [step |-> a, kind |-> b, s |-> c, n |-> d, seen |-> e, by |-> g]
  BY DEF IInv, TypeOK, IsTap
<1>3. PICK Q : Q = [tap[t] EXCEPT !.step = x]
  OBVIOUS
<1>4. Q = [step |-> x, kind |-> b, s |-> c, n |-> d, seen |-> e, by |-> g]
  BY <1>2, <1>3
<1>5. tap'[t] = [Q EXCEPT !.n = y]
  BY <1>1, <1>3
<1>6. tap'[t] = [step |-> x, kind |-> b, s |-> c, n |-> y, seen |-> e, by |-> g]
  BY <1>4, <1>5
<1>. QED
  BY <1>2, <1>6

\* No press moves, no row is added, a row that stays keeps its status and
\* its events, one that goes loses them.
Fades ==
    /\ UNCHANGED <<ui, tap, made>>
    /\ \A s \in Session :
          /\ Exists(s)' => /\ Exists(s) /\ events'[s] = events[s]
                           /\ rows'[s].status = rows[s].status
          /\ ~Exists(s)' => events'[s] = <<>>

(* Where the presses and the screen are. *)
LEMMA Places ==
    ASSUME IInv
    PROVE  /\ \A t \in Taps : Busy(t) => tap[t].s \in Session
           /\ ui.session \in Session \cup {None} /\ None \notin Session
           /\ IsLog(ui.events) /\ \A t \in Taps : IsTap(tap[t])
  BY TapFacts DEF IInv, TypeOK, Busy

(* A step during which no press moves leaves the screen true. *)
LEMMA FadeScreened ==
    ASSUME IInv, Screened, Fades
    PROVE  Screened'
<1>1. UNCHANGED <<ui, tap>>
  BY DEF Fades
<1>2. \A s \in Session : Exists(s)' => Exists(s) /\ events'[s] = events[s]
  BY DEF Fades
<1>3. \A s \in Session : Exists(s)' /\ Running(s) => Running(s)'
  BY DEF Fades, Running
<1>4. /\ \A t \in Taps : Busy(t) => tap[t].s \in Session
      /\ ui.session \in Session \cup {None} /\ None \notin Session
  BY Places
<1>5. ScreenStored' /\ ShowsRunning'
  BY <1>1, <1>2, <1>3, <1>4 DEF Screened, ScreenStored, ShowsRunning
<1>6. OnScreen' /\ Kinds' /\ OneAtATime'
  BY <1>1 DEF Screened, OnScreen, Kinds, OneAtATime, Busy
<1>7. SeenIsStored'
  BY <1>1, <1>2, <1>4 DEF Screened, SeenIsStored, Busy
<1>8. NewNumber' /\ OwnIsStored'
  BY <1>1, <1>2, <1>4 DEF Screened, NewNumber, OwnIsStored, Busy
<1>9. WorksOnRunning'
  BY <1>1, <1>2, <1>3, <1>4 DEF Screened, WorksOnRunning, Busy
<1>. QED
  BY <1>5, <1>6, <1>7, <1>8, <1>9 DEF Screened

(* When no press is in progress, only the screen matters. *)
LEMMA IdleScreened ==
    ASSUME \A t \in Taps : tap'[t].step = "none", ScreenStored', ShowsRunning'
    PROVE  Screened'
  BY DEF Screened, OneAtATime, OnScreen, Kinds, SeenIsStored, NewNumber, OwnIsStored,
         WorksOnRunning, Busy

(* While a press is handled nobody else's is. *)
LEMMA OthersIdle ==
    ASSUME IInv, Screened, NEW t \in Taps, TapStep(t) \/ TapFails(t)
    PROVE  OneAtATime' /\ \A u \in Taps : u = t \/ tap'[u].step = "none"
<1>1. \A u \in Taps \ {t} : tap'[u] = tap[u]
  BY DEF TapStep, TapFails, InsertSession, GetNextSequence, AppendEvent, PersistStatus,
         IInv, TypeOK
<1>2. Busy(t)
  BY DEF TapStep, TapFails, InsertSession, GetNextSequence, AppendEvent, PersistStatus, Busy
<1>3. \A u \in Taps : u = t \/ tap'[u].step = "none"
  BY <1>1, <1>2 DEF Screened, OneAtATime, Busy
<1>. QED
  BY <1>3 DEF OneAtATime, Busy

(* A press that crosses no other begins when none is handled. *)
LEMMA NoneBusy ==
    ASSUME IInv, ~crossed', NEW t \in Taps, TapStart(t) \/ \E e \in EventType : TapOther(t, e)
    PROVE  OneAtATime' /\ \A u \in Taps : u = t \/ tap'[u].step = "none"
<1>1. \A u \in Taps : tap[u].step = "none"
  BY DEF TapStart, TapOther, Overlap
<1>2. \A u \in Taps \ {t} : tap'[u] = tap[u]
  BY DEF TapStart, TapOther, IInv, TypeOK
<1>. QED
  BY <1>1, <1>2 DEF OneAtATime, Busy

(* A press that ends and leaves the screen and the tables as they are. *)
LEMMA EndScreened ==
    ASSUME IInv, Screened, NEW t \in Taps, TapStep(t) \/ TapFails(t),
           tap' = [tap EXCEPT ![t] = NoTap], UNCHANGED <<ui, rows, events>>
    PROVE  Screened'
<1>1. tap'[t] = NoTap
  BY DEF IInv, TypeOK
<1>2. \A u \in Taps : tap'[u].step = "none"
  BY <1>1, TapEnded, OthersIdle
<1>3. ScreenStored' /\ ShowsRunning'
  BY DEF Screened, ScreenStored, ShowsRunning, Exists, Running
<1>. QED
  BY <1>2, <1>3, IdleScreened

(* A press begins with what the screen shows of a running session. *)
LEMMA BeginScreened ==
    ASSUME IInv, Screened, ~crossed', NEW t \in Taps,
           TapStart(t) \/ \E e \in EventType : TapOther(t, e)
    PROVE  Screened'
<1>1. UNCHANGED <<ui, rows, events>> /\ Screen
  BY DEF TapStart, TapOther
<1>2. ScreenStored' /\ ShowsRunning'
  BY <1>1 DEF Screened, ScreenStored, ShowsRunning, Exists, Running
<1>3. CASE TapStart(t)
  <2>1. /\ tap'[t].step = "insert" /\ tap'[t].kind = "start" /\ tap'[t].s = made + 1
        /\ tap'[t].seen = <<>>
    BY <1>3 DEF TapStart, IInv, TypeOK
  <2>2. ~Exists(made + 1)
    <3>1. made + 1 \in Session /\ made + 1 > made
      BY <1>3, TapFacts, PhoneAssumption DEF TapStart, Session, IInv, TypeOK
    <3>. QED
      BY <3>1 DEF IInv, Safe, Fresh, Untouched
  <2>3. OneAtATime' /\ \A u \in Taps : u = t \/ tap'[u].step = "none"
    BY NoneBusy
  <2>4. \A u \in Taps :
           \/ tap'[u].step = "none"
           \/ /\ tap'[u].step = "insert" /\ tap'[u].kind = "start"
              /\ ~Exists(tap'[u].s) /\ DOMAIN tap'[u].seen = {}
    BY <2>1, <2>2, <2>3, SequenceIsLog
  <2>5. OnScreen' /\ Kinds'
    BY <1>1, <2>4 DEF OnScreen, Kinds, Screen, Busy
  <2>6. SeenIsStored' /\ NewNumber' /\ OwnIsStored' /\ WorksOnRunning'
    BY <1>1, <2>4 DEF SeenIsStored, NewNumber, OwnIsStored, WorksOnRunning, Exists, Busy
  <2>. QED
    BY <1>2, <2>3, <2>5, <2>6 DEF Screened
<1>4. ASSUME NEW e \in EventType, TapOther(t, e) PROVE Screened'
  <2>1. /\ tap'[t].step = "number" /\ tap'[t].kind = e /\ tap'[t].s = ui.session
        /\ tap'[t].seen = ui.events /\ e # "start" /\ ui.session # None
    BY <1>4 DEF TapOther, IInv, TypeOK
  <2>2. Going(ui.events)
    <3>1. DeriveTimerState(ui.events) \in {"active", "paused"}
      BY <1>4 DEF TapOther, CanTransition
    <3>. QED
      BY <3>1, DeriveGoing, Places
  <2>3. /\ OneAtATime'
        /\ \A u \in Taps :
              \/ tap'[u].step = "none"
              \/ /\ tap'[u].step = "number" /\ tap'[u].kind # "start"
                 /\ tap'[u].s = ui.session /\ tap'[u].seen = ui.events
    BY <2>1, NoneBusy
  <2>4. OnScreen' /\ Kinds'
    BY <1>1, <2>2, <2>3 DEF OnScreen, Kinds, Screen, Busy, Going
  <2>5. SeenIsStored'
    BY <1>1, <2>1, <2>3 DEF Screened, ScreenStored, SeenIsStored, Within, Exists, Busy
  <2>6. NewNumber' /\ OwnIsStored'
    BY <2>3 DEF NewNumber, OwnIsStored
  <2>7. WorksOnRunning'
    BY <1>1, <2>1, <2>2, <2>3 DEF Screened, ShowsRunning, WorksOnRunning, Exists, Running, Busy
  <2>. QED
    BY <1>2, <2>3, <2>4, <2>5, <2>6, <2>7 DEF Screened
<1>. QED
  BY <1>3, <1>4

(* The row of a new session is running, and has no events. *)
LEMMA InsertScreened ==
    ASSUME IInv, Screened, NEW t \in Taps, InsertSession(t)
    PROVE  Screened'
<1>. DEFINE s == tap[t].s
            row == [status |-> "active", sync |-> "local_only", by |-> tap[t].by]
<1>1. /\ tap[t].step = "insert" /\ s \in Session /\ tap[t].by \in Accounts /\ Busy(t)
      /\ tap[t].kind = "start" /\ DOMAIN tap[t].seen = {} /\ ui.ready
  BY DEF InsertSession, IInv, TypeOK, IsTap, Screened, Kinds, OnScreen, Busy
<1>2. tap[t].n = 1 /\ Untouched(s) /\ ui.session # s
  BY <1>1 DEF IInv, Safe, Fresh
<1>3. row \in Row /\ row # None
  BY <1>1, NoneIsNothing DEF Row, SyncState
<1>4. rows' = [r \in Session |-> IF r = s THEN row ELSE rows[r]] /\ UNCHANGED <<ui, events>>
  BY DEF InsertSession, IInv, TypeOK
<1>5. \A r \in Session : r = s => Running(r)'
  BY <1>1, <1>3, <1>4 DEF Running, Exists
<1>6. /\ tap'[t].step = "append" /\ tap'[t].kind = "start" /\ tap'[t].s = s
      /\ tap'[t].n = 1 /\ DOMAIN tap'[t].seen = {}
  BY <1>1, <1>2, TapStepped DEF InsertSession
<1>7. events[s] = <<>>
  BY <1>1, <1>2 DEF IInv, Safe, Unbroken, Untouched
<1>8. ui.session \in Session \cup {None} /\ None \notin Session
  BY Places
<1>9. ScreenStored' /\ ShowsRunning'
  BY <1>2, <1>4, <1>8 DEF Screened, ScreenStored, ShowsRunning, Exists, Running
<1>. HIDE DEF s
<1>10. /\ OneAtATime'
       /\ \A u \in Taps :
             \/ tap'[u].step = "none"
             \/ /\ tap'[u].step = "append" /\ tap'[u].kind = "start" /\ tap'[u].s = s
                /\ tap'[u].n = 1 /\ DOMAIN tap'[u].seen = {}
  BY <1>6, OthersIdle DEF TapStep
<1>11. OnScreen' /\ Kinds'
  BY <1>1, <1>4, <1>10 DEF OnScreen, Kinds, Busy
<1>12. SeenIsStored' /\ OwnIsStored' /\ WorksOnRunning'
  BY <1>1, <1>5, <1>10 DEF SeenIsStored, OwnIsStored, WorksOnRunning, Within, Busy, s
<1>13. NewNumber'
  BY <1>4, <1>7, <1>10, SequenceIsLog DEF NewNumber
<1>. QED
  BY <1>9, <1>10, <1>11, <1>12, <1>13 DEF Screened

(* The number a press gets is new. *)
LEMMA NumberScreened ==
    ASSUME IInv, Screened, NEW t \in Taps, GetNextSequence(t)
    PROVE  Screened'
<1>1. tap[t].step = "number" /\ Busy(t) /\ tap[t].s \in Session
  BY Places DEF GetNextSequence, Busy
<1>2. UNCHANGED <<ui, rows, events>>
  BY DEF GetNextSequence
<1>3. /\ tap'[t].step = "append" /\ tap'[t].kind = tap[t].kind /\ tap'[t].s = tap[t].s
      /\ tap'[t].n = NextSequence(events[tap[t].s]) /\ tap'[t].seen = tap[t].seen
  BY TapNumberedFields DEF GetNextSequence
<1>4. NextSequence(events[tap[t].s]) \notin DOMAIN events[tap[t].s]
  <2>1. PICK L : L = events[tap[t].s]
    OBVIOUS
  <2>2. L \in Seq(EventType)
    BY <1>1, <2>1 DEF IInv, Safe, Unbroken
  <2>3. NextSequence(L) = Len(L) + 1 /\ Len(L) \in Nat /\ DOMAIN L = 1..Len(L)
    BY <2>2, NextIsPastEnd
  <2>. QED
    BY <2>1, <2>3
<1>5. OneAtATime' /\ \A u \in Taps : u = t \/ tap'[u].step = "none"
  BY OthersIdle DEF TapStep
<1>6. ScreenStored' /\ ShowsRunning'
  BY <1>2 DEF Screened, ScreenStored, ShowsRunning, Exists, Running
<1>7. OnScreen' /\ Kinds'
  BY <1>1, <1>2, <1>3, <1>5 DEF Screened, OnScreen, Kinds, Busy
<1>8. SeenIsStored' /\ WorksOnRunning'
  BY <1>1, <1>2, <1>3, <1>5 DEF Screened, SeenIsStored, WorksOnRunning, Busy, Exists, Running
<1>9. NewNumber' /\ OwnIsStored'
  BY <1>2, <1>3, <1>4, <1>5 DEF NewNumber, OwnIsStored
<1>. QED
  BY <1>5, <1>6, <1>7, <1>8, <1>9 DEF Screened

(* What a press shows is what it saw and its own event. *)
LEMMA ShownFields ==
    ASSUME NEW t \in Taps
    PROVE  /\ Shown(t).ready = TRUE /\ Shown(t).session = tap[t].s
           /\ DOMAIN Shown(t).events = DOMAIN tap[t].seen \cup {tap[t].n}
           /\ \A m \in DOMAIN Shown(t).events :
                 Shown(t).events[m] = IF m = tap[t].n THEN tap[t].kind ELSE tap[t].seen[m]
  BY DEF Shown

(* The event is stored under its new number; a start is shown at once. *)
LEMMA AppendScreened ==
    ASSUME IInv, Screened, NEW t \in Taps, AppendEvent(t)
    PROVE  Screened'
<1>. DEFINE s == tap[t].s
            n == tap[t].n
            e == tap[t].kind
<1>1. tap[t].step = "append" /\ Busy(t) /\ s \in Session
  BY Places DEF AppendEvent, Busy
<1>2. CASE ~Exists(s)
  BY <1>2, EndScreened DEF AppendEvent, TapStep
<1>3. CASE Exists(s)
  <2>1. PICK M : M = Insert(events[s], n, e)
    OBVIOUS
  <2>2. n \notin DOMAIN events[s] /\ Within(tap[t].seen, events[s]) /\ Running(s)
    BY <1>1, <1>3 DEF Screened, NewNumber, SeenIsStored, WorksOnRunning
  <2>3. DOMAIN M = DOMAIN events[s] \cup {n} /\ M[n] = e /\ \A m \in DOMAIN events[s] : M[m] = events[s][m]
    <3>1. PICK L, k, x : L = events[s] /\ k = n /\ x = e
      OBVIOUS
    <3>2. k \notin DOMAIN L /\ M = Insert(L, k, x)
      BY <2>1, <2>2, <3>1
    <3>3. DOMAIN M = DOMAIN L \cup {k} /\ M[k] = x /\ \A m \in DOMAIN L : M[m] = L[m]
      <4>1. /\ DOMAIN Insert(L, k, x) = DOMAIN L \cup {k} /\ Insert(L, k, x)[k] = x
            /\ \A m \in DOMAIN L : Insert(L, k, x)[m] = L[m]
        BY <3>2 DEF Insert
      <4>. QED
        BY <3>2, <4>1
    <3>. QED
      BY <3>1, <3>3
  <2>4. rows' = rows /\ events' = [r \in Session |-> IF r = s THEN M ELSE events[r]]
    BY <1>3, <2>1 DEF AppendEvent, IInv, TypeOK
  <2>5. events'[s] = M /\ \A r \in Session \ {s} : events'[r] = events[r]
    BY <1>1, <2>4
  <2>6. ui.session \in Session \cup {None} /\ None \notin Session
    BY Places
  <2>7. CASE tap[t].kind = "start"
    <3>1. tap' = [tap EXCEPT ![t] = NoTap] /\ ui' = Shown(t)
      BY <1>3, <2>7 DEF AppendEvent
    <3>2. \A u \in Taps : tap'[u].step = "none"
      <4>1. tap'[t] = NoTap
        BY <3>1 DEF IInv, TypeOK
      <4>. QED
        BY <4>1, TapEnded, OthersIdle DEF TapStep
    <3>3. /\ ui'.session = s /\ DOMAIN ui'.events = DOMAIN tap[t].seen \cup {n}
          /\ \A m \in DOMAIN ui'.events : ui'.events[m] = IF m = n THEN e ELSE tap[t].seen[m]
      BY <3>1, ShownFields
    <3>4. ScreenStored'
      BY <2>2, <2>3, <2>5, <3>3 DEF ScreenStored, Within
    <3>5. ShowsRunning'
      BY <2>2, <2>4, <3>3 DEF ShowsRunning, Running, Exists
    <3>. QED
      BY <3>2, <3>4, <3>5, IdleScreened
  <2>8. CASE tap[t].kind # "start"
    <3>1. tap' = [tap EXCEPT ![t].step = "persist"] /\ ui' = ui
      BY <1>3, <2>8 DEF AppendEvent
    <3>2. /\ tap'[t].step = "persist" /\ tap'[t].kind = e /\ tap'[t].s = s
          /\ tap'[t].n = n /\ tap'[t].seen = tap[t].seen
      BY <3>1, TapStepped
    <3>3. OneAtATime' /\ \A u \in Taps : u = t \/ tap'[u].step = "none"
      BY OthersIdle DEF TapStep
    <3>4. ScreenStored'
      BY <2>3, <2>4, <2>5, <2>6, <3>1 DEF Screened, ScreenStored, Exists
    <3>5. ShowsRunning'
      BY <2>4, <3>1 DEF Screened, ShowsRunning, Exists, Running
    <3>6. OnScreen' /\ Kinds'
      BY <1>1, <2>8, <3>1, <3>2, <3>3 DEF Screened, OnScreen, Kinds, Busy
    <3>7. SeenIsStored'
      BY <2>2, <2>3, <2>5, <3>2, <3>3 DEF SeenIsStored, Within, Busy
    <3>8. NewNumber' /\ OwnIsStored'
      BY <2>3, <2>5, <3>2, <3>3 DEF NewNumber, OwnIsStored
    <3>9. WorksOnRunning'
      BY <2>2, <2>4, <3>2, <3>3 DEF WorksOnRunning, Running, Exists, Busy
    <3>. QED
      BY <3>3, <3>4, <3>5, <3>6, <3>7, <3>8, <3>9 DEF Screened
  <2>. QED
    BY <2>7, <2>8
<1>. QED
  BY <1>2, <1>3

(* Writing the status leaves the other rows, and this row's place. *)
LEMMA StatusWritten ==
    ASSUME IInv, NEW t \in Taps, PersistStatus(t)
    PROVE  /\ tap[t].s \in Session
           /\ \A r \in Session : Exists(r)' <=> Exists(r)
           /\ \A r \in Session \ {tap[t].s} : rows'[r] = rows[r]
           /\ Exists(tap[t].s) =>
                 /\ rows'[tap[t].s].status = DeriveTimerState(Shown(t).events)
                 /\ rows'[tap[t].s].sync = rows[tap[t].s].sync
<1>. DEFINE s == tap[t].s
            status == DeriveTimerState(Shown(t).events)
<1>1. tap[t].step = "persist" /\ s \in Session
  BY DEF PersistStatus, IInv, TypeOK, IsTap
<1>2. status \in {"active", "paused", "completed"}
  BY <1>1, ShownIsLog DEF DeriveTimerState
<1>. HIDE DEF status
<1>3. CASE Exists(s)
  <2>1. rows[s] \in Row
    BY <1>1, <1>3 DEF IInv, TypeOK, Exists
  <2>2. /\ [rows[s] EXCEPT !.status = status] \in Row
        /\ [rows[s] EXCEPT !.status = status].status = status
        /\ [rows[s] EXCEPT !.status = status].sync = rows[s].sync
    BY <1>2, <2>1 DEF Row
  <2>3. rows' = [rows EXCEPT ![s] = [rows[s] EXCEPT !.status = status]]
    BY <1>3 DEF PersistStatus, status
  <2>. QED
    BY <1>1, <1>3, <2>2, <2>3, NoneIsNothing DEF IInv, TypeOK, Exists, status
<1>4. CASE ~Exists(s)
  BY <1>1, <1>4 DEF PersistStatus, Exists
<1>. QED
  BY <1>3, <1>4

(* What is shown has been stored, and the status is that of what is shown. *)
LEMMA PersistScreened ==
    ASSUME IInv, Screened, NEW t \in Taps, PersistStatus(t)
    PROVE  Screened'
<1>. DEFINE s == tap[t].s
<1>1. tap[t].step = "persist" /\ Busy(t)
  BY DEF PersistStatus, Busy
<1>2. /\ s \in Session
      /\ \A r \in Session : Exists(r)' <=> Exists(r)
      /\ Exists(s) => rows'[s].status = DeriveTimerState(Shown(t).events)
  BY StatusWritten
<1>3. ui' = Shown(t) /\ events' = events /\ IsLog(Shown(t).events)
  BY <1>1, ShownIsLog DEF PersistStatus
<1>4. /\ ui'.session = s /\ DOMAIN ui'.events = DOMAIN tap[t].seen \cup {tap[t].n}
      /\ \A m \in DOMAIN ui'.events :
            ui'.events[m] = IF m = tap[t].n THEN tap[t].kind ELSE tap[t].seen[m]
  BY <1>3, ShownFields
<1>5. \A u \in Taps : tap'[u].step = "none"
  <2>1. tap'[t] = NoTap
    BY DEF PersistStatus, IInv, TypeOK
  <2>. QED
    BY <2>1, TapEnded, OthersIdle DEF TapStep
<1>6. ScreenStored'
  <2>1. Exists(s) => /\ Within(tap[t].seen, events[s])
                     /\ tap[t].n \in DOMAIN events[s] /\ events[s][tap[t].n] = tap[t].kind
    BY <1>1 DEF Screened, SeenIsStored, OwnIsStored
  <2>. QED
    BY <1>2, <1>3, <1>4, <2>1 DEF ScreenStored, Within
<1>7. ShowsRunning'
  <2>1. ASSUME NEW r \in Session, r = s, Exists(r), Going(Shown(t).events) PROVE Running(r)'
    <3>1. DeriveTimerState(Shown(t).events) \in {"active", "paused"}
      BY <1>3, <2>1, DeriveGoing
    <3>. QED
      BY <1>2, <2>1, <3>1 DEF Running
  <2>. QED
    BY <1>2, <1>3, <1>4, <2>1 DEF ShowsRunning
<1>. QED
  BY <1>5, <1>6, <1>7, IdleScreened

(* A launch begins with no press and nothing on the screen, and restores a
   session with all of its events. *)
LEMMA LaunchScreened ==
    ASSUME IInv, Screened, Crash \/ Hydrate \/ HydrateFails
    PROVE  Screened'
<1>1. UNCHANGED <<rows, events>>
  BY DEF Crash, Hydrate, HydrateFails
<1>2. \A t \in Taps : tap'[t].step = "none"
  <2>1. CASE Crash
    BY <2>1, TapEnded DEF Crash
  <2>2. CASE Hydrate \/ HydrateFails
    <3>1. tap' = tap /\ ~ui.ready
      BY <2>2 DEF Hydrate, HydrateFails
    <3>. QED
      BY <3>1 DEF Screened, OnScreen, Busy
  <2>. QED
    BY <2>1, <2>2
<1>3. \/ ui'.session = None
      \/ \E s \in Session : Running(s) /\ ui'.session = s /\ ui'.events = events[s]
  BY DEF Crash, Hydrate, HydrateFails, Cold
<1>4. CASE ui'.session = None
  <2>1. ScreenStored' /\ ShowsRunning'
    BY <1>4 DEF ScreenStored, ShowsRunning
  <2>. QED
    BY <1>2, <2>1, IdleScreened
<1>5. ASSUME NEW s \in Session, Running(s), ui'.session = s, ui'.events = events[s]
      PROVE  Screened'
  <2>1. ScreenStored' /\ ShowsRunning'
    BY <1>1, <1>5 DEF ScreenStored, ShowsRunning, Running, Exists
  <2>. QED
    BY <1>2, <2>1, IdleScreened
<1>. QED
  BY <1>3, <1>4, <1>5

\* The actions during which no press moves.
Fading ==
    \/ \E f \in Flushers : FlushAction(f) \/ Serve(f) \/ Prune(f)
    \/ \E r \in late : ServeLate(r)
    \/ \E a \in Accounts : SignIn(a)
    \/ SignOut \/ Expire \/ UNCHANGED vars

(* Marking a row leaves the rest of it, and the other rows. *)
LEMMA SyncWritten ==
    ASSUME IInv, NEW s, NEW state \in SyncState, SetSync(s, state)
    PROVE  \A r \in Session :
              /\ Exists(r)' <=> Exists(r)
              /\ Exists(r) => /\ rows'[r].status = rows[r].status
                              /\ rows'[r].sync = IF r = s THEN state ELSE rows[r].sync
<1>1. rows \in [Session -> Row \cup {None}] /\ None \notin Row
  BY NoneIsNothing DEF IInv, TypeOK
<1>2. CASE ~Exists(s)
  BY <1>1, <1>2 DEF SetSync, Exists
<1>3. CASE Exists(s) /\ s \notin Session
  <2>1. rows' = rows
    BY <1>1, <1>3 DEF SetSync
  <2>. QED
    BY <1>1, <1>3, <2>1 DEF Exists
<1>4. CASE Exists(s) /\ s \in Session
  <2>1. rows[s] \in Row
    BY <1>1, <1>4 DEF Exists
  <2>2. /\ [rows[s] EXCEPT !.sync = state] \in Row
        /\ [rows[s] EXCEPT !.sync = state].status = rows[s].status
        /\ [rows[s] EXCEPT !.sync = state].sync = state
    BY <2>1 DEF Row
  <2>3. rows' = [rows EXCEPT ![s] = [rows[s] EXCEPT !.sync = state]]
    BY <1>4 DEF SetSync
  <2>. QED
    BY <1>1, <1>4, <2>1, <2>2, <2>3 DEF Exists
<1>. QED
  BY <1>2, <1>3, <1>4

(* What the steps of a flush do to the rows: they mark at most one, and as
   synced only while they settle it. *)
LEMMA FlushRows ==
    ASSUME IInv, NEW f \in Flushers, FlushAction(f)
    PROVE  /\ UNCHANGED <<events, ui, tap, made, server>>
           /\ \A r \in Session :
                /\ Exists(r)' <=> Exists(r)
                /\ Exists(r) => rows'[r].status = rows[r].status
                /\ Exists(r) /\ rows'[r].sync = "synced" =>
                      rows[r].sync = "synced" \/ (r \in fl[f].todo /\ fl[f].step = "settle")
<1>1. UNCHANGED <<events, ui, tap, made, server>>
  BY DEF FlushAction, BeginFlush, BuildPayload, PayloadsBuilt, MarkSyncing, Send, Receive,
         NetworkError, Retry, Unauthorized, FlushFails, Settle, Requeue, Requeued, Reject
<1>2. \/ rows' = rows
      \/ \E s \in Session : First(f, s) /\ SetSync(s, "synced") /\ fl[f].step = "settle"
      \/ \E s \in Session, state \in {"local_only", "syncing", "rejected"} : SetSync(s, state)
  BY DEF FlushAction, BeginFlush, BuildPayload, PayloadsBuilt, MarkSyncing, Send, Receive,
         NetworkError, Retry, Unauthorized, FlushFails, Settle, Requeue, Requeued, Reject
<1>3. CASE rows' = rows
  BY <1>1, <1>3 DEF Exists
<1>4. ASSUME NEW s \in Session, First(f, s), SetSync(s, "synced"), fl[f].step = "settle"
      PROVE  \A r \in Session :
                /\ Exists(r)' <=> Exists(r)
                /\ Exists(r) => rows'[r].status = rows[r].status
                /\ Exists(r) /\ rows'[r].sync = "synced" =>
                      rows[r].sync = "synced" \/ (r \in fl[f].todo /\ fl[f].step = "settle")
  <2>1. "synced" \in SyncState
    BY DEF SyncState
  <2>2. s \in fl[f].todo
    BY <1>4 DEF First
  <2>. QED
    BY <1>4, <2>1, <2>2, SyncWritten
<1>5. ASSUME NEW s \in Session, NEW state \in {"local_only", "syncing", "rejected"}, SetSync(s, state)
      PROVE  \A r \in Session :
                /\ Exists(r)' <=> Exists(r)
                /\ Exists(r) => rows'[r].status = rows[r].status
                /\ Exists(r) /\ rows'[r].sync = "synced" => rows[r].sync = "synced"
  <2>1. state \in SyncState /\ state # "synced"
    BY DEF SyncState
  <2>. QED
    BY <1>5, <2>1, SyncWritten
<1>. QED
  BY <1>1, <1>2, <1>3, <1>4, <1>5

(* While no press moves, rows fade at most. *)
LEMMA FadingFades ==
    ASSUME IInv, Fading
    PROVE  Fades
<1>1. \A s \in Session : ~Exists(s) => events[s] = <<>>
  BY DEF IInv, Safe, Unbroken
<1>2. ASSUME NEW f \in Flushers, FlushAction(f) PROVE Fades
  BY <1>1, <1>2, FlushRows DEF Fades
<1>3. ASSUME UNCHANGED <<rows, events, ui, tap, made>> PROVE Fades
  BY <1>1, <1>3 DEF Fades, Exists
<1>4. ASSUME NEW S, Delete(S), UNCHANGED <<ui, tap, made>> PROVE Fades
  BY <1>1, <1>4 DEF Fades, Exists, Delete
<1>5. CASE \/ \E f \in Flushers : Serve(f)
           \/ \E r \in late : ServeLate(r)
           \/ \E a \in Accounts : SignIn(a)
           \/ Expire \/ UNCHANGED vars
  BY <1>3, <1>5 DEF Serve, ServeLate, SignIn, Expire, vars
<1>6. ASSUME NEW f \in Flushers, Prune(f) PROVE Fades
  BY <1>4, <1>6 DEF Prune
<1>7. CASE SignOut
  BY <1>4, <1>7 DEF SignOut
<1>. QED
  BY <1>2, <1>5, <1>6, <1>7 DEF Fading

(* Every step keeps what the screen and the press rely on. *)
LEMMA StepScreened ==
    ASSUME IInv, Screened, ~crossed', [Next]_vars
    PROVE  Screened'
<1>1. CASE Fading
  BY <1>1, FadingFades, FadeScreened
<1>2. ASSUME NEW t \in Taps, TapStart(t) \/ TapStep(t) \/ TapFails(t) PROVE Screened'
  <2>1. CASE TapFails(t)
    BY <2>1, EndScreened DEF TapFails
  <2>. QED
    BY <1>2, <2>1, BeginScreened, InsertScreened, NumberScreened, AppendScreened,
       PersistScreened DEF TapStep
<1>3. ASSUME NEW t \in Taps, NEW e \in EventType, TapOther(t, e) PROVE Screened'
  BY <1>3, BeginScreened
<1>4. CASE Crash \/ Hydrate \/ HydrateFails
  BY <1>4, LaunchScreened
<1>. QED
  BY <1>1, <1>2, <1>3, <1>4 DEF Next, Fading, FlushAction, LocalStep

(* It holds in the beginning: there is no press and no session. *)
LEMMA InitScreened == Init => Screened
<1>. SUFFICES ASSUME Init PROVE Screened
  OBVIOUS
<1>1. \A t \in Taps : tap[t].step = "none"
  BY TapEnded DEF Init
<1>2. ui.session = None
  BY DEF Init, Cold
<1>. QED
  BY <1>1, <1>2 DEF Screened, OneAtATime, ScreenStored, ShowsRunning, OnScreen, Kinds, SeenIsStored,
     NewNumber, OwnIsStored, WorksOnRunning, Busy
-----------------------------------------------------------------------------
(* The session that runs.  There is at most one, the last that was          *)
(* started; its row says so, and the screen shows it.                       *)

LiveIsLast == \A s \in Session : Going(events[s]) => s = made /\ Running(s)

StartsAlone ==
    \A t \in Taps : Busy(t) /\ tap[t].kind = "start" =>
        tap[t].s = made /\ \A s \in Session : ~Going(events[s])

LiveIsShown ==
    ui.ready => \A s \in Session :
        Going(events[s]) => ui.session = s /\ DOMAIN ui.events # {}

Remembered == LiveIsLast /\ StartsAlone /\ LiveIsShown

(* While the screen offers a start, no session goes on. *)
LEMMA NoneGoes ==
    ASSUME IInv, Screened, Remembered, ui.ready, ~Going(ui.events)
    PROVE  \A s \in Session : ~Going(events[s])
<1>1. SUFFICES ASSUME NEW s \in Session, Going(events[s]) PROVE FALSE
  OBVIOUS
<1>2. ui.session = s /\ DOMAIN ui.events # {} /\ Exists(s)
  BY <1>1 DEF Remembered, LiveIsLast, LiveIsShown, Running
<1>3. s # None
  BY Places
<1>4. \A n \in DOMAIN ui.events : n \in DOMAIN events[s] /\ events[s][n] = ui.events[n]
  BY <1>2, <1>3 DEF Screened, ScreenStored
<1>. QED
  BY <1>1, <1>2, <1>4 DEF Going

(* When nothing is pressed and the logs and rows stay, only the screen counts. *)
LEMMA StillRemembered ==
    ASSUME IInv, Remembered, UNCHANGED <<rows, events, made>>,
           \A t \in Taps : tap'[t].step # "none" /\ tap'[t].kind = "start" =>
               tap[t].step # "none" /\ tap[t].kind = "start" /\ tap'[t].s = tap[t].s,
           LiveIsShown'
    PROVE  Remembered'
<1>1. LiveIsLast'
  BY DEF Remembered, LiveIsLast, Running, Exists
<1>2. StartsAlone'
  BY DEF Remembered, StartsAlone, Busy
<1>. QED
  BY <1>1, <1>2 DEF Remembered

(* No session goes on because rows fade. *)
LEMMA FadeRemembered ==
    ASSUME IInv, Remembered, Fades
    PROVE  Remembered'
<1>1. \A s \in Session : Going(events'[s]) => Exists(s)' /\ Going(events[s])
  BY SequenceIsLog DEF Fades, Going
<1>2. \A s \in Session : Exists(s)' /\ Running(s) => Running(s)'
  BY DEF Fades, Running
<1>3. UNCHANGED <<ui, tap, made>>
  BY DEF Fades
<1>4. LiveIsLast'
  BY <1>1, <1>2, <1>3 DEF Remembered, LiveIsLast
<1>5. StartsAlone' /\ LiveIsShown'
  BY <1>1, <1>3 DEF Remembered, StartsAlone, LiveIsShown, Busy
<1>. QED
  BY <1>4, <1>5 DEF Remembered

(* A start is pressed only when no session goes on. *)
LEMMA BeginRemembered ==
    ASSUME IInv, Screened, Remembered, ~crossed', NEW t \in Taps,
           TapStart(t) \/ \E e \in EventType : TapOther(t, e)
    PROVE  Remembered'
<1>1. CASE TapStart(t)
  <2>1. ui.ready /\ ~Going(ui.events) /\ UNCHANGED <<rows, events, ui>> /\ made' = made + 1
    BY <1>1, DeriveGoing, Places DEF TapStart, Screen
  <2>2. \A s \in Session : ~Going(events[s])
    BY <2>1, NoneGoes
  <2>3. \A u \in Taps : tap'[u].step = "none" \/ tap'[u].s = made'
    BY <1>1, NoneBusy DEF TapStart, IInv, TypeOK
  <2>. QED
    BY <2>1, <2>2, <2>3 DEF Remembered, LiveIsLast, StartsAlone, LiveIsShown, Busy
<1>2. ASSUME NEW e \in EventType, TapOther(t, e) PROVE Remembered'
  <2>1. UNCHANGED <<rows, events, ui, made>>
    BY <1>2 DEF TapOther
  <2>2. \A u \in Taps : tap'[u].step = "none" \/ tap'[u].kind # "start"
    BY <1>2, NoneBusy DEF TapOther, IInv, TypeOK
  <2>3. LiveIsShown'
    BY <2>1 DEF Remembered, LiveIsShown
  <2>. QED
    BY <2>1, <2>2, <2>3, StillRemembered
<1>. QED
  BY <1>1, <1>2

(* A row without events does not go on. *)
LEMMA InsertRemembered ==
    ASSUME IInv, Screened, Remembered, NEW t \in Taps, InsertSession(t)
    PROVE  Remembered'
<1>1. tap[t].step = "insert" /\ tap[t].kind = "start"
  BY DEF InsertSession, Screened, Kinds, Busy
<1>2. tap[t].s = made /\ \A s \in Session : ~Going(events[s])
  BY <1>1 DEF Remembered, StartsAlone, Busy
<1>3. UNCHANGED <<events, ui, made>>
  BY DEF InsertSession
<1>4. \A u \in Taps : tap'[u].step = "none" \/ tap'[u].s = made
  BY <1>2, TapStepped, OthersIdle DEF InsertSession, TapStep
<1>. QED
  BY <1>2, <1>3, <1>4 DEF Remembered, LiveIsLast, StartsAlone, LiveIsShown, Busy

(* Getting a number changes neither rows nor logs. *)
LEMMA NumberRemembered ==
    ASSUME IInv, Screened, Remembered, NEW t \in Taps, GetNextSequence(t)
    PROVE  Remembered'
<1>1. UNCHANGED <<rows, events, ui, made>> /\ tap[t].step # "none"
  BY DEF GetNextSequence
<1>2. tap'[t].kind = tap[t].kind /\ tap'[t].s = tap[t].s
  BY TapNumberedFields DEF GetNextSequence
<1>3. LiveIsShown'
  BY <1>1 DEF Remembered, LiveIsShown
<1>. QED
  BY <1>1, <1>2, <1>3, StillRemembered, OthersIdle DEF TapStep

(* A press that ends, or the death of the process. *)
LEMMA EndRemembered ==
    ASSUME IInv, Remembered, UNCHANGED <<rows, events, made>>,
           \A t \in Taps : tap'[t].step = "none" \/ tap'[t] = tap[t],
           ui' = ui \/ ui'.ready = FALSE
    PROVE  Remembered'
<1>1. LiveIsShown'
  BY DEF Remembered, LiveIsShown
<1>. QED
  BY <1>1, StillRemembered

(* An event that is not a start does not make a session go on that did not. *)
LEMMA AppendRemembered ==
    ASSUME IInv, Screened, Screened', Remembered, NEW t \in Taps, AppendEvent(t)
    PROVE  Remembered'
<1>. DEFINE s == tap[t].s
            n == tap[t].n
<1>1. tap[t].step = "append" /\ Busy(t) /\ s \in Session
  BY Places DEF AppendEvent, Busy
<1>2. CASE ~Exists(s)
  <2>1. UNCHANGED <<rows, events, made, ui>> /\ \A u \in Taps : tap'[u].step = "none" \/ tap'[u] = tap[u]
    BY <1>2, TapEnded DEF AppendEvent, IInv, TypeOK
  <2>. QED
    BY <2>1, EndRemembered
<1>3. CASE Exists(s)
  <2>1. PICK L : L = events'[s]
    OBVIOUS
  <2>2. /\ n \notin DOMAIN events[s] /\ Within(tap[t].seen, events[s]) /\ Running(s)
        /\ tap[t].kind = "start" <=> DOMAIN tap[t].seen = {}
    BY <1>1, <1>3 DEF Screened, NewNumber, SeenIsStored, WorksOnRunning, Kinds
  <2>3. /\ DOMAIN L = DOMAIN events[s] \cup {n} /\ \A m \in DOMAIN events[s] : L[m] = events[s][m]
        /\ \A r \in Session \ {s} : events'[r] = events[r]
        /\ UNCHANGED <<rows, made>>
    <3>1. events' = [r \in Session |-> IF r = s THEN Insert(events[r], n, tap[t].kind) ELSE events[r]]
      BY <1>3 DEF AppendEvent, IInv, TypeOK
    <3>2. L = Insert(events[s], n, tap[t].kind)
      BY <1>1, <2>1, <3>1
    <3>. QED
      BY <3>1, <3>2 DEF Insert, AppendEvent
  <2>4. CASE tap[t].kind = "start"
    <3>1. s = made /\ \A r \in Session : ~Going(events[r])
      BY <1>1, <2>4 DEF Remembered, StartsAlone
    <3>2. \A r \in Session : Going(events'[r]) => r = s
      BY <2>3, <3>1
    <3>3. ui' = Shown(t) /\ \A u \in Taps : tap'[u].step = "none"
      BY <1>3, <2>4, TapEnded, OthersIdle DEF AppendEvent, TapStep, IInv, TypeOK
    <3>4. ui'.session = s /\ DOMAIN ui'.events # {}
      BY <3>3, ShownFields
    <3>5. LiveIsLast'
      BY <2>2, <2>3, <3>1, <3>2 DEF LiveIsLast, Running, Exists
    <3>. QED
      BY <3>2, <3>3, <3>4, <3>5 DEF Remembered, StartsAlone, LiveIsShown, Busy
  <2>5. CASE tap[t].kind # "start"
    <3>1. tap' = [tap EXCEPT ![t].step = "persist"] /\ ui' = ui
      BY <1>3, <2>5 DEF AppendEvent
    <3>2. Going(L) => Going(events[s])
      BY <2>2, <2>3, <2>5 DEF Going, Within
    <3>3. \A r \in Session : Going(events'[r]) => Going(events[r])
      BY <2>1, <2>3, <3>2
    <3>4. \A u \in Taps : tap'[u].step = "none" \/ tap'[u].kind # "start"
      BY <2>5, <3>1, TapStepped, OthersIdle DEF TapStep
    <3>5. LiveIsLast'
      BY <2>3, <3>3 DEF Remembered, LiveIsLast, Running, Exists
    <3>. QED
      BY <3>1, <3>3, <3>4, <3>5 DEF Remembered, StartsAlone, LiveIsShown, Busy
  <2>. QED
    BY <2>4, <2>5
<1>. QED
  BY <1>2, <1>3

(* The status of the session that goes on stays a running one. *)
LEMMA PersistRemembered ==
    ASSUME IInv, Screened, Screened', Remembered, NEW t \in Taps, PersistStatus(t)
    PROVE  Remembered'
<1>1. tap[t].step = "persist" /\ Busy(t) /\ tap[t].s \in Session /\ tap[t].s # None
  BY Places DEF PersistStatus, Busy
<1>2. PICK s \in Session : s = tap[t].s
  BY <1>1
<1>3. /\ UNCHANGED <<events, made>> /\ ui' = Shown(t) /\ IsLog(Shown(t).events)
      /\ \A u \in Taps : tap'[u].step = "none"
  BY <1>1, ShownIsLog, TapEnded, OthersIdle DEF PersistStatus, TapStep, IInv, TypeOK
<1>4. ui'.session = s /\ DOMAIN ui'.events # {}
  BY <1>2, <1>3, ShownFields
<1>5. ASSUME NEW r \in Session, Going(events[r]) PROVE r = s /\ s = made /\ Running(s)
  <2>1. ui.ready /\ ui.session = s
    BY <1>1, <1>2 DEF Screened, OnScreen, Kinds
  <2>. QED
    BY <1>5, <2>1 DEF Remembered, LiveIsLast, LiveIsShown
<1>6. ASSUME Going(events[s]) PROVE Running(s)'
  <2>1. Exists(s) /\ Exists(s)' /\ rows'[s].status = DeriveTimerState(Shown(t).events)
    BY <1>2, <1>5, <1>6, StatusWritten DEF Running
  <2>2. \A n \in DOMAIN ui'.events : n \in DOMAIN events[s] /\ events[s][n] = ui'.events[n]
    BY <1>1, <1>2, <1>3, <1>4, <2>1 DEF Screened, ScreenStored
  <2>3. Going(Shown(t).events)
    BY <1>3, <1>4, <1>6, <2>2 DEF Going
  <2>4. DeriveTimerState(Shown(t).events) \in {"active", "paused"}
    BY <1>3, <2>3, DeriveGoing
  <2>. QED
    BY <2>1, <2>4 DEF Running
<1>7. LiveIsLast'
  BY <1>3, <1>5, <1>6 DEF LiveIsLast
<1>. QED
  BY <1>3, <1>4, <1>5, <1>7 DEF Remembered, StartsAlone, LiveIsShown, Busy

(* A launch restores the last running row: the session that goes on, if
   there is one. *)
LEMMA HydrateRemembered ==
    ASSUME IInv, Remembered, Hydrate
    PROVE  Remembered'
<1>1. UNCHANGED <<rows, events, made, tap>>
  BY DEF Hydrate
<1>2. LiveIsShown'
  <2>1. SUFFICES ASSUME NEW r \in Session, Going(events[r])
                 PROVE  ui'.session = r /\ DOMAIN ui'.events # {}
    BY <1>1 DEF LiveIsShown
  <2>2. r = made /\ Running(r)
    BY <2>1 DEF Remembered, LiveIsLast
  <2>3. PICK s \in Session :
          /\ Running(s) /\ \A q \in Session : Running(q) => q <= s
          /\ ui' = [ready |-> TRUE, session |-> s, events |-> events[s]]
    BY <2>2 DEF Hydrate
  <2>4. s <= made /\ made <= s /\ s \in Nat /\ made \in Nat
    BY <2>2, <2>3, TapFacts DEF Running
  <2>. QED
    BY <2>1, <2>2, <2>3, <2>4 DEF Going
<1>. QED
  BY <1>1, <1>2, StillRemembered

(* Every step keeps it, when reading the database at launch does not fail. *)
LEMMA StepRemembered ==
    ASSUME IInv, Screened, Screened', Remembered, ~crossed', "read" \notin FaultKinds, [Next]_vars
    PROVE  Remembered'
<1>1. CASE Fading
  BY <1>1, FadingFades, FadeRemembered
<1>2. ASSUME NEW t \in Taps, TapStart(t) \/ TapStep(t) \/ TapFails(t) PROVE Remembered'
  <2>1. CASE TapFails(t)
    <3>1. UNCHANGED <<rows, events, made, ui>> /\ \A u \in Taps : tap'[u].step = "none" \/ tap'[u] = tap[u]
      BY <2>1, TapEnded DEF TapFails, IInv, TypeOK
    <3>. QED
      BY <3>1, EndRemembered
  <2>. QED
    BY <1>2, <2>1, BeginRemembered, InsertRemembered, NumberRemembered, AppendRemembered,
       PersistRemembered DEF TapStep
<1>3. ASSUME NEW t \in Taps, NEW e \in EventType, TapOther(t, e) PROVE Remembered'
  BY <1>3, BeginRemembered
<1>4. CASE Crash
  <2>1. UNCHANGED <<rows, events, made>> /\ ui'.ready = FALSE /\ \A t \in Taps : tap'[t].step = "none"
    BY <1>4, TapEnded DEF Crash, Cold
  <2>. QED
    BY <2>1, EndRemembered
<1>5. CASE Hydrate
  BY <1>5, HydrateRemembered
<1>6. ~HydrateFails
  BY DEF HydrateFails, Happens
<1>. QED
  BY <1>1, <1>2, <1>3, <1>4, <1>5, <1>6 DEF Next, Fading, FlushAction, LocalStep

(* In the beginning no session goes on. *)
LEMMA InitRemembered == Init => Remembered
<1>. SUFFICES ASSUME Init PROVE Remembered
  OBVIOUS
<1>1. \A t \in Taps : tap[t].step = "none"
  BY TapEnded DEF Init
<1>2. \A s \in Session : ~Going(events[s])
  BY SequenceIsLog DEF Init, Going
<1>. QED
  BY <1>1, <1>2 DEF Remembered, LiveIsLast, StartsAlone, LiveIsShown, Busy
-----------------------------------------------------------------------------
(* Uploads.  A flush works on sessions that are over, so what it read of    *)
(* their logs is all there will be; and what it takes for uploaded is on   *)
(* the server.                                                             *)

\* p is a flush, R and E are the rows and logs, S is what the server has, T
\* are the presses, m counts the sessions.
Careful(p, R, E, S, T, m) ==
    /\ \A s \in p.elig :
          /\ s <= m
          /\ R[s] # None => R[s].status = "completed"
          /\ \A t \in Taps : T[t].step = "insert" => T[t].s # s
    /\ \A s \in DOMAIN p.payload :
          R[s] # None => DOMAIN E[s] \subseteq DOMAIN p.payload[s].log
    /\ p.reply = "accepted" => p.step \in {"wait", "settle"}
    /\ p.reply = "accepted" \/ p.step = "settle" =>
          \A s \in DOMAIN p.payload : DOMAIN p.payload[s].log \subseteq DOMAIN S[s]
    /\ p.step = "settle" => p.todo \subseteq DOMAIN p.payload

SyncedIsDone ==
    \A s \in Session :
        Exists(s) /\ rows[s].sync = "synced" =>
            rows[s].status = "completed" /\ DOMAIN events[s] \subseteq DOMAIN server[s]

Uploaded ==
    /\ \A f \in Flushers : Careful(fl[f], rows, events, server, tap, made)
    /\ SyncedIsDone

(* A flush is not disturbed by what happens to other sessions than its own,
   to rows that go, or to a server that learns. *)
LEMMA CarefulStays ==
    ASSUME NEW p, IsFlush(p), NEW R, NEW E, NEW S, NEW T, NEW m \in Nat,
           NEW Q, NEW F, NEW U, NEW V, NEW n \in Nat,
           Careful(p, R, E, S, T, m), m <= n,
           \A s \in p.elig : /\ Q[s] # None => /\ R[s] # None /\ F[s] = E[s]
                                              /\ Q[s].status = R[s].status
                            /\ \A t \in Taps : V[t].step = "insert" => V[t].s # s,
           \A s \in Session : DOMAIN S[s] \subseteq DOMAIN U[s]
    PROVE  Careful(p, Q, F, U, V, n)
<1>1. /\ p.elig \subseteq Session /\ Session \subseteq Nat
      /\ DOMAIN p.payload \subseteq p.elig
  BY PhoneAssumption DEF IsFlush, Session
<1>2. \A s \in p.elig : s <= n /\ (Q[s] # None => Q[s].status = "completed")
  BY <1>1 DEF Careful
<1>3. \A s \in DOMAIN p.payload : Q[s] # None => DOMAIN F[s] \subseteq DOMAIN p.payload[s].log
  BY <1>1 DEF Careful
<1>4. p.reply = "accepted" => p.step \in {"wait", "settle"}
  BY DEF Careful
<1>5. p.reply = "accepted" \/ p.step = "settle" =>
        \A s \in DOMAIN p.payload : DOMAIN p.payload[s].log \subseteq DOMAIN U[s]
  BY <1>1 DEF Careful
<1>6. p.step = "settle" => p.todo \subseteq DOMAIN p.payload
  BY DEF Careful
<1>. QED
  BY <1>2, <1>3, <1>4, <1>5, <1>6 DEF Careful

(* A new flush of sessions that are over has claimed nothing yet. *)
LEMMA CarefulBegins ==
    ASSUME IInv,
           NEW p, p.elig \subseteq Eligible, p.payload = <<>>, p.step # "settle", p.reply = "none"
    PROVE  Careful(p, rows, events, server, tap, made)
<1>1. \A s \in p.elig : s \in Session /\ Exists(s) /\ rows[s].status = "completed"
  BY DEF Eligible, Pending
<1>. QED
  BY <1>1, TapFacts, SequenceIsLog DEF Careful

(* One that moves on without an answer claims nothing new. *)
LEMMA CarefulMoves ==
    ASSUME NEW p, NEW q, NEW R, NEW E, NEW S, NEW T, NEW m,
           Careful(p, R, E, S, T, m), q.elig = p.elig, q.payload = p.payload,
           q.reply # "accepted", q.step # "settle"
    PROVE  Careful(q, R, E, S, T, m)
  BY DEF Careful

(* Nor does one that goes on in its loop. *)
LEMMA CarefulLoops ==
    ASSUME NEW p, NEW q, NEW R, NEW E, NEW S, NEW T, NEW m,
           Careful(p, R, E, S, T, m), q.elig = p.elig, q.payload = p.payload,
           q.reply = p.reply, q.step = p.step, q.todo \subseteq p.todo
    PROVE  Careful(q, R, E, S, T, m)
  BY DEF Careful

(* The fields of a flush, after each kind of change. *)
LEMMA FlushFields ==
    ASSUME NEW F, IsFlush(F)
    PROVE  /\ \A x, y :
                [F EXCEPT !.step = x, !.todo = y] =
                    [step |-> x, elig |-> F.elig, todo |-> y, payload |-> F.payload,
                     from |-> F.from, reply |-> F.reply]
           /\ \A x, y :
                [[F EXCEPT !.step = x, !.todo = y] EXCEPT !.reply = "none"] =
                    [step |-> x, elig |-> F.elig, todo |-> y, payload |-> F.payload,
                     from |-> F.from, reply |-> "none"]
           /\ \A x : [F EXCEPT !.todo = x] =
                    [step |-> F.step, elig |-> F.elig, todo |-> x, payload |-> F.payload,
                     from |-> F.from, reply |-> F.reply]
           /\ \A x, y : [F EXCEPT !.todo = x, !.payload = y] =
                    [step |-> F.step, elig |-> F.elig, todo |-> x, payload |-> y,
                     from |-> F.from, reply |-> F.reply]
           /\ \A x, y : [F EXCEPT !.step = x, !.from = y] =
                    [step |-> x, elig |-> F.elig, todo |-> F.todo, payload |-> F.payload,
                     from |-> y, reply |-> F.reply]
           /\ \A x : [F EXCEPT !.from = x] =
                    [step |-> F.step, elig |-> F.elig, todo |-> F.todo, payload |-> F.payload,
                     from |-> x, reply |-> F.reply]
           /\ \A x : [F EXCEPT !.reply = x] =
                    [step |-> F.step, elig |-> F.elig, todo |-> F.todo, payload |-> F.payload,
                     from |-> F.from, reply |-> x]
<1>1. PICK a, b, c, d, e, g :
        F = [step |-> a, elig |-> b, todo |-> c, payload |-> d, from |-> e, reply |-> g]
  BY DEF IsFlush
<1>2. F.step = a /\ F.elig = b /\ F.todo = c /\ F.payload = d /\ F.from = e /\ F.reply = g
  BY <1>1
<1>3. ASSUME NEW x, NEW y
      PROVE  [F EXCEPT !.step = x, !.todo = y] =
               [step |-> x, elig |-> F.elig, todo |-> y, payload |-> F.payload,
                from |-> F.from, reply |-> F.reply]
  <2>1. PICK Q : Q = [F EXCEPT !.step = x]
    OBVIOUS
  <2>2. Q = [step |-> x, elig |-> F.elig, todo |-> F.todo, payload |-> F.payload,
                from |-> F.from, reply |-> F.reply]
    BY <1>1, <1>2, <2>1
  <2>3. [F EXCEPT !.step = x, !.todo = y] = [Q EXCEPT !.todo = y]
    BY <2>1
  <2>. QED
    BY <2>2, <2>3
<1>4. ASSUME NEW x, NEW y
      PROVE  [[F EXCEPT !.step = x, !.todo = y] EXCEPT !.reply = "none"] =
               [step |-> x, elig |-> F.elig, todo |-> y, payload |-> F.payload,
                from |-> F.from, reply |-> "none"]
  <2>1. PICK Q : Q = [F EXCEPT !.step = x, !.todo = y]
    OBVIOUS
  <2>2. Q = [step |-> x, elig |-> F.elig, todo |-> y, payload |-> F.payload,
                from |-> F.from, reply |-> F.reply]
    BY <1>3, <2>1
  <2>3. [Q EXCEPT !.reply = "none"] =
          [step |-> x, elig |-> F.elig, todo |-> y, payload |-> F.payload,
                from |-> F.from, reply |-> "none"]
    BY <2>2
  <2>. QED
    BY <2>1, <2>3
<1>5. ASSUME NEW x
      PROVE  [F EXCEPT !.todo = x] =
               [step |-> F.step, elig |-> F.elig, todo |-> x, payload |-> F.payload,
                from |-> F.from, reply |-> F.reply]
  BY <1>1, <1>2
<1>6. ASSUME NEW x, NEW y
      PROVE  [F EXCEPT !.todo = x, !.payload = y] =
               [step |-> F.step, elig |-> F.elig, todo |-> x, payload |-> y,
                from |-> F.from, reply |-> F.reply]
  <2>1. PICK Q : Q = [F EXCEPT !.todo = x]
    OBVIOUS
  <2>2. Q = [step |-> F.step, elig |-> F.elig, todo |-> x, payload |-> F.payload,
                from |-> F.from, reply |-> F.reply]
    BY <1>1, <1>2, <2>1
  <2>3. [F EXCEPT !.todo = x, !.payload = y] = [Q EXCEPT !.payload = y]
    BY <2>1
  <2>. QED
    BY <2>2, <2>3
<1>7. ASSUME NEW x, NEW y
      PROVE  [F EXCEPT !.step = x, !.from = y] =
               [step |-> x, elig |-> F.elig, todo |-> F.todo, payload |-> F.payload,
                from |-> y, reply |-> F.reply]
  <2>1. PICK Q : Q = [F EXCEPT !.step = x]
    OBVIOUS
  <2>2. Q = [step |-> x, elig |-> F.elig, todo |-> F.todo, payload |-> F.payload,
                from |-> F.from, reply |-> F.reply]
    BY <1>1, <1>2, <2>1
  <2>3. [F EXCEPT !.step = x, !.from = y] = [Q EXCEPT !.from = y]
    BY <2>1
  <2>. QED
    BY <2>2, <2>3
<1>8. ASSUME NEW x
      PROVE  /\ [F EXCEPT !.from = x] =
                   [step |-> F.step, elig |-> F.elig, todo |-> F.todo, payload |-> F.payload,
                from |-> x, reply |-> F.reply]
             /\ [F EXCEPT !.reply = x] =
                   [step |-> F.step, elig |-> F.elig, todo |-> F.todo, payload |-> F.payload,
                from |-> F.from, reply |-> x]
  BY <1>1, <1>2
<1>. QED
  BY <1>3, <1>4, <1>5, <1>6, <1>7, <1>8

(* No flush at all is careful. *)
LEMMA EmptyCareful == ASSUME IInv PROVE Careful(NoFlush, rows, events, server, tap, made)
<1>1. NoFlush.elig = {} /\ NoFlush.payload = <<>> /\ NoFlush.step = "idle" /\ NoFlush.reply = "none"
  BY DEF NoFlush
<1>2. NoFlush.elig \subseteq Eligible
  BY <1>1
<1>. HIDE DEF NoFlush
<1>. QED
  BY <1>1, <1>2, CarefulBegins

(* The flush that moves stays careful. *)
LEMMA FlushCareful ==
    ASSUME IInv, Uploaded, NEW f \in Flushers, FlushAction(f)
    PROVE  /\ Careful(fl'[f], rows, events, server, tap, made)
           /\ \A g \in Flushers \ {f} : fl'[g] = fl[g]
<1>. DEFINE F == fl[f]
            G == fl'[f]
            Ok(p) == Careful(p, rows, events, server, tap, made)
<1>1. IsFlush(F) /\ Ok(F) /\ Ok(NoFlush) /\ fl = [g \in Flushers |-> fl[g]]
  BY EmptyCareful DEF IInv, TypeOK, Uploaded
<1>2. ASSUME NEW p, fl' = [fl EXCEPT ![f] = p]
      PROVE  G = p /\ \A g \in Flushers \ {f} : fl'[g] = fl[g]
  BY <1>1, <1>2
<1>3. ASSUME NEW step, fl' = Goto(f, step)
      PROVE  /\ G.step = step /\ G.elig = F.elig /\ G.payload = F.payload /\ G.reply = F.reply
             /\ \A g \in Flushers \ {f} : fl'[g] = fl[g]
  <2>1. fl' = [fl EXCEPT ![f] = [F EXCEPT !.step = step, !.todo = F.elig]]
    BY <1>3 DEF Goto
  <2>. HIDE DEF F
  <2>2. G = [F EXCEPT !.step = step, !.todo = F.elig] /\ \A g \in Flushers \ {f} : fl'[g] = fl[g]
    BY <1>2, <2>1
  <2>. HIDE DEF G
  <2>. QED
    BY <1>1, <2>2, FlushFields
<1>4. ASSUME NEW s, fl' = [fl EXCEPT ![f].todo = @ \ {s}]
      PROVE  Ok(G) /\ \A g \in Flushers \ {f} : fl'[g] = fl[g]
  <2>1. G = [F EXCEPT !.todo = F.todo \ {s}] /\ \A g \in Flushers \ {f} : fl'[g] = fl[g]
    BY <1>1, <1>4
  <2>. HIDE DEF F, G
  <2>2. G = [step |-> F.step, elig |-> F.elig, todo |-> F.todo \ {s}, payload |-> F.payload,
             from |-> F.from, reply |-> F.reply]
    BY <1>1, <2>1, FlushFields
  <2>3. /\ G.step = F.step /\ G.elig = F.elig /\ G.payload = F.payload /\ G.reply = F.reply
        /\ G.todo \subseteq F.todo
    BY <2>2
  <2>. QED
    BY <1>1, <2>1, <2>3, CarefulLoops
<1>5. ASSUME NEW step \in {"mark", "requeue", "reject"}, fl' = Goto(f, step), F.reply # "accepted"
      PROVE  Ok(G) /\ \A g \in Flushers \ {f} : fl'[g] = fl[g]
  <2>1. /\ G.step = step /\ G.elig = F.elig /\ G.payload = F.payload /\ G.reply = F.reply
        /\ \A g \in Flushers \ {f} : fl'[g] = fl[g]
    BY <1>3, <1>5
  <2>. HIDE DEF F, G
  <2>. QED
    BY <1>1, <1>5, <2>1, CarefulMoves
<1>6. ASSUME fl' = [Goto(f, "requeue") EXCEPT ![f].reply = "none"]
      PROVE  Ok(G) /\ \A g \in Flushers \ {f} : fl'[g] = fl[g]
  <2>1. fl' = [fl EXCEPT ![f] = [[F EXCEPT !.step = "requeue", !.todo = F.elig] EXCEPT !.reply = "none"]]
    BY <1>1, <1>6 DEF Goto
  <2>. HIDE DEF F
  <2>2. /\ G = [[F EXCEPT !.step = "requeue", !.todo = F.elig] EXCEPT !.reply = "none"]
        /\ \A g \in Flushers \ {f} : fl'[g] = fl[g]
    BY <1>2, <2>1
  <2>. HIDE DEF G
  <2>3. \A x, y : [[F EXCEPT !.step = x, !.todo = y] EXCEPT !.reply = "none"] =
                    [step |-> x, elig |-> F.elig, todo |-> y, payload |-> F.payload,
                     from |-> F.from, reply |-> "none"]
    BY <1>1, FlushFields
  <2>4. G = [step |-> "requeue", elig |-> F.elig, todo |-> F.elig, payload |-> F.payload,
             from |-> F.from, reply |-> "none"]
    BY <2>2, <2>3
  <2>5. G.step = "requeue" /\ G.elig = F.elig /\ G.payload = F.payload /\ G.reply = "none"
    BY <2>4
  <2>. QED
    BY <1>1, <2>2, <2>5, CarefulMoves
<1>7. ASSUME fl' = [fl EXCEPT ![f] = NoFlush]
      PROVE  Ok(G) /\ \A g \in Flushers \ {f} : fl'[g] = fl[g]
  BY <1>1, <1>2, <1>7
<1>8. F.reply = "accepted" => F.step \in {"wait", "settle"}
  BY <1>1 DEF Careful
<1>9. CASE BeginFlush(f)
  <2>. DEFINE p == [NoFlush EXCEPT !.step = "build", !.elig = Eligible, !.todo = Eligible]
  <2>1. p.elig = Eligible /\ p.payload = <<>> /\ p.step = "build" /\ p.reply = "none"
    BY DEF NoFlush
  <2>2. fl' = [fl EXCEPT ![f] = p]
    BY <1>9 DEF BeginFlush
  <2>. HIDE DEF p
  <2>3. Ok(p)
    BY <2>1, CarefulBegins
  <2>. QED
    BY <1>2, <2>2, <2>3
<1>10. CASE BuildPayload(f)
  <2>1. PICK s \in Session :
          /\ First(f, s)
          /\ fl' = [fl EXCEPT ![f].todo = @ \ {s},
                              ![f].payload = IF Exists(s) /\ events[s] # <<>>
                                             THEN Absorb(@, Entry(s)) ELSE @]
    BY <1>10 DEF BuildPayload
  <2>. DEFINE P == IF Exists(s) /\ events[s] # <<>> THEN Absorb(F.payload, Entry(s)) ELSE F.payload
  <2>2. \A m \in DOMAIN P : \/ m \in DOMAIN F.payload /\ P[m] = F.payload[m]
                            \/ m = s /\ P[m].log = events[s]
    BY DEF Absorb, Entry
  <2>3. /\ G = [F EXCEPT !.todo = F.todo \ {s}, !.payload = P]
        /\ \A g \in Flushers \ {f} : fl'[g] = fl[g]
    BY <1>1, <2>1
  <2>4. F.step = "build"
    BY <1>10 DEF BuildPayload
  <2>. HIDE DEF F, G, P
  <2>5. G.step = "build" /\ G.elig = F.elig /\ G.payload = P /\ G.reply = F.reply
    BY <1>1, <2>3, <2>4, FlushFields
  <2>6. G.reply # "accepted"
    BY <1>8, <2>4, <2>5
  <2>7. Ok(G)
    BY <1>1, <2>2, <2>5, <2>6 DEF Careful
  <2>. QED
    BY <2>3, <2>7 DEF F, G
<1>11. CASE PayloadsBuilt(f)
  BY <1>5, <1>7, <1>8, <1>11 DEF PayloadsBuilt
<1>12. CASE MarkSyncing(f) \/ Settle(f) \/ Requeue(f)
  BY <1>4, <1>12 DEF MarkSyncing, Settle, Requeue
<1>13. CASE Send(f)
  <2>1. F.step = "mark" /\ fl' = [fl EXCEPT ![f] = [F EXCEPT !.step = "wait", !.from = account]]
    BY <1>13 DEF Send
  <2>. HIDE DEF F
  <2>2. /\ G = [F EXCEPT !.step = "wait", !.from = account]
        /\ \A g \in Flushers \ {f} : fl'[g] = fl[g]
    BY <1>2, <2>1
  <2>. HIDE DEF G
  <2>3. \A x, y : [F EXCEPT !.step = x, !.from = y] =
                    [step |-> x, elig |-> F.elig, todo |-> F.todo, payload |-> F.payload,
                     from |-> y, reply |-> F.reply]
    BY <1>1, FlushFields
  <2>4. G = [step |-> "wait", elig |-> F.elig, todo |-> F.todo, payload |-> F.payload,
             from |-> account, reply |-> F.reply]
    BY <2>2, <2>3
  <2>5. G.step = "wait" /\ G.elig = F.elig /\ G.payload = F.payload /\ G.reply = F.reply
    BY <2>4
  <2>. QED
    BY <1>1, <1>8, <2>1, <2>2, <2>5, CarefulMoves DEF F, G
<1>14. CASE Receive(f)
  <2>1. CASE F.reply = "accepted"
    <3>1. fl' = [fl EXCEPT ![f] = [F EXCEPT !.step = "settle", !.todo = DOMAIN F.payload]]
      BY <1>14, <2>1 DEF Receive
    <3>. HIDE DEF F
    <3>2. /\ G = [F EXCEPT !.step = "settle", !.todo = DOMAIN F.payload]
          /\ \A g \in Flushers \ {f} : fl'[g] = fl[g]
      BY <1>2, <3>1
    <3>. HIDE DEF G
    <3>3. G = [step |-> "settle", elig |-> F.elig, todo |-> DOMAIN F.payload,
               payload |-> F.payload, from |-> F.from, reply |-> F.reply]
      <4>1. PICK D : D = DOMAIN F.payload
        OBVIOUS
      <4>2. [F EXCEPT !.step = "settle", !.todo = D] =
              [step |-> "settle", elig |-> F.elig, todo |-> D, payload |-> F.payload,
               from |-> F.from, reply |-> F.reply]
        <5>1. \A x, y :
                [F EXCEPT !.step = x, !.todo = y] =
                    [step |-> x, elig |-> F.elig, todo |-> y, payload |-> F.payload,
                     from |-> F.from, reply |-> F.reply]
          BY <1>1, FlushFields
        <5>. QED
          BY <5>1
      <4>. QED
        BY <3>2, <4>1, <4>2
    <3>4. /\ G.step = "settle" /\ G.elig = F.elig /\ G.payload = F.payload
          /\ G.todo = DOMAIN F.payload
      BY <3>3
    <3>5. Ok(G)
      BY <1>1, <2>1, <3>4 DEF Careful, F
    <3>. QED
      BY <3>2, <3>5 DEF F, G
  <2>2. CASE F.reply # "accepted"
    BY <1>5, <1>14, <2>2 DEF Receive
  <2>. QED
    BY <2>1, <2>2
<1>15. CASE NetworkError(f)
  BY <1>6, <1>15 DEF NetworkError
<1>16. CASE Retry(f)
  <2>1. fl' = [fl EXCEPT ![f] = [F EXCEPT !.from = account]]
    BY <1>16 DEF Retry
  <2>. HIDE DEF F
  <2>2. G = [F EXCEPT !.from = account] /\ \A g \in Flushers \ {f} : fl'[g] = fl[g]
    BY <1>2, <2>1
  <2>. HIDE DEF G
  <2>3. /\ G.step = F.step /\ G.elig = F.elig /\ G.payload = F.payload /\ G.reply = F.reply
        /\ G.todo = F.todo
    BY <1>1, <2>2, FlushFields
  <2>. QED
    BY <1>1, <2>2, <2>3, CarefulLoops DEF F, G
<1>17. CASE Unauthorized(f)
  <2>1. fl' = Goto(f, "requeue") /\ F.reply = "none"
    BY <1>17 DEF Unauthorized, Waiting
  <2>. QED
    BY <1>5, <2>1
<1>18. CASE Requeued(f)
  BY <1>5, <1>7, <1>8, <1>18 DEF Requeued
<1>19. CASE Reject(f)
  BY <1>4, <1>7, <1>19 DEF Reject
<1>20. CASE FlushFails(f)
  BY <1>6, <1>7, <1>20 DEF FlushFails
<1>. QED
  BY <1>9, <1>10, <1>11, <1>12, <1>13, <1>14, <1>15, <1>16, <1>17, <1>18, <1>19, <1>20
  DEF FlushAction

(* A flush that is careful before the step is careful after it. *)
LEMMA CarefulNext ==
    ASSUME IInv, IInv', made <= made', NEW g \in Flushers,
           Careful(fl'[g], rows, events, server, tap, made),
           \A s \in fl'[g].elig :
              /\ Exists(s)' => /\ Exists(s) /\ events'[s] = events[s]
                               /\ rows'[s].status = rows[s].status
              /\ \A t \in Taps : tap'[t].step = "insert" => tap'[t].s # s,
           \A s \in Session : DOMAIN server[s] \subseteq DOMAIN server'[s]
    PROVE  Careful(fl'[g], rows', events', server', tap', made')
<1>1. IsFlush(fl'[g]) /\ made \in Nat /\ made' \in Nat
  BY PhoneAssumption DEF IInv, TypeOK
<1>2. PICK p : p = fl'[g]
  OBVIOUS
<1>3. /\ IsFlush(p) /\ Careful(p, rows, events, server, tap, made)
      /\ \A s \in p.elig :
            /\ rows'[s] # None => /\ rows[s] # None /\ events'[s] = events[s]
                                  /\ rows'[s].status = rows[s].status
            /\ \A t \in Taps : tap'[t].step = "insert" => tap'[t].s # s
  BY <1>1, <1>2 DEF Exists
<1>4. Careful(p, rows', events', server', tap', made')
  BY <1>1, <1>3, CarefulStays
<1>. QED
  BY <1>2, <1>4

(* What the rest of the phone does to a flush: a session it works on keeps
   its row and its log, or is gone. *)
LEMMA AroundUploaded ==
    ASSUME IInv, IInv', Uploaded, made <= made',
           \A g \in Flushers : fl'[g] = fl[g] \/ fl'[g] = NoFlush,
           \A s \in Session : DOMAIN server[s] \subseteq DOMAIN server'[s],
           \A s \in Session :
              \/ ~Exists(s)'
              \/ rows'[s] = rows[s] /\ events'[s] = events[s]
              \/ /\ \A g \in Flushers : s \notin fl[g].elig
                 /\ rows'[s].sync # "synced",
           \A t \in Taps, g \in Flushers : tap'[t].step = "insert" => tap'[t].s \notin fl[g].elig
    PROVE  Uploaded'
<1>1. ASSUME NEW g \in Flushers PROVE Careful(fl'[g], rows', events', server', tap', made')
  <2>1. Careful(fl'[g], rows, events, server, tap, made)
    BY EmptyCareful DEF Uploaded
  <2>2. fl'[g].elig \subseteq Session /\ (fl'[g] = fl[g] \/ fl'[g].elig = {})
    BY DEF IInv, TypeOK, IsFlush, NoFlush
  <2>3. \A s \in fl'[g].elig :
          /\ Exists(s)' => /\ Exists(s) /\ events'[s] = events[s]
                           /\ rows'[s].status = rows[s].status
          /\ \A t \in Taps : tap'[t].step = "insert" => tap'[t].s # s
    BY <2>2 DEF Exists
  <2>. QED
    BY <2>1, <2>3, CarefulNext
<1>2. SyncedIsDone'
  BY DEF Uploaded, SyncedIsDone, Exists
<1>. QED
  BY <1>1, <1>2 DEF Uploaded

(* What an upload adds to the server. *)
LEMMA SyncAdds ==
    ASSUME IInv, NEW r, IsRequest(r), Sync(r)
    PROVE  /\ \A s \in Session : DOMAIN server[s] \subseteq DOMAIN server'[s]
           /\ ~Refused(r) =>
                 \A s \in DOMAIN r.payload : DOMAIN r.payload[s].log \subseteq DOMAIN server'[s]
<1>1. DOMAIN r.payload \subseteq Session
  BY DEF IsRequest, IsPayload
<1>2. CASE Refused(r)
  BY <1>2 DEF Sync
<1>3. CASE ~Refused(r)
  <2>1. \A s \in Session : server'[s] = IF s \in DOMAIN r.payload
                                       THEN Absorb(server[s], r.payload[s].log) ELSE server[s]
    BY <1>3 DEF Sync
  <2>2. \A L, M : DOMAIN Absorb(L, M) = DOMAIN L \cup DOMAIN M
    BY Absorbed
  <2>3. ASSUME NEW s \in Session, s \in DOMAIN r.payload
        PROVE  DOMAIN server'[s] = DOMAIN server[s] \cup DOMAIN r.payload[s].log
    <3>1. server'[s] = Absorb(server[s], r.payload[s].log)
      BY <2>1, <2>3
    <3>. QED
      BY <2>2, <3>1
  <2>4. \A s \in Session : s \notin DOMAIN r.payload => server'[s] = server[s]
    BY <2>1
  <2>. QED
    BY <1>1, <2>3, <2>4
<1>. QED
  BY <1>2, <1>3

(* The steps of a flush mark as synced what the server has. *)
LEMMA FlushUploaded ==
    ASSUME IInv, IInv', Uploaded, NEW f \in Flushers, FlushAction(f)
    PROVE  Uploaded'
<1>1. /\ UNCHANGED <<events, ui, tap, made, server>>
      /\ \A r \in Session :
            /\ Exists(r)' <=> Exists(r)
            /\ Exists(r) => rows'[r].status = rows[r].status
            /\ Exists(r) /\ rows'[r].sync = "synced" =>
                  rows[r].sync = "synced" \/ (r \in fl[f].todo /\ fl[f].step = "settle")
  BY FlushRows
<1>2. \A g \in Flushers : Careful(fl'[g], rows, events, server, tap, made)
  BY FlushCareful DEF Uploaded
<1>3. made \in Nat /\ \A g \in Flushers : fl'[g].elig \subseteq Session
  BY TapFacts DEF IInv, TypeOK, IsFlush
<1>4. \A g \in Flushers : Careful(fl'[g], rows', events', server', tap', made')
  <2>1. SUFFICES ASSUME NEW g \in Flushers
                 PROVE  Careful(fl'[g], rows', events', server', tap', made')
    OBVIOUS
  <2>2. \A s \in fl'[g].elig : \A t \in Taps : tap'[t].step = "insert" => tap'[t].s # s
    BY <1>1, <1>2 DEF Careful
  <2>3. made <= made'
    BY <1>1, <1>3
  <2>. QED
    BY <1>1, <1>2, <1>3, <2>2, <2>3, CarefulNext
<1>5. ASSUME NEW r \in fl[f].todo, fl[f].step = "settle", Exists(r)
      PROVE  rows[r].status = "completed" /\ DOMAIN events[r] \subseteq DOMAIN server[r]
  <2>1. PICK p : p = fl[f]
    OBVIOUS
  <2>2. IsFlush(p) /\ Careful(p, rows, events, server, tap, made)
    BY <2>1 DEF IInv, TypeOK, Uploaded
  <2>3. r \in p.elig /\ r \in DOMAIN p.payload
    BY <1>5, <2>1, <2>2 DEF IsFlush, Careful
  <2>. QED
    BY <1>5, <2>1, <2>2, <2>3 DEF Careful, Exists
<1>6. SyncedIsDone'
  BY <1>1, <1>5 DEF Uploaded, SyncedIsDone
<1>. QED
  BY <1>4, <1>6 DEF Uploaded

(* The answer tells the truth when it is given. *)
LEMMA ServeUploaded ==
    ASSUME IInv, IInv', Uploaded, NEW f \in Flushers, Serve(f)
    PROVE  Uploaded'
<1>. DEFINE F == fl[f]
            G == fl'[f]
            reply == IF Refused(Request(f)) THEN "refused" ELSE "accepted"
<1>1. /\ UNCHANGED <<rows, events, tap, made>> /\ F.step = "wait" /\ Sync(Request(f))
      /\ fl' = [fl EXCEPT ![f].reply = reply]
  BY DEF Serve, Waiting
<1>2. IsRequest(Request(f)) /\ Request(f).payload = F.payload /\ IsFlush(F)
  BY RequestKnown DEF IInv, TypeOK
<1>3. /\ \A s \in Session : DOMAIN server[s] \subseteq DOMAIN server'[s]
      /\ reply = "accepted" =>
            \A s \in DOMAIN F.payload : DOMAIN F.payload[s].log \subseteq DOMAIN server'[s]
  BY <1>1, <1>2, SyncAdds
<1>4. \A g \in Flushers \ {f} : fl'[g] = fl[g]
  BY <1>1 DEF IInv, TypeOK
<1>5. Careful(fl[f], rows, events, server, tap, made) /\ made \in Nat /\ Session \subseteq Nat
  BY TapFacts DEF Uploaded
<1>6. /\ G.step = "wait" /\ G.elig = F.elig /\ G.payload = F.payload /\ G.reply = reply
  <2>1. G = [F EXCEPT !.reply = reply]
    BY <1>1 DEF IInv, TypeOK
  <2>. HIDE DEF F, G, reply
  <2>2. \A x : [F EXCEPT !.reply = x] =
                 [step |-> F.step, elig |-> F.elig, todo |-> F.todo, payload |-> F.payload,
                  from |-> F.from, reply |-> x]
    BY <1>2, FlushFields
  <2>3. G = [step |-> F.step, elig |-> F.elig, todo |-> F.todo, payload |-> F.payload,
             from |-> F.from, reply |-> reply]
    BY <2>1, <2>2
  <2>. QED
    BY <1>1, <2>3
<1>7. Careful(G, rows, events, server', tap, made)
  <2>1. Careful(F, rows, events, server, tap, made)
    BY <1>5
  <2>. HIDE DEF F, G, reply
  <2>. QED
    BY <1>3, <1>6, <2>1 DEF Careful
<1>8. ASSUME NEW g \in Flushers \ {f} PROVE Careful(fl'[g], rows', events', server', tap', made')
  <2>1. Careful(fl'[g], rows, events, server, tap, made) /\ made <= made'
    BY <1>1, <1>4, <1>5 DEF Uploaded
  <2>2. \A s \in fl'[g].elig : \A t \in Taps : tap'[t].step = "insert" => tap'[t].s # s
    BY <1>1, <2>1 DEF Careful
  <2>. QED
    BY <1>1, <1>3, <2>1, <2>2, CarefulNext DEF Exists
<1>9. SyncedIsDone'
  BY <1>1, <1>3 DEF Uploaded, SyncedIsDone, Exists
<1>. QED
  BY <1>1, <1>7, <1>8, <1>9 DEF Uploaded

(* Nobody presses a button on a session that a flush works on. *)
LEMMA NotFlushed ==
    ASSUME IInv, Uploaded, NEW s \in Session, Running(s)
    PROVE  (\A g \in Flushers : s \notin fl[g].elig) /\ rows[s].sync # "synced"
  BY DEF Uploaded, Careful, SyncedIsDone, Running, Exists

(* A press works on a running session, which no flush has chosen. *)
LEMMA TapUploaded ==
    ASSUME IInv, IInv', Screened, Uploaded, NEW t \in Taps,
           \/ TapStart(t) \/ TapStep(t) \/ TapFails(t)
           \/ \E e \in EventType : TapOther(t, e)
    PROVE  Uploaded'
<1>1. /\ UNCHANGED <<fl, server>> /\ made \in Nat /\ made <= made'
  BY TapFacts DEF TapStart, TapOther, TapStep, TapFails, InsertSession, GetNextSequence,
                  AppendEvent, PersistStatus
<1>2. \A u \in Taps \ {t} : tap'[u] = tap[u]
  BY DEF TapStart, TapOther, TapStep, TapFails, InsertSession, GetNextSequence,
         AppendEvent, PersistStatus, IInv, TypeOK
<1>3. \A u \in Taps, g \in Flushers : tap[u].step = "insert" => tap[u].s \notin fl[g].elig
  BY DEF Uploaded, Careful
<1>4. tap'[t].step = "insert" =>
        TapStart(t) /\ \A g \in Flushers : tap'[t].s \notin fl[g].elig
  <2>1. CASE TapStart(t)
    <3>1. tap'[t].s = made + 1
      BY <2>1 DEF TapStart, IInv, TypeOK
    <3>2. \A g \in Flushers : \A s \in fl[g].elig : s <= made /\ s \in Nat
      BY TapFacts DEF Uploaded, Careful, IInv, TypeOK, IsFlush
    <3>. QED
      BY <1>1, <2>1, <3>1, <3>2
  <2>2. CASE TapFails(t) \/ \E e \in EventType : TapOther(t, e)
    BY <2>2, TapEnded DEF TapFails, TapOther, IInv, TypeOK
  <2>3. CASE TapStep(t)
    <3>1. tap'[t].step \in {"append", "persist", "none"}
      <4>1. CASE InsertSession(t)
        BY <4>1, TapStepped DEF InsertSession
      <4>2. CASE GetNextSequence(t)
        BY <4>2, TapNumberedFields DEF GetNextSequence
      <4>3. CASE AppendEvent(t)
        <5>1. CASE tap' = [tap EXCEPT ![t] = NoTap]
          BY <5>1, TapEnded DEF IInv, TypeOK
        <5>2. CASE tap' = [tap EXCEPT ![t].step = "persist"]
          BY <5>2, TapStepped
        <5>. QED
          BY <4>3, <5>1, <5>2 DEF AppendEvent
      <4>4. CASE PersistStatus(t)
        BY <4>4, TapEnded DEF PersistStatus, IInv, TypeOK
      <4>. QED
        BY <2>3, <4>1, <4>2, <4>3, <4>4 DEF TapStep
    <3>. QED
      BY <3>1
  <2>. QED
    BY <2>1, <2>2, <2>3
<1>5. \A u \in Taps, g \in Flushers : tap'[u].step = "insert" => tap'[u].s \notin fl[g].elig
  BY <1>2, <1>3, <1>4
<1>6. ASSUME NEW s \in Session
      PROVE  \/ ~Exists(s)'
             \/ rows'[s] = rows[s] /\ events'[s] = events[s]
             \/ (\A g \in Flushers : s \notin fl[g].elig) /\ rows'[s].sync # "synced"
  <2>1. CASE TapStart(t) \/ TapFails(t) \/ GetNextSequence(t) \/ \E e \in EventType : TapOther(t, e)
    BY <2>1 DEF TapStart, TapFails, GetNextSequence, TapOther
  <2>2. CASE InsertSession(t)
    <3>1. tap[t].step = "insert" /\ tap[t].s \in Session /\ events' = events
      BY <2>2, TapFacts DEF InsertSession
    <3>2. rows' = [r \in Session |-> IF r = tap[t].s
                     THEN [status |-> "active", sync |-> "local_only", by |-> tap[t].by] ELSE rows[r]]
      BY <2>2 DEF InsertSession, IInv, TypeOK
    <3>. QED
      BY <1>3, <3>1, <3>2
  <2>3. CASE AppendEvent(t) \/ PersistStatus(t)
    <3>1. tap[t].s \in Session /\ (Exists(tap[t].s) => Running(tap[t].s))
      BY <2>3, Places DEF Screened, WorksOnRunning, Busy, AppendEvent, PersistStatus
    <3>2. CASE s # tap[t].s \/ ~Exists(s)
      <4>1. CASE AppendEvent(t)
        BY <3>2, <4>1 DEF AppendEvent, IInv, TypeOK
      <4>2. CASE PersistStatus(t)
        <5>1. events' = events
          BY <4>2 DEF PersistStatus
        <5>. QED
          BY <3>2, <4>2, <5>1, StatusWritten
      <4>. QED
        BY <2>3, <4>1, <4>2
    <3>3. CASE s = tap[t].s /\ Exists(s)
      <4>1. (\A g \in Flushers : s \notin fl[g].elig) /\ rows[s].sync # "synced"
        BY <3>1, <3>3, NotFlushed
      <4>2. rows'[s].sync = rows[s].sync
        BY <2>3, <3>3, StatusWritten DEF AppendEvent
      <4>. QED
        BY <4>1, <4>2
    <3>. QED
      BY <3>2, <3>3
  <2>. QED
    BY <2>1, <2>2, <2>3 DEF TapStep
<1>. QED
  BY <1>1, <1>5, <1>6, AroundUploaded

(* Every step keeps the uploads truthful. *)
LEMMA StepUploaded ==
    ASSUME IInv, IInv', Screened, Uploaded, [Next]_vars
    PROVE  Uploaded'
<1>1. ASSUME NEW t \in Taps, TapStart(t) \/ TapStep(t) \/ TapFails(t) PROVE Uploaded'
  BY <1>1, TapUploaded
<1>2. ASSUME NEW t \in Taps, NEW e \in EventType, TapOther(t, e) PROVE Uploaded'
  BY <1>2, TapUploaded
<1>3. ASSUME NEW f \in Flushers, FlushAction(f) PROVE Uploaded'
  BY <1>3, FlushUploaded
<1>4. ASSUME NEW f \in Flushers, Serve(f) PROVE Uploaded'
  BY <1>4, ServeUploaded
<1>5. \A t \in Taps, g \in Flushers : tap[t].step = "insert" => tap[t].s \notin fl[g].elig
  BY DEF Uploaded, Careful
<1>6. made \in Nat
  BY TapFacts
<1>7. ASSUME made' = made,
             \A g \in Flushers : fl'[g] = fl[g] \/ fl'[g] = NoFlush,
             \A s \in Session : DOMAIN server[s] \subseteq DOMAIN server'[s],
             \A s \in Session : ~Exists(s)' \/ (rows'[s] = rows[s] /\ events'[s] = events[s]),
             \A t \in Taps : tap'[t] = tap[t] \/ tap'[t].step = "none"
      PROVE  Uploaded'
  BY <1>5, <1>6, <1>7, AroundUploaded
<1>8. CASE Crash \/ Hydrate \/ HydrateFails \/ UNCHANGED vars
           \/ Expire \/ \E a \in Accounts : SignIn(a)
  <2>1. UNCHANGED <<rows, events, server, made>>
    BY <1>8 DEF Crash, Hydrate, HydrateFails, vars, Expire, SignIn
  <2>2. /\ \A g \in Flushers : fl'[g] = fl[g] \/ fl'[g] = NoFlush
        /\ \A t \in Taps : tap'[t] = tap[t] \/ tap'[t].step = "none"
    BY <1>8, TapEnded DEF Crash, Hydrate, HydrateFails, vars, Expire, SignIn
  <2>. QED
    BY <1>7, <2>1, <2>2
<1>9. CASE SignOut
  BY <1>7, <1>9 DEF SignOut, Delete, Exists
<1>10. ASSUME NEW f \in Flushers, Prune(f) PROVE Uploaded'
  <2>1. PICK S : Delete(S)
    BY <1>10 DEF Prune
  <2>2. UNCHANGED <<server, made, tap>> /\ fl' = [fl EXCEPT ![f] = NoFlush]
    BY <1>10 DEF Prune
  <2>3. \A g \in Flushers : fl'[g] = fl[g] \/ fl'[g] = NoFlush
    BY <2>2 DEF IInv, TypeOK
  <2>. QED
    BY <1>7, <2>1, <2>2, <2>3 DEF Delete, Exists
<1>11. ASSUME NEW r \in late, ServeLate(r) PROVE Uploaded'
  <2>1. IsRequest(r) /\ Sync(r) /\ UNCHANGED <<rows, events, tap, fl, made>>
    BY <1>11 DEF ServeLate, IInv, TypeOK
  <2>. QED
    BY <1>7, <2>1, SyncAdds
<1>. QED
  BY <1>1, <1>2, <1>3, <1>4, <1>8, <1>9, <1>10, <1>11 DEF Next, FlushAction, LocalStep

(* In the beginning nothing is uploaded. *)
LEMMA InitUploaded == Init => Uploaded
<1>. SUFFICES ASSUME Init PROVE Uploaded
  OBVIOUS
<1>1. \A f \in Flushers : fl[f] = NoFlush
  BY DEF Init
<1>2. Careful(NoFlush, rows, events, server, tap, made)
  BY InitSafe, EmptyCareful
<1>. QED
  BY <1>1, <1>2 DEF Uploaded, SyncedIsDone, Init, Exists
-----------------------------------------------------------------------------
(* What a session that is there and uploaded has on the server.            *)

(* Two logs of the same numbers that say the same are the same. *)
LEMMA SameLog ==
    ASSUME NEW L, NEW M, IsLog(L), IsLog(M), DOMAIN L = DOMAIN M, Agree(L, M)
    PROVE  L = M
<1>1. L = [n \in DOMAIN L |-> L[n]] /\ M = [n \in DOMAIN M |-> M[n]]
  BY DEF IsLog
<1>2. \A n \in DOMAIN L : L[n] = M[n]
  BY DEF Agree
<1>. QED
  BY <1>1, <1>2

SyncedStored ==
    \A s \in Session :
        Exists(s) /\ rows[s].sync = "synced" => server[s] = events[s]

(* A finished session whose numbers are all on the server is there as it is. *)
LEMMA UploadedIsSynced == IInv /\ Uploaded => SyncedStored
<1>. SUFFICES ASSUME IInv, Uploaded, NEW s \in Session, Exists(s), rows[s].sync = "synced"
              PROVE  server[s] = events[s]
  BY DEF SyncedStored
<1>1. PICK A, B : A = server[s] /\ B = events[s]
  OBVIOUS
<1>2. IsLog(A) /\ IsLog(B)
  BY <1>1 DEF IInv, TypeOK
<1>3. DOMAIN A = DOMAIN B /\ Agree(A, B)
  BY <1>1, CopyOf DEF IInv, Safe, Complete, Compatible, Uploaded, SyncedIsDone
<1>. QED
  BY <1>1, <1>2, <1>3, SameLog

(* A row goes when it is pruned, or with the account. *)
LEMMA Dropped ==
    ASSUME IInv, IInv', SyncedStored, [Next]_vars, NEW s \in Session,
           Exists(s), rows'[s] = None, account' = account
    PROVE  server[s] = events[s]
<1>1. rows' # rows
  BY DEF Exists
<1>2. ASSUME NEW f \in Flushers, Prune(f) PROVE server[s] = events[s]
  BY <1>2 DEF Prune, Delete, Exists, SyncedStored
<1>3. ASSUME NEW f \in Flushers, FlushAction(f) PROVE FALSE
  BY <1>3, FlushRows DEF Exists
<1>4. ASSUME NEW t \in Taps, InsertSession(t) PROVE FALSE
  <2>1. rows' = [rows EXCEPT ![tap[t].s] =
                    [status |-> "active", sync |-> "local_only", by |-> tap[t].by]]
    BY <1>4 DEF InsertSession
  <2>2. [status |-> "active", sync |-> "local_only", by |-> tap[t].by] \in Row
    BY <1>4, TapFacts DEF InsertSession, IInv, TypeOK, IsTap, Row, SyncState
  <2>. QED
    BY <2>1, <2>2, NoneIsNothing DEF Exists, IInv, TypeOK
<1>5. ASSUME NEW t \in Taps, PersistStatus(t) PROVE FALSE
  BY <1>5, StatusWritten DEF Exists
<1>6. ~SignOut
  BY DEF SignOut, IInv, TypeOK
<1>7. \A t \in Taps : /\ ~TapStart(t) /\ ~GetNextSequence(t) /\ ~AppendEvent(t) /\ ~TapFails(t)
                      /\ \A e \in EventType : ~TapOther(t, e)
  BY <1>1 DEF TapStart, GetNextSequence, AppendEvent, TapFails, TapOther
<1>8. /\ ~Crash /\ ~Hydrate /\ ~HydrateFails /\ ~Expire
      /\ \A f \in Flushers : ~Serve(f)
      /\ \A r \in late : ~ServeLate(r)
      /\ \A a \in Accounts : ~SignIn(a)
      /\ ~UNCHANGED vars
  BY <1>1 DEF Crash, Hydrate, HydrateFails, Expire, Serve, ServeLate, SignIn, vars
<1>. QED
  BY <1>2, <1>3, <1>4, <1>5, <1>6, <1>7, <1>8 DEF Next, TapStep, LocalStep, FlushAction
-----------------------------------------------------------------------------
(* What was crossed stays so. *)
LEMMA CrossedStays ==
    ASSUME [Next]_vars, crossed
    PROVE  crossed'
<1>1. ASSUME NEW t \in Taps, TapStart(t) \/ \E e \in EventType : TapOther(t, e) PROVE crossed'
  BY <1>1 DEF TapStart, TapOther, Overlap
<1>2. ASSUME NEW t \in Taps, TapStep(t) \/ TapFails(t) PROVE crossed'
  BY <1>2 DEF TapStep, TapFails, InsertSession, GetNextSequence, AppendEvent, PersistStatus
<1>3. CASE \/ Crash \/ Hydrate \/ HydrateFails \/ SignOut \/ Expire
           \/ \E a \in Accounts : SignIn(a)
           \/ \E r \in late : ServeLate(r)
           \/ UNCHANGED vars
  BY <1>3 DEF Crash, Hydrate, HydrateFails, SignOut, Expire, SignIn, ServeLate, vars
<1>4. ASSUME NEW f \in Flushers, LocalStep(f) PROVE crossed'
  BY <1>4 DEF LocalStep, BuildPayload, PayloadsBuilt, MarkSyncing, Send, Settle, Prune,
              Requeue, Requeued, Reject
<1>5. ASSUME NEW f \in Flushers,
             \/ BeginFlush(f) \/ Serve(f) \/ Receive(f) \/ NetworkError(f) \/ Retry(f)
             \/ Unauthorized(f) \/ FlushFails(f)
      PROVE  crossed'
  BY <1>5 DEF BeginFlush, Serve, Receive, NetworkError, Retry, Unauthorized, FlushFails
<1>. QED
  BY <1>1, <1>2, <1>3, <1>4, <1>5 DEF Next

(* As long as no button was pressed while a press was handled, the screen
   shows only what is stored, whatever fails, dies or is wiped. *)
THEOREM ScreenIsStored == Spec => []ShownIsStored
<1>. DEFINE I == crossed \/ Screened
<1>1. Init => I
  BY InitScreened
<1>2. IInv /\ I /\ [Next]_vars => I'
  BY StepScreened, CrossedStays
<1>3. I => ShownIsStored
  BY DEF Screened, ScreenStored, ShownIsStored
<1>. QED
  BY <1>1, <1>2, <1>3, PhoneInductive, PTL DEF Spec

(* As long as that did not happen, and when the database can be read at
   launch, no running session is forgotten: while the screen offers a start,
   none is running. *)
THEOREM RunningIsRemembered ==
    ASSUME "read" \notin FaultKinds
    PROVE  Spec => []NoneForgotten
<1>. DEFINE I == crossed \/ (Screened /\ Remembered)
<1>1. Init => I
  BY InitScreened, InitRemembered
<1>2. IInv /\ IInv' /\ I /\ [Next]_vars => I'
  BY StepScreened, StepRemembered, CrossedStays
<1>3. IInv /\ I => NoneForgotten
  <2>. SUFFICES ASSUME IInv, Screened, Remembered, ui.ready,
                       DeriveTimerState(ui.events) \in {"idle", "completed"}, NEW s \in Session
                PROVE  DeriveTimerState(events[s]) \notin {"active", "paused"}
    BY DEF NoneForgotten
  <2>1. ~Going(ui.events)
    BY DeriveGoing, Places
  <2>2. IsLog(events[s])
    BY DEF IInv, TypeOK
  <2>. QED
    BY <2>1, <2>2, NoneGoes, DeriveGoing
<1>. QED
  BY <1>1, <1>2, <1>3, PhoneInductive, PTL DEF Spec

(* As long as no button was pressed while a press was handled, what is marked
   synced is on the server with all of its events, whatever is lost, late or
   retried, whoever signs in. *)
THEOREM SyncedStaysUploaded == Spec => []SyncedIsUploaded
<1>. DEFINE I == crossed \/ (Screened /\ Uploaded)
<1>1. Init => I
  BY InitScreened, InitUploaded
<1>2. IInv /\ IInv' /\ I /\ [Next]_vars => I'
  BY StepScreened, StepUploaded, CrossedStays
<1>3. IInv /\ I => SyncedIsUploaded
  BY UploadedIsSynced DEF SyncedStored, SyncedIsUploaded
<1>. QED
  BY <1>1, <1>2, <1>3, PhoneInductive, PTL DEF Spec

(* As long as that did not happen, only what the server has leaves the phone,
   except by signing out. *)
THEOREM OnlyUploadedIsDropped == Spec => DroppedIsUploaded
<1>1. IInv /\ IInv' /\ SyncedIsUploaded /\ [Next]_vars =>
        [~crossed => \A s \in Session :
            Exists(s) /\ rows'[s] = None /\ account' = account
                => server[s] = events[s]]_vars
  BY Dropped DEF SyncedIsUploaded, SyncedStored
<1>. QED
  BY <1>1, SyncedStaysUploaded, PhoneInductive, PTL DEF Spec, DroppedIsUploaded
=============================================================================
