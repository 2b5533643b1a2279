--------------------------------- MODULE Push ---------------------------------
(***************************************************************************)
(* Notifications and their delivery (domain/platform/notifications.py,     *)
(* push.py, jobs/push_notifier.py).                                        *)
(*                                                                         *)
(* A run of the job reads the rows that are not stamped, then the settings, *)
(* then the push tokens, sends, and stamps what it has read.  It is started *)
(* every two minutes and cancelled after five, so runs overlap; it sends   *)
(* in chunks, and what a chunk has delivered stays delivered when the run  *)
(* fails.  That a row is read in the app is another column, which delivery *)
(* does not look at, and is left out.                                      *)
(***************************************************************************)
EXTENDS Naturals, Sequences, FiniteSets

CONSTANTS
    Users,
    Phones,     \* installations, each with a push token of its own
    Runs,       \* runs of the job that can be under way at once
    Limit,      \* rows a run reads
    Chunk,      \* messages the provider takes at once
    None,
    MaxNotes, MaxSettings, MaxFaults  \* bounds on rows, on changes of settings and on failures

ASSUME PushAssumption ==
    /\ Limit \in Nat \ {0} /\ Chunk \in Nat \ {0}
    /\ IsFiniteSet(Users) /\ IsFiniteSet(Phones)
    /\ {MaxNotes, MaxSettings, MaxFaults} \subseteq Nat

Note == [user : Users, old : BOOLEAN, pushed : BOOLEAN]

\* A run: the rows it read, the users it found to want them, and what is to be sent.
Run == [step : {"settings", "tokens", "send"}, batch : SUBSET (1..MaxNotes),
        in : SUBSET Users, unsent : SUBSET ((1..MaxNotes) \X Phones)]

ASSUME NoneIsNoRun == None \notin Run

VARIABLES
    notes,       \* the rows, in order of created_at
    optedIn,     \* users with notifications_enabled
    registered,  \* <<user, phone>>: Device rows with a push_token
    runs,        \* the runs under way
    received,    \* how often a phone has been sent a row
    settings, faults,
    owed,        \* history: the phones a row was due to since it was created
    overlapped   \* history: two runs have been under way at once

vars == <<notes, optedIn, registered, runs, received, settings, faults, owed, overlapped>>

Rows == 1..Len(notes)

Init ==
    /\ notes = <<>> /\ optedIn = Users /\ registered = {}
    /\ runs = [r \in Runs |-> None]
    /\ received = [n \in 1..MaxNotes |-> [p \in Phones |-> 0]]
    /\ settings = 0 /\ faults = 0
    /\ owed = [n \in 1..MaxNotes |-> {}] /\ overlapped = FALSE
-----------------------------------------------------------------------------
(* The API.                                                                *)

PhonesOf(u) == {p \in Phones : <<u, p>> \in registered}

\* create(), after a friend request, its acceptance or a group invitation.
Create(u) ==
    /\ Len(notes) < MaxNotes
    /\ notes' = Append(notes, [user |-> u, old |-> FALSE, pushed |-> FALSE])
    /\ owed' = [owed EXCEPT ![Len(notes) + 1] = IF u \in optedIn THEN PhonesOf(u) ELSE {}]
    /\ UNCHANGED <<optedIn, registered, runs, received, settings, faults, overlapped>>

\* The phone registers its token when notifications are enabled; nothing ever
\* removes it from the row.
RegisterPushToken(u, p) ==
    /\ u \in optedIn /\ <<u, p>> \notin registered
    /\ registered' = registered \cup {<<u, p>>}
    /\ UNCHANGED <<notes, optedIn, runs, received, settings, faults, owed, overlapped>>

SetNotifications(u, on) ==
    /\ on # (u \in optedIn) /\ settings < MaxSettings
    /\ settings' = settings + 1
    /\ optedIn' = IF on THEN optedIn \cup {u} ELSE optedIn \ {u}
    /\ owed' = [n \in DOMAIN owed |-> IF n \in Rows /\ notes[n].user = u THEN {} ELSE owed[n]]
    /\ UNCHANGED <<notes, registered, runs, received, faults, overlapped>>

\* DEFAULT_HORIZON_HOURS have passed since a row and those before it were created.
Age(n) ==
    /\ n \in Rows /\ ~notes[n].old /\ \A m \in 1..(n - 1) : notes[m].old
    /\ notes' = [notes EXCEPT ![n].old = TRUE]
    /\ UNCHANGED <<optedIn, registered, runs, received, settings, faults, owed, overlapped>>
-----------------------------------------------------------------------------
(* deliver_pending.                                                        *)

\* Mutation: the stamp is not looked at.
PendingAll == {n \in Rows : ~notes[n].old}

Pending == {n \in Rows : ~notes[n].pushed /\ ~notes[n].old}

\* The oldest of them, Limit at most.
Batch == {n \in Pending : Cardinality({m \in Pending : m <= n}) <= Limit}

Select(r) ==
    /\ runs[r] = None /\ Pending # {}
    /\ runs' = [runs EXCEPT ![r] = [step |-> "settings", batch |-> Batch, in |-> {},
                                    unsent |-> {}]]
    /\ overlapped' = (overlapped \/ \E other \in Runs : runs[other] # None)
    /\ UNCHANGED <<notes, optedIn, registered, received, settings, faults, owed>>

RunStep(r, step, fields) ==
    /\ runs[r] # None /\ runs[r].step = step
    /\ runs' = [runs EXCEPT ![r] = fields]
    /\ UNCHANGED <<optedIn, registered, settings, owed, overlapped>>

\* _opted_in_users.
ReadSettings(r) ==
    /\ RunStep(r, "settings", [runs[r] EXCEPT !.step = "tokens", !.in = optedIn])
    /\ UNCHANGED <<notes, received, faults>>

\* A message for every row of the batch and phone of its user, <<row, phone>>.
Messages(r) ==
    {m \in runs[r].batch \X Phones :
        notes[m[1]].user \in runs[r].in /\ m[2] \in PhonesOf(notes[m[1]].user)}

\* _tokens_by_user, and the messages.
ReadTokens(r) ==
    /\ RunStep(r, "tokens", [runs[r] EXCEPT !.step = "send", !.unsent = Messages(r)])
    /\ UNCHANGED <<notes, received, faults>>

\* The next chunk: any order of the tokens, the rows in theirs.
IsNextChunk(r, chunk) ==
    LET unsent == runs[r].unsent
    IN  /\ chunk # {} /\ chunk \subseteq unsent
        /\ Cardinality(chunk) = IF Cardinality(unsent) < Chunk THEN Cardinality(unsent)
                                ELSE Chunk
        /\ \A m \in chunk, o \in unsent \ chunk : m[1] <= o[1]

Deliver(chunk) ==
    received' = [n \in DOMAIN received |-> [p \in Phones |->
                    received[n][p] + IF <<n, p>> \in chunk THEN 1 ELSE 0]]

SendChunk(r, chunk) ==
    /\ RunStep(r, "send", [runs[r] EXCEPT !.unsent = @ \ chunk])
    /\ IsNextChunk(r, chunk) /\ Deliver(chunk)
    /\ UNCHANGED <<notes, faults>>

\* The provider takes the chunk and its answer is lost: the run fails.
LoseAnswer(r, chunk) ==
    /\ RunStep(r, "send", None)
    /\ IsNextChunk(r, chunk) /\ Deliver(chunk)
    /\ faults < MaxFaults /\ faults' = faults + 1
    /\ UNCHANGED notes

\* The provider refuses, the run is cancelled, or the worker or database stops.
Fail(r) ==
    /\ runs[r] # None /\ RunStep(r, runs[r].step, None)
    /\ faults < MaxFaults /\ faults' = faults + 1
    /\ UNCHANGED <<notes, received>>

\* Mutation: only rows of users who want them are stamped.
StampWanted(r) ==
    /\ RunStep(r, "send", None) /\ runs[r].unsent = {}
    /\ notes' = [n \in Rows |->
           IF n \in runs[r].batch /\ notes[n].user \in runs[r].in
           THEN [notes[n] EXCEPT !.pushed = TRUE] ELSE notes[n]]
    /\ UNCHANGED <<received, faults>>

\* Mutation: stamped first, sent afterwards.
StampEarly(r) ==
    /\ RunStep(r, "send", None)
    /\ notes' = [n \in Rows |-> IF n \in runs[r].batch THEN [notes[n] EXCEPT !.pushed = TRUE]
                                ELSE notes[n]]
    /\ UNCHANGED <<received, faults>>

\* Everything that was read is stamped, also what nobody wanted.
Stamp(r) ==
    /\ RunStep(r, "send", None) /\ runs[r].unsent = {}
    /\ notes' = [n \in Rows |-> IF n \in runs[r].batch THEN [notes[n] EXCEPT !.pushed = TRUE]
                                ELSE notes[n]]
    /\ UNCHANGED <<received, faults>>

Proceed(r) ==
    \/ Select(r) \/ ReadSettings(r) \/ ReadTokens(r) \/ Stamp(r)
    \/ \E chunk \in SUBSET ((1..MaxNotes) \X Phones) : SendChunk(r, chunk)

Next ==
    \/ \E u \in Users :
          \/ Create(u)
          \/ \E p \in Phones : RegisterPushToken(u, p)
          \/ \E on \in BOOLEAN : SetNotifications(u, on)
    \/ \E n \in 1..MaxNotes : Age(n)
    \/ \E r \in Runs :
          \/ Proceed(r) \/ Fail(r)
          \/ \E chunk \in SUBSET ((1..MaxNotes) \X Phones) : LoseAnswer(r, chunk)

Spec == Init /\ [][Next]_vars

\* The worker starts a run every two minutes, and a run that is not cancelled
\* goes on.
FairSpec == Spec /\ \A r \in Runs : WF_vars(Proceed(r))
-----------------------------------------------------------------------------
\* The shape of the state.
TypeOK ==
    /\ notes \in Seq(Note) /\ Len(notes) <= MaxNotes
    /\ optedIn \subseteq Users /\ registered \subseteq Users \X Phones
    /\ runs \in [Runs -> Run \cup {None}]
    /\ \A r \in Runs : runs[r] # None => runs[r].batch \subseteq Rows
    /\ received \in [1..MaxNotes -> [Phones -> Nat]]
    /\ settings \in 0..MaxSettings /\ faults \in 0..MaxFaults
    /\ owed \in [1..MaxNotes -> SUBSET Phones] /\ overlapped \in BOOLEAN

(* A stamp is kept until everybody was served: the row has reached every   *)
(* phone it was due to all the time, however runs fail, lose answers and   *)
(* overlap ("only stamp the markers if it succeeded", push.py:91).         *)
StampedWasSent ==
    \A n \in Rows : notes[n].pushed => \A p \in owed[n] : received[n][p] > 0

(* What is left of "never double-sends" (push.py:8): a phone is sent a row *)
(* once, unless a run has failed or two have overlapped.                   *)
CleanRunsSendOnce ==
    (faults = 0 /\ ~overlapped) => \A n \in Rows, p \in Phones : received[n][p] <= 1

(* A row is stamped, or left for good, in the end: no failure, full batch  *)
(* or user who wants nothing keeps it pending while it is fresh.           *)
EventuallyConsidered ==
    \A n \in 1..MaxNotes : (n \in Rows) ~> (n \in Rows /\ (notes[n].pushed \/ notes[n].old))
=============================================================================
