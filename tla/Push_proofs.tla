------------------------------ MODULE Push_proofs ------------------------------
(***************************************************************************)
(* Delivery of notifications, for any number of runs of the job at once,   *)
(* any failures, users, phones, limits and chunks.                         *)
(*                                                                         *)
(* A row is stamped after every phone it was due to all the time has been  *)
(* sent it: that survives any overlap, since a run carries along whom it   *)
(* still owes.  And while nothing has failed or overlapped there is one    *)
(* run, which is the only one that knows of a row sent and not stamped.    *)
(***************************************************************************)
EXTENDS Push, SequenceTheorems, TLAPS

\* Whom a row is due to wants notifications and is registered.
OwedOK ==
    \A n \in Rows : owed[n] # {} =>
        notes[n].user \in optedIn /\ owed[n] \subseteq PhonesOf(notes[n].user)

\* What a run has yet to send covers what it owes.
RunOwes(r) ==
    /\ runs[r].unsent \subseteq runs[r].batch \X Phones
    /\ runs[r].step = "tokens" =>
           \A n \in runs[r].batch : owed[n] # {} => notes[n].user \in runs[r].in
    /\ runs[r].step = "send" =>
           \A n \in runs[r].batch : \A p \in owed[n] :
               <<n, p>> \in runs[r].unsent \/ received[n][p] > 0

RunsOwe == \A r \in Runs : runs[r] # None => RunOwes(r)

\* The run that alone is under way.
OneRun == \A r, q \in Runs : runs[r] # None /\ runs[q] # None => r = q

\* It knows of every row that was sent and is not stamped, sends nothing twice,
\* and has stamped nothing yet.
SentByRun ==
    \A n \in 1..MaxNotes, p \in Phones :
        /\ received[n][p] <= 1
        /\ received[n][p] > 0 /\ ~(n \in Rows /\ notes[n].pushed) =>
               \E r \in Runs : runs[r] # None /\ runs[r].step = "send" /\ n \in runs[r].batch

RunClean(r) ==
    /\ \A m \in runs[r].unsent : received[m[1]][m[2]] = 0
    /\ \A n \in runs[r].batch : ~notes[n].pushed

Clean == OneRun /\ SentByRun /\ \A r \in Runs : runs[r] # None => RunClean(r)

IInv == TypeOK /\ OwedOK /\ RunsOwe /\ StampedWasSent /\ (faults = 0 /\ ~overlapped => Clean)
-----------------------------------------------------------------------------
(* Sequences and types.                                                    *)

\* A sequence rewritten row by row keeps its length.
LEMMA Rewritten ==
    ASSUME NEW s \in Seq(Note), NEW f \in [1..Len(s) -> Note]
    PROVE  f \in Seq(Note) /\ Len(f) = Len(s)
<1>1. Len(s) \in Nat
  BY LenProperties
<1> QED BY <1>1

LEMMA RowsAre ==
    ASSUME TypeOK
    PROVE  /\ Len(notes) \in 0..MaxNotes
           /\ Rows \subseteq 1..MaxNotes
           /\ \A n \in Rows : notes[n] \in Note
           /\ MaxNotes \in Nat
<1>1. notes \in Seq(Note) /\ Len(notes) <= MaxNotes /\ MaxNotes \in Nat
  BY PushAssumption DEF TypeOK
<1>2. Len(notes) \in Nat /\ \A n \in 1..Len(notes) : notes[n] \in Note
  BY <1>1, LenProperties, ElementOfSeq
<1> QED BY <1>1, <1>2 DEF Rows
LEMMA RunIs ==
    ASSUME TypeOK, NEW r \in Runs, runs[r] # None
    PROVE  /\ runs[r] \in Run
           /\ runs[r].batch \subseteq Rows /\ runs[r].in \subseteq Users
           /\ runs[r].unsent \subseteq (1..MaxNotes) \X Phones
           /\ runs[r].step \in {"settings", "tokens", "send"}
<1>1. runs[r] \in Run /\ runs[r].batch \subseteq Rows
  BY DEF TypeOK
<1> QED BY <1>1 DEF Run

\* A run's fields after a change of one of them.
LEMMA RunChanged ==
    ASSUME TypeOK, NEW r \in Runs, NEW c \in Run \cup {None}, runs' = [runs EXCEPT ![r] = c],
           c # None => c.batch \subseteq Rows, Rows \subseteq Rows'
    PROVE  /\ runs' \in [Runs -> Run \cup {None}]
           /\ \A q \in Runs : runs'[q] # None => runs'[q].batch \subseteq Rows'
           /\ runs'[r] = c
           /\ \A q \in Runs \ {r} : runs'[q] = runs[q]
BY DEF TypeOK

LEMMA TypesStep ==
    ASSUME TypeOK, [Next]_vars
    PROVE  TypeOK'
<1>0. /\ notes \in Seq(Note) /\ Len(notes) <= MaxNotes /\ Len(notes) \in Nat /\ MaxNotes \in Nat
      /\ notes \in [Rows -> Note]
  <2>1. notes \in Seq(Note) /\ Len(notes) <= MaxNotes
    BY DEF TypeOK
  <2> QED BY <2>1, RowsAre, LenProperties DEF Rows
<1>1. CASE UNCHANGED vars
  BY <1>1 DEF vars, TypeOK, Run, Rows
<1>2. ASSUME NEW u \in Users, Create(u) PROVE TypeOK'
  <2> DEFINE row == [user |-> u, old |-> FALSE, pushed |-> FALSE]
  <2>1. row \in Note /\ notes' = Append(notes, row) /\ Len(notes) < MaxNotes
    BY <1>2 DEF Create, Note
  <2> HIDE DEF row
  <2>2. notes' \in Seq(Note) /\ Len(notes') = Len(notes) + 1
    BY <1>0, <2>1
  <2>3. Rows \subseteq Rows'
    BY <1>0, <2>2 DEF Rows
  <2>4. /\ runs' \in [Runs -> Run \cup {None}]
        /\ \A q \in Runs : runs'[q] # None => runs'[q].batch \subseteq Rows'
    BY <1>2, <2>3 DEF Create, TypeOK
  <2>5. owed' \in [1..MaxNotes -> SUBSET Phones]
    BY <1>2 DEF Create, TypeOK, PhonesOf
  <2> QED BY <1>0, <1>2, <2>1, <2>2, <2>4, <2>5 DEF Create, TypeOK
<1>3. ASSUME NEW u \in Users, NEW p \in Phones, RegisterPushToken(u, p) PROVE TypeOK'
  BY <1>3 DEF RegisterPushToken, TypeOK, Run, Rows
<1>4. ASSUME NEW u \in Users, NEW on \in BOOLEAN, SetNotifications(u, on) PROVE TypeOK'
  <2>1. settings' \in 0..MaxSettings
    BY <1>4, PushAssumption DEF SetNotifications, TypeOK
  <2>2. owed' \in [1..MaxNotes -> SUBSET Phones]
    BY <1>4 DEF SetNotifications, TypeOK
  <2> QED BY <1>4, <2>1, <2>2 DEF SetNotifications, TypeOK, Run, Rows
<1>5. ASSUME NEW n \in 1..MaxNotes, Age(n) PROVE TypeOK'
  <2>1. n \in Rows /\ notes' = [notes EXCEPT ![n].old = TRUE]
    BY <1>5 DEF Age
  <2>2. notes' \in [1..Len(notes) -> Note]
    BY <1>0, <2>1 DEF Rows, Note
  <2>3. notes' \in Seq(Note) /\ Len(notes') = Len(notes)
    BY <1>0, <2>2, Rewritten
  <2> QED BY <1>0, <1>5, <2>3 DEF Age, TypeOK, Run, Rows
<1>6. ASSUME NEW r \in Runs, Select(r) PROVE TypeOK'
  <2> DEFINE c == [step |-> "settings", batch |-> Batch, in |-> {}, unsent |-> {}]
  <2>1. c \in Run /\ c.batch \subseteq Rows /\ runs' = [runs EXCEPT ![r] = c] /\ Rows' = Rows
    BY <1>6, RowsAre DEF Select, Run, Batch, Pending, Rows
  <2> HIDE DEF c
  <2>2. /\ runs' \in [Runs -> Run \cup {None}]
        /\ \A q \in Runs : runs'[q] # None => runs'[q].batch \subseteq Rows'
    BY <2>1, RunChanged
  <2> QED BY <1>6, <2>2 DEF Select, TypeOK, Run, Rows
<1>7. ASSUME NEW r \in Runs, NEW step, NEW c \in Run \cup {None}, RunStep(r, step, c),
             c # None => c.batch \subseteq Rows, notes' \in [1..Len(notes) -> Note], faults' \in 0..MaxFaults,
             received' \in [1..MaxNotes -> [Phones -> Nat]]
      PROVE  TypeOK'
  <2>1. notes' \in Seq(Note) /\ Len(notes') = Len(notes)
    BY <1>0, <1>7, Rewritten
  <2>2. /\ runs' \in [Runs -> Run \cup {None}]
        /\ \A q \in Runs : runs'[q] # None => runs'[q].batch \subseteq Rows'
    BY <1>7, <2>1, RunChanged DEF RunStep, Rows
  <2> QED BY <1>0, <1>7, <2>1, <2>2 DEF RunStep, TypeOK, Run, Rows
<1>8. /\ notes \in [1..Len(notes) -> Note] /\ faults \in 0..MaxFaults
      /\ received \in [1..MaxNotes -> [Phones -> Nat]]
      /\ faults < MaxFaults => faults + 1 \in 0..MaxFaults
  BY <1>0, PushAssumption DEF TypeOK, Rows
<1>9. ASSUME NEW chunk, Deliver(chunk) PROVE received' \in [1..MaxNotes -> [Phones -> Nat]]
  BY <1>8, <1>9 DEF Deliver
<1>10. ASSUME NEW r \in Runs, ReadSettings(r) PROVE TypeOK'
  <2> DEFINE c == [runs[r] EXCEPT !.step = "tokens", !.in = optedIn]
  <2>1. c \in Run /\ c.batch \subseteq Rows
    BY <1>10, RunIs DEF ReadSettings, RunStep, Run, TypeOK
  <2> QED BY <1>7, <1>8, <1>10, <2>1 DEF ReadSettings
<1>11. ASSUME NEW r \in Runs, ReadTokens(r) PROVE TypeOK'
  <2> DEFINE c == [runs[r] EXCEPT !.step = "send", !.unsent = Messages(r)]
  <2>1. /\ runs[r] \in Run /\ runs[r].batch \subseteq Rows
        /\ Messages(r) \subseteq (1..MaxNotes) \X Phones
    BY <1>11, RunIs, RowsAre DEF ReadTokens, RunStep, Messages
  <2>2. c \in Run /\ c.batch \subseteq Rows
    BY <2>1 DEF Run
  <2> QED BY <1>7, <1>8, <1>11, <2>2 DEF ReadTokens
<1>12. ASSUME NEW r \in Runs, NEW chunk, SendChunk(r, chunk) PROVE TypeOK'
  <2> DEFINE c == [runs[r] EXCEPT !.unsent = @ \ chunk]
  <2>1. runs[r] \in Run /\ runs[r].batch \subseteq Rows
    BY <1>12, RunIs DEF SendChunk, RunStep
  <2>2. c \in Run /\ c.batch \subseteq Rows
    BY <2>1 DEF Run
  <2> QED BY <1>7, <1>8, <1>9, <1>12, <2>2 DEF SendChunk
<1>13. ASSUME NEW r \in Runs, NEW chunk, LoseAnswer(r, chunk) PROVE TypeOK'
  BY <1>7, <1>8, <1>9, <1>13 DEF LoseAnswer
<1>14. ASSUME NEW r \in Runs, Fail(r) PROVE TypeOK'
  BY <1>7, <1>8, <1>14 DEF Fail
<1>15. ASSUME NEW r \in Runs, Stamp(r) PROVE TypeOK'
  <2>1. notes' \in [1..Len(notes) -> Note]
    BY <1>8, <1>15 DEF Stamp, Note, Rows
  <2> QED BY <1>7, <1>8, <1>15, <2>1 DEF Stamp
<1> QED BY <1>1, <1>2, <1>3, <1>4, <1>5, <1>6, <1>10, <1>11, <1>12, <1>13, <1>14, <1>15
    DEF Next, Proceed
-----------------------------------------------------------------------------
(* The steps of the API, and those of a run.                               *)

Api ==
    \/ \E u \in Users :
          \/ Create(u)
          \/ \E p \in Phones : RegisterPushToken(u, p)
          \/ \E on \in BOOLEAN : SetNotifications(u, on)
    \/ \E n \in 1..MaxNotes : Age(n)

\* The API adds rows and takes back what is owed.
LEMMA ApiEffects ==
    ASSUME TypeOK, Api
    PROVE  /\ UNCHANGED <<runs, received, faults, overlapped>>
           /\ Rows \subseteq Rows'
           /\ \A n \in Rows : /\ notes'[n].user = notes[n].user
                              /\ notes'[n].pushed = notes[n].pushed
                              /\ owed'[n] \subseteq owed[n]
           /\ \A n \in Rows' \ Rows : ~notes'[n].pushed
<1>0. /\ notes \in Seq(Note) /\ Len(notes) \in 0..MaxNotes /\ MaxNotes \in Nat
      /\ notes \in [Rows -> Note]
      /\ owed \in [1..MaxNotes -> SUBSET Phones]
  <2>1. notes \in Seq(Note)
    BY DEF TypeOK
  <2> QED BY <2>1, RowsAre, LenProperties DEF Rows, TypeOK
<1>1. ASSUME NEW u \in Users, Create(u)
      PROVE  /\ Rows \subseteq Rows'
             /\ \A n \in Rows : notes'[n] = notes[n] /\ owed'[n] = owed[n]
             /\ \A n \in Rows' \ Rows : ~notes'[n].pushed
  <2> DEFINE row == [user |-> u, old |-> FALSE, pushed |-> FALSE]
  <2>1. row \in Note /\ notes' = Append(notes, row) /\ Len(notes) < MaxNotes /\ ~row.pushed
    BY <1>1 DEF Create, Note
  <2> HIDE DEF row
  <2>2. /\ Len(notes') = Len(notes) + 1 /\ notes'[Len(notes) + 1] = row
        /\ \A n \in 1..Len(notes) : notes'[n] = notes[n]
    BY <1>0, <2>1
  <2>3. \A n \in 1..Len(notes) : owed'[n] = owed[n]
    BY <1>0, <1>1 DEF Create
  <2> QED BY <1>0, <2>1, <2>2, <2>3 DEF Rows
<1>2. ASSUME NEW n \in 1..MaxNotes, Age(n)
      PROVE  /\ Rows' = Rows
             /\ \A m \in Rows : /\ notes'[m].user = notes[m].user
                                /\ notes'[m].pushed = notes[m].pushed
                                /\ owed'[m] = owed[m]
  <2>1. n \in Rows /\ notes' = [notes EXCEPT ![n].old = TRUE]
    BY <1>2 DEF Age
  <2>2. notes' \in [1..Len(notes) -> Note]
    BY <1>0, <2>1 DEF Rows, Note
  <2>3. Len(notes') = Len(notes)
    BY <1>0, <2>2, Rewritten
  <2>4. \A m \in Rows : notes'[m].user = notes[m].user /\ notes'[m].pushed = notes[m].pushed
    BY <1>0, <2>1 DEF Note
  <2> QED BY <1>2, <2>3, <2>4 DEF Age, Rows
<1>3. CASE \E u \in Users : Create(u)
  BY <1>1, <1>3 DEF Create
<1>4. CASE \E n \in 1..MaxNotes : Age(n)
  BY <1>2, <1>4 DEF Age
<1>5. CASE \E u \in Users, p \in Phones : RegisterPushToken(u, p)
  BY <1>5 DEF RegisterPushToken, Rows
<1>6. CASE \E u \in Users, on \in BOOLEAN : SetNotifications(u, on)
  BY <1>0, <1>6 DEF SetNotifications, Rows
<1> QED BY <1>3, <1>4, <1>5, <1>6 DEF Api

LEMMA OwedStep ==
    ASSUME TypeOK, OwedOK, Api
    PROVE  OwedOK'
<1>0. /\ Len(notes) \in 0..MaxNotes /\ MaxNotes \in Nat /\ notes \in Seq(Note)
      /\ owed \in [1..MaxNotes -> SUBSET Phones]
  BY RowsAre DEF TypeOK
<1>1. ASSUME NEW u \in Users, Create(u) PROVE OwedOK'
  <2> DEFINE row == [user |-> u, old |-> FALSE, pushed |-> FALSE]
  <2>1. /\ row \in Note /\ notes' = Append(notes, row) /\ Len(notes) < MaxNotes /\ row.user = u
        /\ UNCHANGED <<optedIn, registered>>
        /\ owed' = [owed EXCEPT ![Len(notes) + 1] = IF u \in optedIn THEN PhonesOf(u) ELSE {}]
    BY <1>1 DEF Create, Note
  <2> HIDE DEF row
  <2>2. /\ Len(notes') = Len(notes) + 1 /\ notes'[Len(notes) + 1] = row
        /\ \A n \in 1..Len(notes) : notes'[n] = notes[n] /\ owed'[n] = owed[n]
    BY <1>0, <2>1
  <2>3. owed'[Len(notes) + 1] = IF u \in optedIn THEN PhonesOf(u) ELSE {}
    BY <1>0, <2>1
  <2>4. \A n \in Rows' : PhonesOf(notes[n].user)' = PhonesOf(notes'[n].user)
    BY <2>1 DEF PhonesOf
  <2>5. \A n \in Rows' : n \in Rows \/ n = Len(notes) + 1
    BY <1>0, <2>2 DEF Rows
  <2>6. \A n \in Rows : notes[n].user \in Users
    BY RowsAre DEF Note
  <2> SUFFICES ASSUME NEW n \in Rows', owed'[n] # {}
               PROVE  notes'[n].user \in optedIn' /\ owed'[n] \subseteq PhonesOf(notes[n].user)'
    BY DEF OwedOK
  <2>7. CASE n \in Rows
    <3>1. notes'[n] = notes[n] /\ owed'[n] = owed[n]
      BY <2>2, <2>7 DEF Rows
    <3>2. notes[n].user \in optedIn /\ owed[n] \subseteq PhonesOf(notes[n].user)
      BY <2>7, <3>1 DEF OwedOK
    <3> QED BY <2>1, <2>4, <2>6, <2>7, <3>1, <3>2
  <2>8. CASE n = Len(notes) + 1
    BY <2>1, <2>2, <2>3, <2>4, <2>8
  <2> QED BY <2>5, <2>7, <2>8
<1>2. ASSUME NEW u \in Users, NEW p \in Phones, RegisterPushToken(u, p) PROVE OwedOK'
  <2>1. UNCHANGED <<notes, optedIn, owed>> /\ \A v : PhonesOf(v) \subseteq PhonesOf(v)'
    BY <1>2 DEF RegisterPushToken, PhonesOf
  <2> QED BY <2>1 DEF OwedOK, Rows
<1>3. ASSUME NEW u \in Users, NEW on \in BOOLEAN, SetNotifications(u, on) PROVE OwedOK'
  <2>1. /\ UNCHANGED <<notes, registered>>
        /\ \A v \in Users \ {u} : v \in optedIn => v \in optedIn'
        /\ \A n \in Rows : owed'[n] = IF notes[n].user = u THEN {} ELSE owed[n]
    <3>1. \A n \in Rows : n \in DOMAIN owed
      BY <1>0 DEF Rows
    <3> QED BY <1>3, <3>1 DEF SetNotifications
  <2>2. \A n \in Rows : notes[n].user \in Users
    BY RowsAre DEF Note
  <2>3. \A v : PhonesOf(v)' = PhonesOf(v)
    BY <2>1 DEF PhonesOf
  <2> QED BY <2>1, <2>2, <2>3 DEF OwedOK, Rows
<1>4. ASSUME NEW n \in 1..MaxNotes, Age(n) PROVE OwedOK'
  <2>1. UNCHANGED <<optedIn, registered, owed>> /\ \A v : PhonesOf(v)' = PhonesOf(v)
    BY <1>4 DEF Age, PhonesOf
  <2>2. \A m \in Rows : notes'[m].user = notes[m].user
    BY <1>4, ApiEffects DEF Api
  <2>3. Rows' = Rows
    <3>1. n \in Rows /\ notes' = [notes EXCEPT ![n].old = TRUE]
      BY <1>4 DEF Age
    <3>2. notes \in [Rows -> Note]
      BY <1>0, LenProperties DEF Rows
    <3>3. notes' \in [1..Len(notes) -> Note]
      BY <3>1, <3>2 DEF Rows, Note
    <3> QED BY <1>0, <3>3, Rewritten DEF Rows
  <2> QED BY <2>1, <2>2, <2>3 DEF OwedOK
<1> QED BY <1>1, <1>2, <1>3, <1>4 DEF Api

RunSteps(r) ==
    \/ Proceed(r) \/ Fail(r)
    \/ \E chunk \in SUBSET ((1..MaxNotes) \X Phones) : LoseAnswer(r, chunk)

\* Nothing that was sent is taken back.
LEMMA Sent ==
    ASSUME TypeOK, NEW r \in Runs, RunSteps(r)
    PROVE  \A n \in 1..MaxNotes, p \in Phones :
               received'[n][p] >= received[n][p] /\ (received[n][p] > 0 => received'[n][p] > 0)
<1>0. received \in [1..MaxNotes -> [Phones -> Nat]]
  BY DEF TypeOK
<1>1. received' = received \/ \E chunk : Deliver(chunk)
  BY DEF RunSteps, Proceed, Select, ReadSettings, ReadTokens, SendChunk, Stamp, Fail, LoseAnswer
<1> SUFFICES ASSUME NEW n \in 1..MaxNotes, NEW p \in Phones
             PROVE  received'[n][p] >= received[n][p] /\ (received[n][p] > 0 => received'[n][p] > 0)
  OBVIOUS
<1>2. received[n][p] \in Nat
  BY <1>0
<1>3. received'[n][p] = received[n][p] \/ received'[n][p] = received[n][p] + 1
  <2>1. ASSUME NEW chunk, Deliver(chunk)
        PROVE  received'[n][p] = received[n][p] + IF <<n, p>> \in chunk THEN 1 ELSE 0
    BY <1>0, <2>1 DEF Deliver
  <2> QED BY <1>1, <1>2, <2>1
<1> QED BY <1>2, <1>3

\* A run stamps and sends, and touches no other run.
LEMMA RunEffects ==
    ASSUME TypeOK, NEW r \in Runs, RunSteps(r)
    PROVE  /\ UNCHANGED <<optedIn, registered, owed>>
           /\ Rows' = Rows
           /\ \A n \in Rows : /\ notes'[n].user = notes[n].user
                              /\ notes[n].pushed => notes'[n].pushed
           /\ \A n \in 1..MaxNotes, p \in Phones : received'[n][p] >= received[n][p]
           /\ \A q \in Runs \ {r} : runs'[q] = runs[q]
<1>0. /\ received \in [1..MaxNotes -> [Phones -> Nat]]
      /\ Len(notes) \in Nat /\ \A n \in Rows : notes[n] \in Note
      /\ notes \in Seq(Note)
  BY RowsAre DEF TypeOK
<1>1. /\ UNCHANGED <<optedIn, registered, owed>>
      /\ \A q \in Runs \ {r} : runs'[q] = runs[q]
  BY DEF RunSteps, Proceed, Select, ReadSettings, ReadTokens, SendChunk, Stamp, Fail, LoseAnswer,
         RunStep, TypeOK
<1>2. \A n \in 1..MaxNotes, p \in Phones : received'[n][p] >= received[n][p]
  BY Sent
<1>3. notes' = notes \/ Stamp(r)
  BY DEF RunSteps, Proceed, Select, ReadSettings, ReadTokens, SendChunk, Fail, LoseAnswer
<1>4. CASE notes' = notes
  BY <1>1, <1>2, <1>4 DEF Rows
<1>5. CASE Stamp(r)
  <2>1. /\ notes' \in [1..Len(notes) -> Note]
        /\ \A n \in Rows : notes'[n].user = notes[n].user /\ (notes[n].pushed => notes'[n].pushed)
    BY <1>0, <1>5 DEF Stamp, Note, Rows
  <2>2. Rows' = Rows
    BY <1>0, <2>1, Rewritten DEF Rows
  <2> QED BY <1>1, <1>2, <2>1, <2>2
<1> QED BY <1>3, <1>4, <1>5

LEMMA Kinds ==
    ASSUME [Next]_vars
    PROVE  UNCHANGED vars \/ Api \/ \E r \in Runs : RunSteps(r)
BY DEF Next, Api, RunSteps
-----------------------------------------------------------------------------
(* Stamped was sent.                                                       *)

LEMMA OweStep ==
    ASSUME TypeOK, OwedOK, RunsOwe, NEW r \in Runs, RunSteps(r)
    PROVE  RunsOwe'
<1>0. received \in [1..MaxNotes -> [Phones -> Nat]] /\ owed \in [1..MaxNotes -> SUBSET Phones]
  BY DEF TypeOK
<1>1. /\ UNCHANGED <<optedIn, registered, owed>> /\ Rows' = Rows
      /\ \A n \in Rows : notes'[n].user = notes[n].user
      /\ \A n \in 1..MaxNotes, p \in Phones : received'[n][p] >= received[n][p]
      /\ \A q \in Runs \ {r} : runs'[q] = runs[q]
  BY RunEffects
<1>2. ASSUME NEW q \in Runs \ {r}, runs'[q] # None PROVE RunOwes(q)'
  <2>1. runs'[q] = runs[q] /\ RunOwes(q) /\ runs[q].batch \subseteq Rows
    BY <1>1, <1>2, RunIs DEF RunsOwe
  <2>2. \A n \in runs[q].batch, p \in Phones : received[n][p] > 0 => received'[n][p] > 0
    BY <2>1, Sent, RowsAre
  <2>3. \A n \in runs[q].batch : owed[n] \subseteq Phones
    BY <1>0, <2>1, RowsAre
  <2> QED BY <1>1, <2>1, <2>2, <2>3 DEF RunOwes
<1>3. ASSUME runs'[r] # None PROVE RunOwes(r)'
  <2>0. runs \in [Runs -> Run \cup {None}]
    BY DEF TypeOK
  <2>1. CASE Select(r)
    <3>1. runs'[r] = [step |-> "settings", batch |-> Batch, in |-> {}, unsent |-> {}]
      BY <2>0, <2>1 DEF Select
    <3> QED BY <3>1 DEF RunOwes
  <2>2. CASE ReadSettings(r)
    <3>1. runs[r] # None /\ runs'[r] = [runs[r] EXCEPT !.step = "tokens", !.in = optedIn]
      BY <2>0, <2>2 DEF ReadSettings, RunStep
    <3>2. /\ runs'[r].step = "tokens" /\ runs'[r].in = optedIn
          /\ runs'[r].batch = runs[r].batch /\ runs'[r].unsent = runs[r].unsent
      BY <3>1, RunIs DEF Run
    <3>3. /\ runs[r].unsent \subseteq runs[r].batch \X Phones
          /\ runs[r].batch \subseteq Rows
      BY <3>1, RunIs DEF RunsOwe, RunOwes
    <3> QED BY <1>1, <3>2, <3>3 DEF RunOwes, OwedOK
  <2>3. CASE ReadTokens(r)
    <3>1. /\ runs[r] # None /\ runs[r].step = "tokens"
          /\ runs'[r] = [runs[r] EXCEPT !.step = "send", !.unsent = Messages(r)]
      BY <2>0, <2>3 DEF ReadTokens, RunStep
    <3>2. /\ runs'[r].step = "send" /\ runs'[r].batch = runs[r].batch
          /\ runs'[r].unsent = Messages(r) /\ runs[r].batch \subseteq Rows
      BY <3>1, RunIs DEF Run
    <3>3. \A n \in runs[r].batch : owed[n] # {} => notes[n].user \in runs[r].in
      BY <3>1 DEF RunsOwe, RunOwes
    <3>4. ASSUME NEW n \in runs[r].batch, NEW p \in owed[n] PROVE <<n, p>> \in Messages(r)
      <4>1. p \in PhonesOf(notes[n].user) /\ notes[n].user \in runs[r].in
        BY <3>2, <3>3 DEF OwedOK
      <4> QED BY <4>1 DEF Messages, PhonesOf
    <3>5. Messages(r) \subseteq runs[r].batch \X Phones
      BY DEF Messages
    <3> QED BY <1>1, <3>2, <3>4, <3>5 DEF RunOwes
  <2>4. ASSUME NEW chunk, SendChunk(r, chunk) PROVE RunOwes(r)'
    <3>1. /\ runs[r] # None /\ runs[r].step = "send"
          /\ runs'[r] = [runs[r] EXCEPT !.unsent = @ \ chunk]
      BY <2>0, <2>4 DEF SendChunk, RunStep
    <3>2. /\ runs'[r].step = "send" /\ runs'[r].batch = runs[r].batch
          /\ runs'[r].unsent = runs[r].unsent \ chunk /\ runs[r].batch \subseteq Rows
      BY <3>1, RunIs DEF Run
    <3>3. /\ runs[r].unsent \subseteq runs[r].batch \X Phones
          /\ \A n \in runs[r].batch : \A p \in owed[n] :
                 <<n, p>> \in runs[r].unsent \/ received[n][p] > 0
      BY <3>1 DEF RunsOwe, RunOwes
    <3>4. \A n \in runs[r].batch : \A p \in owed[n] :
              <<n, p>> \in runs'[r].unsent \/ received'[n][p] > 0
      <4> SUFFICES ASSUME NEW n \in runs[r].batch, NEW p \in owed[n],
                          <<n, p>> \notin runs'[r].unsent
                   PROVE  received'[n][p] > 0
        OBVIOUS
      <4>1. n \in 1..MaxNotes /\ p \in Phones /\ received[n][p] \in Nat
        BY <1>0, <3>2, RowsAre
      <4>2. CASE <<n, p>> \in chunk
        <5>1. received'[n][p] = received[n][p] + 1
          BY <1>0, <2>4, <4>1, <4>2 DEF SendChunk, Deliver
        <5> QED BY <4>1, <5>1
      <4>3. CASE <<n, p>> \notin chunk
        <5>1. received[n][p] > 0 /\ received'[n][p] >= received[n][p]
          BY <1>1, <3>2, <3>3, <4>1, <4>3
        <5>2. received'[n][p] \in Nat
          BY <1>0, <2>4, <4>1 DEF SendChunk, Deliver
        <5> QED BY <4>1, <5>1, <5>2
      <4> QED BY <4>2, <4>3
    <3> QED BY <1>1, <3>2, <3>3, <3>4 DEF RunOwes
  <2>5. CASE Fail(r) \/ Stamp(r) \/ \E chunk : LoseAnswer(r, chunk)
    BY <1>3, <2>0, <2>5 DEF Fail, Stamp, LoseAnswer, RunStep
  <2> QED BY <2>1, <2>2, <2>3, <2>4, <2>5 DEF RunSteps, Proceed
<1> QED BY <1>2, <1>3 DEF RunsOwe

LEMMA ApiOwes ==
    ASSUME TypeOK, RunsOwe, StampedWasSent, Api
    PROVE  RunsOwe' /\ StampedWasSent'
<1>1. /\ UNCHANGED <<runs, received>> /\ Rows \subseteq Rows'
      /\ \A n \in Rows : /\ notes'[n].user = notes[n].user
                         /\ notes'[n].pushed = notes[n].pushed
                         /\ owed'[n] \subseteq owed[n]
      /\ \A n \in Rows' \ Rows : ~notes'[n].pushed
  BY ApiEffects
<1>2. StampedWasSent'
  BY <1>1 DEF StampedWasSent
<1>3. ASSUME NEW r \in Runs, runs'[r] # None PROVE RunOwes(r)'
  <2>1. runs'[r] = runs[r] /\ RunOwes(r) /\ runs[r].batch \subseteq Rows
    BY <1>1, <1>3, RunIs DEF RunsOwe
  <2> QED BY <1>1, <2>1 DEF RunOwes
<1> QED BY <1>2, <1>3 DEF RunsOwe

LEMMA RunKeepsOwed ==
    ASSUME TypeOK, OwedOK, NEW r \in Runs, RunSteps(r)
    PROVE  OwedOK'
<1>1. /\ UNCHANGED <<optedIn, registered, owed>> /\ Rows' = Rows
      /\ \A n \in Rows : notes'[n].user = notes[n].user
  BY RunEffects
<1>2. \A n \in Rows : PhonesOf(notes[n].user)' = PhonesOf(notes[n].user)
  BY <1>1 DEF PhonesOf
<1> QED BY <1>1, <1>2 DEF OwedOK

LEMMA StampStep ==
    ASSUME TypeOK, RunsOwe, StampedWasSent, NEW r \in Runs, RunSteps(r)
    PROVE  StampedWasSent'
<1>0. received \in [1..MaxNotes -> [Phones -> Nat]] /\ owed \in [1..MaxNotes -> SUBSET Phones]
  BY DEF TypeOK
<1>1. /\ owed' = owed /\ Rows' = Rows
      /\ \A n \in 1..MaxNotes, p \in Phones : received'[n][p] >= received[n][p]
  BY RunEffects
<1>2. \A n \in 1..MaxNotes, p \in Phones : received[n][p] > 0 => received'[n][p] > 0
  BY Sent
<1>3. \A n \in Rows : \A p \in owed[n] : n \in 1..MaxNotes /\ p \in Phones
  BY <1>0, RowsAre
<1>4. CASE notes' = notes
  BY <1>1, <1>2, <1>3, <1>4 DEF StampedWasSent
<1>5. CASE Stamp(r)
  <2>1. /\ runs[r] # None /\ runs[r].step = "send" /\ runs[r].unsent = {}
        /\ \A n \in Rows \ runs[r].batch : notes'[n] = notes[n]
    BY <1>5 DEF Stamp, RunStep
  <2>2. \A n \in runs[r].batch : \A p \in owed[n] : received[n][p] > 0
    BY <2>1 DEF RunsOwe, RunOwes
  <2> QED BY <1>1, <1>2, <1>3, <2>1, <2>2 DEF StampedWasSent
<1>6. notes' = notes \/ Stamp(r)
  BY DEF RunSteps, Proceed, Select, ReadSettings, ReadTokens, SendChunk, Fail, LoseAnswer
<1> QED BY <1>4, <1>5, <1>6
-----------------------------------------------------------------------------
(* While nothing fails or overlaps.                                        *)

\* Failures and overlaps are remembered.
LEMMA NotYet ==
    ASSUME TypeOK, [Next]_vars, faults' = 0, ~overlapped'
    PROVE  faults = 0 /\ ~overlapped
<1>1. faults \in Nat
  BY PushAssumption DEF TypeOK
<1>2. CASE Api
  BY <1>2, ApiEffects
<1>3. ASSUME NEW r \in Runs, RunSteps(r) PROVE faults = 0 /\ ~overlapped
  <2>1. faults' = faults \/ faults' = faults + 1
    BY <1>3 DEF RunSteps, Proceed, Select, ReadSettings, ReadTokens, SendChunk, Stamp, Fail,
                LoseAnswer
  <2>2. overlapped' = overlapped \/ Select(r)
    BY <1>3 DEF RunSteps, Proceed, ReadSettings, ReadTokens, SendChunk, Stamp, Fail, LoseAnswer,
                RunStep
  <2>3. Select(r) => (overlapped => overlapped')
    BY DEF Select
  <2> QED BY <1>1, <2>1, <2>2, <2>3
<1> QED BY <1>2, <1>3, Kinds DEF vars

LEMMA ApiClean ==
    ASSUME TypeOK, Clean, Api
    PROVE  Clean'
<1>1. /\ UNCHANGED <<runs, received>> /\ Rows \subseteq Rows'
      /\ \A n \in Rows : notes'[n].pushed = notes[n].pushed
      /\ \A n \in Rows' \ Rows : ~notes'[n].pushed
  BY ApiEffects
<1>2. OneRun'
  BY <1>1 DEF Clean, OneRun
<1>3. SentByRun'
  BY <1>1 DEF Clean, SentByRun
<1>4. ASSUME NEW r \in Runs, runs'[r] # None PROVE RunClean(r)'
  <2>1. runs'[r] = runs[r] /\ runs[r].batch \subseteq Rows /\ RunClean(r)
    BY <1>1, <1>4, RunIs DEF Clean
  <2> QED BY <1>1, <2>1 DEF RunClean
<1> QED BY <1>2, <1>3, <1>4 DEF Clean

LEMMA RunsClean ==
    ASSUME TypeOK, RunsOwe, Clean, NEW r \in Runs, RunSteps(r), faults = 0, faults' = 0,
           ~overlapped'
    PROVE  Clean'
<1>0. /\ received \in [1..MaxNotes -> [Phones -> Nat]] /\ runs \in [Runs -> Run \cup {None}]
      /\ OneRun /\ SentByRun
      /\ Rows \subseteq 1..MaxNotes
  BY RowsAre DEF TypeOK, Clean
<1>1. Rows' = Rows /\ \A q \in Runs \ {r} : runs'[q] = runs[q]
  BY RunEffects
<1>2. \A q \in Runs \ {r} : runs[q] = None
  <2>1. CASE Select(r)
    BY <2>1 DEF Select
  <2>2. CASE ~Select(r)
    <3>1. runs[r] # None
      BY <2>2 DEF RunSteps, Proceed, ReadSettings, ReadTokens, SendChunk, Stamp, Fail, LoseAnswer,
                  RunStep
    <3> QED BY <1>0, <3>1 DEF OneRun
  <2> QED BY <2>1, <2>2
<1>3. OneRun'
  BY <1>1, <1>2 DEF OneRun
<1>4. \A n \in 1..MaxNotes, p \in Phones :
          /\ received[n][p] <= 1 /\ received[n][p] \in Nat
          /\ received[n][p] > 0 /\ ~(n \in Rows /\ notes[n].pushed) =>
                 runs[r] # None /\ runs[r].step = "send" /\ n \in runs[r].batch
  BY <1>0, <1>2 DEF SentByRun
<1>5. SUFFICES /\ SentByRun'
               /\ runs'[r] # None => RunClean(r)'
  BY <1>1, <1>2, <1>3 DEF Clean
<1>6. CASE Select(r)
  <2>1. /\ runs[r] = None /\ UNCHANGED <<notes, received>>
        /\ runs'[r] = [step |-> "settings", batch |-> Batch, in |-> {}, unsent |-> {}]
    BY <1>0, <1>6 DEF Select
  <2>2. SentByRun'
    BY <1>1, <1>4, <2>1 DEF SentByRun
  <2>3. \A n \in Batch : ~notes[n].pushed
    BY DEF Batch, Pending
  <2> QED BY <2>1, <2>2, <2>3 DEF RunClean
<1>7. CASE ReadSettings(r)
  <2>1. /\ runs[r] # None /\ runs[r].step = "settings" /\ UNCHANGED <<notes, received>>
        /\ runs'[r] = [runs[r] EXCEPT !.step = "tokens", !.in = optedIn]
    BY <1>0, <1>7 DEF ReadSettings, RunStep
  <2>2. runs'[r].batch = runs[r].batch /\ runs'[r].unsent = runs[r].unsent /\ RunClean(r)
    BY <2>1, RunIs DEF Run, Clean
  <2>3. SentByRun'
    BY <1>1, <1>4, <2>1 DEF SentByRun
  <2> QED BY <2>1, <2>2, <2>3 DEF RunClean
<1>8. CASE ReadTokens(r)
  <2>1. /\ runs[r] # None /\ runs[r].step = "tokens" /\ UNCHANGED <<notes, received>>
        /\ runs'[r] = [runs[r] EXCEPT !.step = "send", !.unsent = Messages(r)]
    BY <1>0, <1>8 DEF ReadTokens, RunStep
  <2>2. /\ runs'[r].batch = runs[r].batch /\ runs'[r].unsent = Messages(r) /\ RunClean(r)
        /\ runs[r].batch \subseteq Rows
    BY <2>1, RunIs DEF Run, Clean
  <2>3. SentByRun'
    BY <1>1, <1>4, <2>1 DEF SentByRun
  <2>4. \A m \in Messages(r) : received[m[1]][m[2]] = 0
    <3> SUFFICES ASSUME NEW n \in runs[r].batch, NEW p \in Phones PROVE received[n][p] = 0
      BY DEF Messages
    <3>1. n \in 1..MaxNotes /\ ~notes[n].pushed
      BY <1>0, <2>2 DEF RunClean
    <3> QED BY <1>4, <2>1, <3>1
  <2> QED BY <2>1, <2>2, <2>3, <2>4 DEF RunClean
<1>9. ASSUME NEW chunk, SendChunk(r, chunk) PROVE SentByRun' /\ RunClean(r)'
  <2>1. /\ runs[r] # None /\ runs[r].step = "send" /\ notes' = notes
        /\ runs'[r] = [runs[r] EXCEPT !.unsent = @ \ chunk]
        /\ chunk \subseteq runs[r].unsent /\ Deliver(chunk)
    BY <1>0, <1>9 DEF SendChunk, RunStep, IsNextChunk
  <2>2. /\ runs'[r].batch = runs[r].batch /\ runs'[r].unsent = runs[r].unsent \ chunk
        /\ runs'[r].step = "send" /\ runs'[r] # None
        /\ RunClean(r) /\ runs[r].batch \subseteq Rows
        /\ runs[r].unsent \subseteq runs[r].batch \X Phones
    <3>1. runs[r] \in Run /\ runs[r].batch \subseteq Rows /\ RunClean(r) /\ RunOwes(r)
      BY <2>1, RunIs DEF Clean, RunsOwe
    <3>2. runs'[r] \in Run
      BY <2>1, <3>1 DEF Run
    <3>3. runs'[r] # None
      BY <3>2, NoneIsNoRun
    <3> QED BY <2>1, <3>1, <3>3 DEF Run, RunOwes
  <2>3. ASSUME NEW n \in 1..MaxNotes, NEW p \in Phones
        PROVE  /\ <<n, p>> \in chunk => /\ received[n][p] = 0 /\ received'[n][p] = 1
                                       /\ n \in runs[r].batch
               /\ <<n, p>> \notin chunk => received'[n][p] = received[n][p]
    <3>1. received'[n][p] = received[n][p] + IF <<n, p>> \in chunk THEN 1 ELSE 0
      BY <1>0, <2>1 DEF Deliver
    <3>2. <<n, p>> \in chunk => <<n, p>> \in runs[r].unsent
      BY <2>1
    <3>3. <<n, p>> \in runs[r].unsent => received[n][p] = 0 /\ n \in runs[r].batch
      BY <2>2 DEF RunClean
    <3>4. received[n][p] \in Nat
      BY <1>4
    <3> QED BY <3>1, <3>2, <3>3, <3>4
  <2>4. SentByRun'
    <3> SUFFICES ASSUME NEW n \in 1..MaxNotes, NEW p \in Phones
                 PROVE  /\ received'[n][p] <= 1
                        /\ received'[n][p] > 0 /\ ~(n \in Rows /\ notes[n].pushed) =>
                               n \in runs[r].batch
      BY <1>1, <2>1, <2>2 DEF SentByRun
    <3>1. received[n][p] <= 1 /\ received[n][p] \in Nat
      BY <1>4
    <3>2. received[n][p] > 0 /\ ~(n \in Rows /\ notes[n].pushed) => n \in runs[r].batch
      BY <1>4
    <3>3. CASE <<n, p>> \in chunk
      BY <2>3, <3>3
    <3>4. CASE <<n, p>> \notin chunk
      BY <2>3, <3>1, <3>2, <3>4
    <3> QED BY <3>3, <3>4
  <2>5. \A m \in runs'[r].unsent : received'[m[1]][m[2]] = 0
    <3> SUFFICES ASSUME NEW n \in runs[r].batch, NEW p \in Phones, <<n, p>> \in runs[r].unsent,
                        <<n, p>> \notin chunk
                 PROVE  received'[n][p] = 0
      BY <2>2
    <3>1. received[n][p] = 0 /\ n \in 1..MaxNotes
      BY <1>0, <2>2 DEF RunClean
    <3> QED BY <2>3, <3>1
  <2> QED BY <2>1, <2>2, <2>4, <2>5 DEF RunClean
<1>10. CASE Stamp(r)
  <2>1. /\ runs[r] # None /\ runs[r].step = "send" /\ received' = received /\ runs'[r] = None
        /\ \A n \in Rows \ runs[r].batch : notes'[n] = notes[n]
        /\ \A n \in Rows \cap runs[r].batch : notes'[n].pushed
    <3>1. \A n \in Rows : notes[n] \in Note
      BY RowsAre
    <3> QED BY <1>0, <1>10, <3>1 DEF Stamp, RunStep, Note
  <2>2. runs[r].batch \subseteq Rows
    BY <2>1, RunIs
  <2>3. SentByRun'
    BY <1>1, <1>4, <2>1, <2>2 DEF SentByRun
  <2> QED BY <2>1, <2>3
<1>11. ~Fail(r) /\ \A chunk : ~LoseAnswer(r, chunk)
  BY DEF Fail, LoseAnswer
<1> QED BY <1>6, <1>7, <1>8, <1>9, <1>10, <1>11 DEF RunSteps, Proceed
-----------------------------------------------------------------------------
(* The theorems.                                                           *)

\* The invariant holds in every state, for any users, phones, runs and bounds.
THEOREM PushInductive == Spec => []IInv
<1>1. Init => IInv
  <2> SUFFICES ASSUME Init PROVE IInv
    OBVIOUS
  <2>1. notes = <<>> /\ Rows = {}
    BY DEF Init, Rows
  <2>2. TypeOK
    <3>1. <<>> \in Seq(Note) /\ Len(notes) = 0
      BY <2>1, EmptySeq
    <3>2. 0 \in 0..MaxSettings /\ 0 \in 0..MaxFaults /\ 0 <= MaxNotes
      BY PushAssumption
    <3>3. /\ received \in [1..MaxNotes -> [Phones -> Nat]]
          /\ owed \in [1..MaxNotes -> SUBSET Phones]
          /\ runs \in [Runs -> Run \cup {None}]
          /\ \A r \in Runs : runs[r] = None
      BY DEF Init
    <3> QED BY <2>1, <3>1, <3>2, <3>3 DEF Init, TypeOK
  <2>3. Clean
    <3>1. \A n \in 1..MaxNotes, p \in Phones : received[n][p] = 0
      BY DEF Init
    <3>2. \A r \in Runs : runs[r] = None
      BY DEF Init
    <3> QED BY <3>1, <3>2 DEF Clean, OneRun, SentByRun
  <2> QED BY <2>1, <2>2, <2>3 DEF Init, IInv, OwedOK, RunsOwe, StampedWasSent
<1>2. IInv /\ [Next]_vars => IInv'
  <2> SUFFICES ASSUME IInv, [Next]_vars PROVE IInv'
    OBVIOUS
  <2>0. /\ TypeOK /\ OwedOK /\ RunsOwe /\ StampedWasSent
        /\ faults = 0 /\ ~overlapped => Clean
    BY DEF IInv
  <2>1. TypeOK'
    BY <2>0, TypesStep
  <2>2. faults' = 0 /\ ~overlapped' => faults = 0 /\ Clean
    BY <2>0, NotYet
  <2>3. CASE UNCHANGED vars
    BY <2>0, <2>1, <2>3 DEF IInv, vars, Rows, OwedOK, RunsOwe, RunOwes, StampedWasSent, Clean,
                            OneRun, SentByRun, RunClean, PhonesOf
  <2>4. CASE Api
    <3>1. OwedOK'
      BY <2>0, <2>4, OwedStep
    <3>2. RunsOwe' /\ StampedWasSent'
      BY <2>0, <2>4, ApiOwes
    <3>3. faults' = 0 /\ ~overlapped' => Clean'
      BY <2>0, <2>2, <2>4, ApiClean
    <3> QED BY <2>1, <3>1, <3>2, <3>3 DEF IInv
  <2>5. ASSUME NEW r \in Runs, RunSteps(r) PROVE IInv'
    <3>1. OwedOK'
      BY <2>0, <2>5, RunKeepsOwed
    <3>2. RunsOwe' /\ StampedWasSent'
      BY <2>0, <2>5, OweStep, StampStep
    <3>3. faults' = 0 /\ ~overlapped' => Clean'
      BY <2>0, <2>2, <2>5, RunsClean
    <3> QED BY <2>1, <3>1, <3>2, <3>3 DEF IInv
  <2> QED BY <2>3, <2>4, <2>5, Kinds
<1> QED BY <1>1, <1>2, PTL DEF Spec

\* Rows, runs and counts keep their types.
THEOREM PushTyped == Spec => []TypeOK
<1>1. IInv => TypeOK
  BY DEF IInv
<1> QED BY <1>1, PushInductive, PTL

\* A row is not stamped before every phone it was due to all the time has been
\* sent it, however runs fail, lose answers and overlap (deliver_pending).
THEOREM StampsAreHonest == Spec => []StampedWasSent
<1>1. IInv => StampedWasSent
  BY DEF IInv
<1> QED BY <1>1, PushInductive, PTL

\* Without failures and overlaps no phone is sent a row twice.
THEOREM SentOnce == Spec => []CleanRunsSendOnce
<1>1. IInv => CleanRunsSendOnce
  <2> SUFFICES ASSUME TypeOK, Clean PROVE \A n \in Rows, p \in Phones : received[n][p] <= 1
    BY DEF IInv, CleanRunsSendOnce
  <2> QED BY RowsAre DEF Clean, SentByRun
<1> QED BY <1>1, PushInductive, PTL
=============================================================================
