-------------------------- MODULE MCStudySessions ---------------------------
(***************************************************************************)
(* Instances of StudySessions for TLC: the uploads of each run.  A log is  *)
(* written as the times of its events; s1 and s2 are the session ids.      *)
(***************************************************************************)
EXTENDS StudySessions

CONSTANTS s1, s2, u1, u2

Ev(type, at) == [type |-> type, at |-> at]
Upload(id, user, events) ==
    [id |-> id, subjectOf |-> user, source |-> "timer", events |-> events]

\* Finished sessions, as a phone's outbox sends them.
Whole1 == Upload(s1, u1, <<Ev("start", 0), Ev("stop", 2)>>)
Whole2 == Upload(s2, u1, <<Ev("start", 1), Ev("stop", 3)>>)

\* The first events of a session, and a different account of them.
Head1 == Upload(s1, u1, <<Ev("start", 0)>>)
Other1 == Upload(s1, u1, <<Ev("start", 1)>>)

\* Manual entries sent by sync; somebody else's subject.
Manual2 == [Upload(s2, u1, <<Ev("start", 0), Ev("stop", 2)>>) EXCEPT !.source = "manual"]
Foreign2 == Upload(s2, None, <<Ev("start", 0), Ev("stop", 1)>>)
\* Another user's upload under the id of the first.
Theirs1 == Upload(s1, u2, <<Ev("start", 0)>>)

MCUploads ==
    {p \in {Whole1, Whole2, Head1, Other1, Manual2, Foreign2, Theirs1} :
        p.id \in SessionIds /\ p.subjectOf \in Users \cup {None}}

MCSerialBatches ==
    {<<Whole1>>, <<Whole1, Whole2>>, <<Head1>>, <<Other1>>, <<Head1, Foreign2>>, <<Manual2>>}
MCRaceBatches == {<<Whole1>>, <<Head1>>, <<Whole2>>, <<Whole1, Foreign2>>}
MCUploadBatches == {<<Whole1>>, <<Whole2>>, <<Whole1, Whole2>>, <<Whole2, Whole1>>, <<Theirs1>>}
MCManualSpans == {<<0, 1>>, <<1, 3>>}
MCNoBatches == {}
NoSpans == {}
=============================================================================
