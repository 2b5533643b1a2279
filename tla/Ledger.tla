-------------------------------- MODULE Ledger --------------------------------
(***************************************************************************)
(* What the server promises of recorded study time: whoever records a      *)
(* session first owns it for good; only its owner adds to its record, and  *)
(* nobody changes what is recorded; the server itself only closes what was *)
(* abandoned, with a stop at a time that was recorded before.              *)
(***************************************************************************)
EXTENDS Naturals

CONSTANTS Users, SessionIds, None

VARIABLES
    owner,  \* each session's owner
    log,    \* its numbered events, each with a type and a time
    closed  \* the sessions on record as closed by the server

ledger == <<owner, log, closed>>

Init ==
    /\ owner = [s \in SessionIds |-> None]
    /\ log = [s \in SessionIds |-> <<>>]
    /\ closed = {}

Extends(L, K) == DOMAIN L \subseteq DOMAIN K /\ \A n \in DOMAIN L : K[n] = L[n]

\* K is L and one stop, at the time of an event of L.
Closes(L, K) ==
    /\ Extends(L, K)
    /\ \E n \in DOMAIN K \ DOMAIN L, m \in DOMAIN L :
          DOMAIN K = DOMAIN L \cup {n} /\ K[n] = [type |-> "stop", at |-> L[m].at]

\* One request of u, which may be about several sessions.
Record(u) ==
    /\ \A s \in SessionIds :
          \/ owner'[s] = owner[s] /\ log'[s] = log[s]
          \/ owner[s] \in {u, None} /\ owner'[s] = u /\ Extends(log[s], log'[s])
    /\ UNCHANGED closed

\* One run of the worker.
CloseAbandoned ==
    /\ UNCHANGED owner
    /\ closed \subseteq closed'
    /\ \A s \in SessionIds :
          IF log'[s] = log[s] THEN s \in closed' => s \in closed
          ELSE s \in closed' /\ Closes(log[s], log'[s])

Next == CloseAbandoned \/ \E u \in Users : Record(u)

Spec == Init /\ [][Next]_ledger
=============================================================================
