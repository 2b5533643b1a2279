-------------------------------- MODULE Social --------------------------------
(***************************************************************************)
(* Friend requests, friendships and blocks (domain/social/service.py), and *)
(* the encouragements friends send (domain/realtime/service.py).           *)
(*                                                                         *)
(* rows[u][v] is the friendship row with requester u and addressee v, if   *)
(* any: a pair of users has up to two.  open[t] holds what request t has   *)
(* read: who had blocked whom when it began, and the rows, each by a       *)
(* SELECT of its own that sees what was committed before it (ReadAgain).   *)
(* It then writes in one transaction, and others may commit in between.    *)
(* An update of a row that has vanished fails, a delete of one does        *)
(* nothing, and a second row with the same requester and addressee is      *)
(* refused.                                                                *)
(***************************************************************************)
EXTENDS Naturals

CONSTANTS
    Users,
    Tx,        \* requests that can be open at once
    None,
    MaxCalls   \* bound on the requests

ASSUME SocialAssumption == MaxCalls \in Nat

Status == {"pending", "accepted", "declined", "blocked"}

\* A row's id is the number of requests when it was inserted: the row it
\* replaces was deleted by a request that had read that row.
FriendshipRow == [status : Status, id : 0..MaxCalls]

ASSUME NoneIsNoFriendship == None \notin FriendshipRow

VARIABLES
    rows,
    open, calls,  \* the requests, and how many there have been
    raced,        \* history: two requests have been open at once
    encouraged,   \* who has sent whom an encouragement
    wanted        \* history: who has asked, or said yes to, whom

vars == <<rows, open, calls, raced, encouraged, wanted>>

Init ==
    /\ rows = [u \in Users |-> [v \in Users |-> None]]
    /\ open = [t \in Tx |-> None] /\ calls = 0
    /\ raced = FALSE /\ encouraged = {} /\ wanted = {}
-----------------------------------------------------------------------------
(* Requests.                                                               *)

HasStatus(row, S) == row # None /\ row.status \in S

Blocks(table) == {p \in Users \X Users : HasStatus(table[p[1]][p[2]], {"blocked"})}

Arrive(t) ==
    /\ open[t] = None /\ calls < MaxCalls
    /\ open' = [open EXCEPT ![t] = [rows |-> rows, blocks |-> Blocks(rows)]]
    /\ calls' = calls + 1
    /\ raced' = (raced \/ \E o \in Tx : open[o] # None)
    /\ UNCHANGED <<rows, encouraged, wanted>>

ReadAgain(t, u, v) ==
    /\ open[t] # None
    /\ open' = [open EXCEPT ![t].rows[u][v] = rows[u][v]]
    /\ UNCHANGED <<rows, calls, raced, encouraged, wanted>>

End(t) ==
    /\ open[t] # None
    /\ open' = [open EXCEPT ![t] = None]
    /\ UNCHANGED <<calls, raced>>

\* A request that is refused, fails or only reads.
Fail(t) == End(t) /\ UNCHANGED <<rows, encouraged, wanted>>

\* A request that writes friendship rows.
Commit(t) == End(t) /\ UNCHANGED encouraged

\* _get_exact, on what t has read.
Row(t, u, v) == open[t].rows[u][v]

AreFriends(t, u, v) ==
    HasStatus(Row(t, u, v), {"accepted"}) \/ HasStatus(Row(t, v, u), {"accepted"})

\* The row t has read is still there.
Same(t, u, v) == rows[u][v] # None /\ Row(t, u, v) # None /\ rows[u][v].id = Row(t, u, v).id

NewRow(status) == [status |-> status, id |-> calls]

\* Writes a status on the row t has read, which must still be there.
Update(t, u, v, status) ==
    /\ Same(t, u, v)
    /\ rows' = [rows EXCEPT ![u][v].status = status]

\* Mutation: a row is only marked as removed.
WithoutMarked(t, u, v) ==
    IF Same(t, u, v) THEN [rows EXCEPT ![u][v].status = "removed"] ELSE rows

Without(t, u, v) == IF Same(t, u, v) THEN [rows EXCEPT ![u][v] = None] ELSE rows

Wants(u, v) == wanted' = wanted \cup {<<u, v>>}
-----------------------------------------------------------------------------
(* send_request: u asks v.                                                 *)

\* Someone who blocked u does not exist, as far as u can tell; that is asked
\* first, and their row is read again for what follows.
MayAsk(t, u, v) ==
    /\ u # v
    /\ <<v, u>> \notin open[t].blocks /\ ~HasStatus(Row(t, u, v), {"blocked"})
    /\ ~AreFriends(t, u, v)

\* They already asked: that is a yes.
AcceptTheirs(t, u, v) ==
    /\ Commit(t) /\ MayAsk(t, u, v)
    /\ HasStatus(Row(t, v, u), {"pending"})
    /\ Update(t, v, u, "accepted")
    /\ Wants(u, v)

\* A request that was declined is opened again.
AskAgain(t, u, v) ==
    /\ Commit(t) /\ MayAsk(t, u, v)
    /\ ~HasStatus(Row(t, v, u), {"pending"}) /\ HasStatus(Row(t, u, v), {"declined"})
    /\ Update(t, u, v, "pending")
    /\ Wants(u, v)

\* Mutation: the request they had declined is left beside the new one.
AskKeepingTheirs(t, u, v) ==
    /\ Commit(t) /\ MayAsk(t, u, v)
    /\ ~HasStatus(Row(t, v, u), {"pending"}) /\ Row(t, u, v) = None
    /\ rows[u][v] = None
    /\ rows' = [rows EXCEPT ![u][v] = NewRow("pending")]
    /\ Wants(u, v)

\* A request of theirs that u once declined is cleared away.
Ask(t, u, v) ==
    /\ Commit(t) /\ MayAsk(t, u, v)
    /\ ~HasStatus(Row(t, v, u), {"pending"}) /\ Row(t, u, v) = None
    /\ rows[u][v] = None
    /\ rows' = [(IF HasStatus(Row(t, v, u), {"declined"}) THEN Without(t, v, u) ELSE rows)
                   EXCEPT ![u][v] = NewRow("pending")]
    /\ Wants(u, v)
-----------------------------------------------------------------------------
(* The other operations.                                                   *)

\* _pending_addressed_to: v answers u's request.
Pending(t, u, v) == HasStatus(Row(t, u, v), {"pending"})

\* Mutation: either side of a request can accept it.
AcceptByAnyone(t, u, v) ==
    /\ Commit(t) /\ Pending(t, u, v)
    /\ Update(t, u, v, "accepted")
    /\ Wants(u, v)

Accept(t, u, v) ==
    /\ Commit(t) /\ Pending(t, u, v)
    /\ Update(t, u, v, "accepted")
    /\ Wants(v, u)

Decline(t, u, v) ==
    /\ Commit(t) /\ Pending(t, u, v)
    /\ Update(t, u, v, "declined")
    /\ UNCHANGED wanted

\* Either party takes the row away, unless it is a block.
Remove(t, u, v) ==
    /\ Commit(t) /\ HasStatus(Row(t, u, v), Status \ {"blocked"})
    /\ rows' = Without(t, u, v)
    /\ UNCHANGED wanted

\* u blocks v: their row goes unless it is a block, u's becomes one.
Block(t, u, v) ==
    /\ Commit(t) /\ u # v
    /\ Row(t, u, v) = None => rows[u][v] = None
    /\ Row(t, u, v) # None => Same(t, u, v)
    /\ rows' = [(IF HasStatus(Row(t, v, u), Status \ {"blocked"}) THEN Without(t, v, u)
                 ELSE rows)
                   EXCEPT ![u][v] = IF Row(t, u, v) = None THEN NewRow("blocked")
                                    ELSE IF Row(t, u, v).status = "blocked" THEN @
                                    ELSE [@ EXCEPT !.status = "blocked"]]
    /\ UNCHANGED wanted

Unblock(t, u, v) ==
    /\ Commit(t) /\ HasStatus(Row(t, u, v), {"blocked"})
    /\ rows' = Without(t, u, v)
    /\ UNCHANGED wanted

\* publish_reaction.
Encourage(t, u, v) ==
    /\ End(t) /\ u # v /\ AreFriends(t, u, v)
    /\ encouraged' = encouraged \cup {<<u, v>>}
    /\ UNCHANGED <<rows, wanted>>

Next ==
    \E t \in Tx :
        \/ Arrive(t) \/ Fail(t)
        \/ \E u, v \in Users :
              \/ AcceptTheirs(t, u, v) \/ AskAgain(t, u, v) \/ Ask(t, u, v)
              \/ Accept(t, u, v) \/ Decline(t, u, v) \/ Remove(t, u, v)
              \/ Block(t, u, v) \/ Unblock(t, u, v) \/ Encourage(t, u, v)
              \/ ReadAgain(t, u, v)

Spec == Init /\ [][Next]_vars
-----------------------------------------------------------------------------
(* What the lists show, read after the last commit.                        *)

\* _edges_by_other: the row u sent, and the row v sent.
Forward(u, v, S) == HasStatus(rows[u][v], S)
Reverse(u, v, S) == HasStatus(rows[v][u], S)

ListFriends(u) == {v \in Users : Forward(u, v, {"accepted"}) \/ Reverse(u, v, {"accepted"})}
ListRequests(u) ==
    [incoming |-> {v \in Users : Reverse(u, v, {"pending"})},
     outgoing |-> {v \in Users : Forward(u, v, {"pending"})}]
ListBlocked(u) == {v \in Users : Forward(u, v, {"blocked"})}

\* search: someone who blocked u stays invisible.
Found(u) == {v \in Users \ {u} : ~Reverse(u, v, {"blocked"})}

\* _classify: what u is told of v, the first that applies.
Classify(u, v) ==
    IF v \in ListBlocked(u) THEN "blocked"
    ELSE IF v \in ListFriends(u) THEN "friends"
    ELSE IF v \in ListRequests(u).outgoing THEN "request_sent"
    ELSE IF v \in ListRequests(u).incoming THEN "request_received"
    ELSE "none"
-----------------------------------------------------------------------------
RowTable == [Users -> [Users -> FriendshipRow \cup {None}]]
Reading == [rows : RowTable, blocks : SUBSET (Users \X Users)]

\* The shape of the state.
TypeOK ==
    /\ rows \in RowTable
    /\ open \in [Tx -> Reading \cup {None}] /\ calls \in 0..MaxCalls
    /\ raced \in BOOLEAN /\ encouraged \cup wanted \subseteq Users \X Users

(* Two people are friends, or have encouraged each other, only if each of  *)
(* them asked or agreed, however their requests overlap and whatever rows  *)
(* the pair has had.                                                       *)
FriendsWanted ==
    \A u, v \in Users :
        (v \in ListFriends(u) \/ <<u, v>> \in encouraged)
            => {<<u, v>>, <<v, u>>} \subseteq wanted

(* One request at a time, "the pair is clean" (service.py:232): it has one *)
(* row, or the two blocks of users who blocked each other.  So two people  *)
(* who can find each other are told the same of each other, unless one of  *)
(* them blocked, and whoever blocked somebody is in none of their lists.   *)
(* Requests that overlap break it.                                         *)
PairClean ==
    raced \/ \A u \in Users : \A v \in Users \ {u} :
        /\ (rows[u][v] # None /\ rows[v][u] # None) =>
               {rows[u][v].status, rows[v][u].status} = {"blocked"}
        /\ v \in Found(u) /\ u \in Found(v) =>
               /\ Classify(u, v) = "friends" <=> Classify(v, u) = "friends"
               /\ Classify(u, v) = "request_sent" <=> Classify(v, u) = "request_received"
        /\ v \notin Found(u) =>
               v \notin ListFriends(u) \cup ListRequests(u).incoming
                            \cup ListRequests(u).outgoing
=============================================================================
