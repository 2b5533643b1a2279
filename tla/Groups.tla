-------------------------------- MODULE Groups --------------------------------
(***************************************************************************)
(* Study groups, their members and invitations (domain/social/groups.py).  *)
(*                                                                         *)
(* open[t] holds what request t has read: the tables when it arrived, the  *)
(* memberships possibly later (ReadAgain), since its statements see what   *)
(* was committed before each of them.  It then writes in one transaction,  *)
(* the columns it changes only; any number of others may commit before.    *)
(* An update of a row that has vanished fails, a delete of one does        *)
(* nothing.  Names and descriptions are left out; an account disappears in *)
(* one step.                                                               *)
(***************************************************************************)
EXTENDS Naturals, FiniteSets

CONSTANTS
    Users, Groups,  \* ids
    Codes,          \* invite codes
    Limits,         \* values of max_members
    Tx,             \* requests that can be open at once
    None,
    MaxCalls        \* bound on the requests

ASSUME GroupsAssumption ==
    /\ Limits \subseteq 2..500 /\ MaxCalls \in Nat
    /\ IsFiniteSet(Users) /\ IsFiniteSet(Tx)
    /\ None \notin Users

Visibility == {"public", "invite", "private"}
Role == {"owner", "moderator", "member"}
Status == {"pending", "accepted", "declined"}

\* A membership's id is the number of requests when it was inserted: the row it
\* replaces was deleted by a request that had read that row.
GroupRow == [owner : Users, visibility : Visibility, code : Codes, max : Limits,
             deleted : BOOLEAN]
MemberRow == [role : Role, id : Nat]
InviteRow == [inviter : Users, status : Status, current : BOOLEAN]

ASSUME NoneIsNoRow == None \notin GroupRow \cup MemberRow \cup InviteRow

Maybe(S) == S \cup {None}

VARIABLES
    groups, members, invites,  \* the tables
    open, calls,               \* the requests, and how many there have been
    purged,                    \* accounts that are gone
    wasOpen,                   \* history: groups that have not always been private
    invited,                   \* history: who was invited where
    widest                     \* history: a group's largest max_members

db == <<groups, members, invites>>
history == <<wasOpen, invited, widest>>
vars == <<db, open, calls, purged, history>>

Init ==
    /\ groups = [g \in Groups |-> None]
    /\ members = [g \in Groups |-> [u \in Users |-> None]]
    /\ invites = [g \in Groups |-> [u \in Users |-> None]]
    /\ open = [t \in Tx |-> None] /\ calls = 0
    /\ purged = {} /\ wasOpen = {} /\ invited = {}
    /\ widest = [g \in Groups |-> 0]
-----------------------------------------------------------------------------
(* Requests.                                                               *)

Arrive(t) ==
    /\ open[t] = None /\ calls < MaxCalls
    /\ calls' = calls + 1
    /\ open' = [open EXCEPT ![t] =
           [groups |-> groups, members |-> members, invites |-> invites]]
    /\ UNCHANGED <<db, purged, history>>

ReadAgain(t) ==
    /\ open[t] # None
    /\ open' = [open EXCEPT ![t].members = members]
    /\ UNCHANGED <<db, calls, purged, history>>

\* A request that is refused, fails or only reads.
Fail(t) ==
    /\ open[t] # None
    /\ open' = [open EXCEPT ![t] = None]
    /\ UNCHANGED <<db, calls, purged, history>>

Saw(t) == open[t]

Commit(t) ==
    /\ open[t] # None
    /\ open' = [open EXCEPT ![t] = None]
    /\ UNCHANGED <<calls, purged>>

\* _require_group, on what t has read.
Live(t, g) == Saw(t).groups[g] # None /\ ~Saw(t).groups[g].deleted

Membership(t, g, u) == Saw(t).members[g][u]
IsMember(t, g, u) == Membership(t, g, u) # None
HasRole(t, g, u, roles) == IsMember(t, g, u) /\ Membership(t, g, u).role \in roles

\* _require_manager.
IsManager(t, g, u) == HasRole(t, g, u, {"owner", "moderator"})

MemberCount(t, g) == Cardinality({u \in Users : IsMember(t, g, u)})

Rank(role) == CASE role = "owner" -> 2 [] role = "moderator" -> 1 [] role = "member" -> 0
-----------------------------------------------------------------------------
(* Lifecycle.                                                              *)

\* A colliding invite code is drawn again.
FreeCode(c) == ~\E g \in Groups : groups[g] # None /\ groups[g].code = c

Opens(g, v) == wasOpen' = IF v = "private" THEN wasOpen ELSE wasOpen \cup {g}
Widens(g, m) ==
    widest' = [widest EXCEPT ![g] = IF m > widest[g] THEN m ELSE widest[g]]

Create(t, u, g, v, c, m) ==
    /\ Commit(t)
    /\ u \notin purged /\ groups[g] = None /\ FreeCode(c)
    /\ groups' = [groups EXCEPT ![g] =
           [owner |-> u, visibility |-> v, code |-> c, max |-> m, deleted |-> FALSE]]
    /\ members' = [members EXCEPT ![g][u] = [role |-> "owner", id |-> calls]]
    /\ Opens(g, v) /\ Widens(g, m)
    /\ UNCHANGED <<invites, invited>>

\* What update leaves of the row: a column that reads as it should is not written.
Updated(t, g, v, m) ==
    [groups[g] EXCEPT !.visibility = IF v = Saw(t).groups[g].visibility THEN @ ELSE v,
                      !.max = IF m = Saw(t).groups[g].max THEN @ ELSE m]

\* Mutation: the new limit is the number of members.
UpdateFitting(t, u, g, v, m) ==
    /\ Commit(t)
    /\ Live(t, g) /\ IsManager(t, g, u)
    /\ groups' = [groups EXCEPT ![g] =
           [Updated(t, g, v, m) EXCEPT !.max = MemberCount(t, g)]]
    /\ Opens(g, groups'[g].visibility) /\ Widens(g, groups'[g].max)
    /\ UNCHANGED <<members, invites, invited>>

\* A limit that is sent must leave room for the members there are.
Update(t, u, g, v, m) ==
    /\ Commit(t)
    /\ Live(t, g) /\ IsManager(t, g, u)
    /\ m = Saw(t).groups[g].max \/ m >= MemberCount(t, g)
    /\ groups' = [groups EXCEPT ![g] = Updated(t, g, v, m)]
    /\ Opens(g, groups'[g].visibility) /\ Widens(g, groups'[g].max)
    /\ UNCHANGED <<members, invites, invited>>

Delete(t, u, g) ==
    /\ Commit(t)
    /\ Live(t, g) /\ HasRole(t, g, u, {"owner"})
    /\ groups' = [groups EXCEPT ![g].deleted = TRUE]
    /\ UNCHANGED <<members, invites, history>>

RegenerateInviteCode(t, u, g, c) ==
    /\ Commit(t)
    /\ Live(t, g) /\ IsManager(t, g, u) /\ FreeCode(c)
    /\ groups' = [groups EXCEPT ![g].code = c]
    /\ UNCHANGED <<members, invites, history>>
-----------------------------------------------------------------------------
(* Membership.                                                             *)

\* Mutation: one member too many.
AddMemberLate(t, g, u) ==
    /\ ~IsMember(t, g, u) /\ MemberCount(t, g) <= Saw(t).groups[g].max
    /\ members[g][u] = None /\ u \notin purged
    /\ members' = [members EXCEPT ![g][u] = [role |-> "member", id |-> calls]]

\* Two inserts of one pair: the unique constraint refuses the second.
AddMember(t, g, u) ==
    /\ ~IsMember(t, g, u) /\ MemberCount(t, g) < Saw(t).groups[g].max
    /\ members[g][u] = None /\ u \notin purged
    /\ members' = [members EXCEPT ![g][u] = [role |-> "member", id |-> calls]]

JoinPublic(t, u, g) ==
    /\ Commit(t)
    /\ Live(t, g) /\ Saw(t).groups[g].visibility = "public"
    /\ AddMember(t, g, u)
    /\ UNCHANGED <<groups, invites, history>>

\* Mutation: a code opens any group.
JoinByAnyCode(t, u, g, c) ==
    /\ Commit(t)
    /\ Live(t, g) /\ Saw(t).groups[g].code = c
    /\ AddMember(t, g, u)
    /\ UNCHANGED <<groups, invites, history>>

JoinByCode(t, u, g, c) ==
    /\ Commit(t)
    /\ Live(t, g) /\ Saw(t).groups[g].code = c /\ Saw(t).groups[g].visibility # "private"
    /\ AddMember(t, g, u)
    /\ UNCHANGED <<groups, invites, history>>

\* Deletes the row t has read; one inserted in its place stays.
DeleteMember(t, g, u) ==
    members' = IF members[g][u] = Membership(t, g, u)
                    \/ (members[g][u] # None /\ members[g][u].id = Membership(t, g, u).id)
               THEN [members EXCEPT ![g][u] = None]
               ELSE members

Leave(t, u, g) ==
    /\ Commit(t)
    /\ Live(t, g) /\ HasRole(t, g, u, {"moderator", "member"})
    /\ DeleteMember(t, g, u)
    /\ UNCHANGED <<groups, invites, history>>

\* The owner leaves last, and the group goes with them.
Retire(t, u, g) ==
    /\ Commit(t)
    /\ Live(t, g) /\ HasRole(t, g, u, {"owner"}) /\ MemberCount(t, g) = 1
    /\ groups' = [groups EXCEPT ![g].deleted = TRUE]
    /\ DeleteMember(t, g, u)
    /\ UNCHANGED <<invites, history>>

RemoveMember(t, actor, g, target) ==
    /\ Commit(t)
    /\ Live(t, g) /\ IsManager(t, g, actor) /\ actor # target /\ IsMember(t, g, target)
    /\ Rank(Membership(t, g, actor).role) > Rank(Membership(t, g, target).role)
    /\ DeleteMember(t, g, target)
    /\ UNCHANGED <<groups, invites, history>>

\* Mutation: the owner can be demoted.
SetAnyRole(t, actor, g, target, role) ==
    /\ Commit(t)
    /\ Live(t, g) /\ HasRole(t, g, actor, {"owner"})
    /\ role \in {"moderator", "member"}
    /\ IsMember(t, g, target) /\ role # Membership(t, g, target).role
    /\ members[g][target] # None
    /\ members[g][target].id = Membership(t, g, target).id
    /\ members' = [members EXCEPT ![g][target].role = role]
    /\ UNCHANGED <<groups, invites, history>>

SetMemberRole(t, actor, g, target, role) ==
    /\ Commit(t)
    /\ Live(t, g) /\ HasRole(t, g, actor, {"owner"})
    /\ role \in {"moderator", "member"}
    /\ HasRole(t, g, target, {"moderator", "member"} \ {role})
    /\ members[g][target] # None
    /\ members[g][target].id = Membership(t, g, target).id
    /\ members' = [members EXCEPT ![g][target].role = role]
    /\ UNCHANGED <<groups, invites, history>>
-----------------------------------------------------------------------------
(* Invitations.                                                            *)

StillPending(row) == row # None /\ row.status = "pending" /\ row.current

Invite(t, actor, g, invitee) ==
    /\ Commit(t)
    /\ Live(t, g) /\ IsManager(t, g, actor)
    /\ actor # invitee /\ {actor, invitee} \cap purged = {} /\ ~IsMember(t, g, invitee)
    /\ Saw(t).invites[g][invitee] = None /\ invites[g][invitee] = None
    /\ invites' = [invites EXCEPT ![g][invitee] =
           [inviter |-> actor, status |-> "pending", current |-> TRUE]]
    /\ invited' = invited \cup {<<g, invitee>>}
    /\ UNCHANGED <<groups, members, wasOpen, widest>>

\* A declined, used or expired invitation is opened again; a status that reads
\* pending is not written.
Reopen(t, actor, g, invitee) ==
    LET existing == Saw(t).invites[g][invitee]
    IN  /\ Commit(t)
        /\ Live(t, g) /\ IsManager(t, g, actor)
        /\ actor # invitee /\ {actor, invitee} \cap purged = {} /\ ~IsMember(t, g, invitee)
        /\ existing # None /\ ~StillPending(existing) /\ invites[g][invitee] # None
        /\ invites' = [invites EXCEPT ![g][invitee] =
               [inviter |-> actor, current |-> TRUE,
                status |-> IF existing.status = "pending" THEN @.status ELSE "pending"]]
        /\ invited' = invited \cup {<<g, invitee>>}
        /\ UNCHANGED <<groups, members, wasOpen, widest>>

Decline(t, u, g) ==
    /\ Commit(t)
    /\ StillPending(Saw(t).invites[g][u]) /\ invites[g][u] # None
    /\ invites' = [invites EXCEPT ![g][u].status = "declined"]
    /\ UNCHANGED <<groups, members, history>>

Accept(t, u, g) ==
    /\ Commit(t)
    /\ StillPending(Saw(t).invites[g][u]) /\ Live(t, g) /\ invites[g][u] # None
    /\ IF IsMember(t, g, u) THEN UNCHANGED members ELSE AddMember(t, g, u)
    /\ invites' = [invites EXCEPT ![g][u].status = "accepted"]
    /\ UNCHANGED <<groups, history>>

\* _INVITE_TTL_DAYS have passed.
Expire(g, u) ==
    /\ invites[g][u] # None /\ invites[g][u].current
    /\ invites' = [invites EXCEPT ![g][u].current = FALSE]
    /\ UNCHANGED <<groups, members, open, calls, purged, history>>

Owns(u) == \E g \in Groups : groups[g] # None /\ groups[g].owner = u

\* The account purger: the foreign keys cascade, but for the owner of a group.
Purge(u) ==
    /\ u \notin purged /\ ~Owns(u)
    /\ purged' = purged \cup {u}
    /\ members' = [g \in Groups |-> [members[g] EXCEPT ![u] = None]]
    /\ invites' = [g \in Groups |-> [v \in Users |->
           IF v = u \/ (invites[g][v] # None /\ invites[g][v].inviter = u) THEN None
           ELSE invites[g][v]]]
    /\ UNCHANGED <<groups, open, calls, history>>

Next ==
    \/ \E u \in Users : Purge(u)
    \/ \E g \in Groups, u \in Users : Expire(g, u)
    \/ \E t \in Tx :
          \/ Arrive(t) \/ ReadAgain(t) \/ Fail(t)
          \/ \E g \in Groups, u \in Users :
                \/ Delete(t, u, g) \/ JoinPublic(t, u, g) \/ Leave(t, u, g) \/ Retire(t, u, g)
                \/ Decline(t, u, g) \/ Accept(t, u, g)
                \/ \E c \in Codes : RegenerateInviteCode(t, u, g, c) \/ JoinByCode(t, u, g, c)
                \/ \E v \in Visibility, m \in Limits :
                      \/ Update(t, u, g, v, m)
                      \/ \E c \in Codes : Create(t, u, g, v, c, m)
                \/ \E w \in Users :
                      \/ RemoveMember(t, u, g, w) \/ Invite(t, u, g, w) \/ Reopen(t, u, g, w)
                      \/ \E role \in Role : SetMemberRole(t, u, g, w, role)

Spec == Init /\ [][Next]_vars
-----------------------------------------------------------------------------
Tables ==
    [groups : [Groups -> Maybe(GroupRow)],
     members : [Groups -> [Users -> Maybe(MemberRow)]],
     invites : [Groups -> [Users -> Maybe(InviteRow)]]]

\* The shape of the state.
TypeOK ==
    /\ groups \in [Groups -> Maybe(GroupRow)]
    /\ members \in [Groups -> [Users -> Maybe(MemberRow)]]
    /\ invites \in [Groups -> [Users -> Maybe(InviteRow)]]
    /\ open \in [Tx -> Maybe(Tables)] /\ calls \in 0..MaxCalls
    /\ purged \subseteq Users /\ wasOpen \subseteq Groups
    /\ invited \subseteq Groups \X Users /\ widest \in [Groups -> Nat]
-----------------------------------------------------------------------------
(* What the reading requests show, read after the last commit.             *)

MembersOf(g) == {u \in Users : members[g][u] # None}

Shown == {g \in Groups : groups[g] # None /\ ~groups[g].deleted}
Discover == {g \in Shown : groups[g].visibility = "public"}
ListMine(u) == {g \in Shown : u \in MembersOf(g)}

\* get_detail: to others a group that is not public does not exist.
GetDetail(u) == Discover \cup ListMine(u)

\* _owner_view, without the member it falls back on.
OwnerView(g) ==
    {u \in MembersOf(g) : members[g][u].role = "owner" /\ u = groups[g].owner}

(* A group that can be seen has one owner, and it is the one its row names:*)
(* whoever leaves, is removed, demoted or purged meanwhile.  _owner_view   *)
(* (groups.py:608, "The owner is always a member") relies on it.           *)
OneOwner ==
    \A g \in Shown :
        /\ OwnerView(g) = {groups[g].owner}
        /\ \A u \in MembersOf(g) \ OwnerView(g) : members[g][u].role # "owner"

(* Nobody is in a group that has always been private, or sees what is in   *)
(* it, without having been invited: not by its code, and not by a request  *)
(* that overlaps others.                                                   *)
InvitedOnly ==
    \A g \in Groups \ wasOpen : \A u \in Users :
        (u \in MembersOf(g) \/ g \in GetDetail(u)) =>
            <<g, u>> \in invited \/ u = groups[g].owner

(* The count is read and the member inserted later, so a group can outgrow *)
(* its limit: by the requests that are in flight at once, and no more.     *)
BoundedOvershoot ==
    \A g \in Groups :
        groups[g] # None => Cardinality(MembersOf(g)) < widest[g] + Cardinality(Tx)
=============================================================================
