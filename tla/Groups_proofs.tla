------------------------------ MODULE Groups_proofs ------------------------------
(***************************************************************************)
(* Groups, for any number of users, groups, requests and limits: the       *)
(* tables keep their types, a group that can be seen has its one owner,    *)
(* and nobody is in a group that was always private uninvited.             *)
(*                                                                         *)
(* What a request has read may be out of date when it writes.  The         *)
(* invariant therefore says of each request's copy what stays true of it:  *)
(* who owns a group never changes, a group never comes back, who was       *)
(* invited stays invited, and whoever is seen with the owner's role is the *)
(* owner.                                                                  *)
(***************************************************************************)
EXTENDS Groups, FiniteSetTheorems, TLAPS

\* A copy of the tables, as a request holds it.
CopyOK(copy) ==
    /\ \A g \in Groups : copy.groups[g] # None =>
           /\ groups[g] # None
           /\ copy.groups[g].owner = groups[g].owner
           /\ copy.groups[g].max <= widest[g]
           /\ copy.groups[g].visibility # "private" => g \in wasOpen
    /\ \A g \in Groups, u \in Users : copy.members[g][u] # None =>
           /\ groups[g] # None
           /\ copy.members[g][u].role = "owner" => u = groups[g].owner
           /\ u = groups[g].owner /\ ~groups[g].deleted => copy.members[g][u].role = "owner"
    /\ \A g \in Groups, u \in Users : copy.invites[g][u] # None => <<g, u>> \in invited

\* What holds of the tables themselves.
RowsOK ==
    \A g \in Groups : groups[g] # None =>
        /\ groups[g].max <= widest[g]
        /\ groups[g].visibility # "private" => g \in wasOpen

MembersOK ==
    \A g \in Groups, u \in Users : members[g][u] # None =>
        /\ groups[g] # None
        /\ members[g][u].role = "owner" => u = groups[g].owner
        /\ u = groups[g].owner /\ ~groups[g].deleted => members[g][u].role = "owner"

InvitesOK ==
    \A g \in Groups, u \in Users : invites[g][u] # None => <<g, u>> \in invited

\* A group that is not deleted has its owner among its members.
OwnerIn ==
    \A g \in Groups : (groups[g] # None /\ ~groups[g].deleted) =>
        members[g][groups[g].owner] # None

\* Members of a group that was always private.
PrivateInvited ==
    \A g \in Groups \ wasOpen : \A u \in Users :
        members[g][u] # None => <<g, u>> \in invited \/ u = groups[g].owner

TablesOK == RowsOK /\ MembersOK /\ InvitesOK /\ OwnerIn /\ PrivateInvited

IInv == TypeOK /\ TablesOK /\ \A t \in Tx : open[t] # None => CopyOK(open[t])
-----------------------------------------------------------------------------
(* What no step takes back.                                                *)

Grows ==
    /\ \A g \in Groups : groups[g] # None =>
           /\ groups'[g] # None /\ groups'[g].owner = groups[g].owner
           /\ groups[g].deleted => groups'[g].deleted
    /\ \A g \in Groups : widest[g] <= widest'[g] /\ widest'[g] \in Nat
    /\ wasOpen \subseteq wasOpen' /\ invited \subseteq invited'

LEMMA CopyKept ==
  ASSUME NEW copy, copy \in Tables, CopyOK(copy), TypeOK, TypeOK', Grows
  PROVE  CopyOK(copy)'
<1>1. ASSUME NEW g \in Groups, copy.groups[g] # None
      PROVE  /\ groups'[g] # None
             /\ copy.groups[g].owner = groups'[g].owner
             /\ copy.groups[g].max <= widest'[g]
             /\ copy.groups[g].visibility # "private" => g \in wasOpen'
  <2>1. copy.groups[g].max \in Nat
    <3>1. copy.groups[g] \in GroupRow
      BY <1>1 DEF Tables, Maybe
    <3>2. \A l \in Limits : l \in Nat
      BY GroupsAssumption
    <3>. QED  BY <3>1, <3>2 DEF GroupRow
  <2>2. widest[g] \in Nat /\ widest'[g] \in Nat
    BY DEF TypeOK
  <2>. QED  BY <1>1, <2>1, <2>2 DEF CopyOK, Grows
<1>2. ASSUME NEW g \in Groups, NEW u \in Users, copy.members[g][u] # None
      PROVE  /\ groups'[g] # None
             /\ copy.members[g][u].role = "owner" => u = groups'[g].owner
             /\ u = groups'[g].owner /\ ~groups'[g].deleted => copy.members[g][u].role = "owner"
  BY <1>2 DEF CopyOK, Grows, TypeOK, Maybe, GroupRow
<1>3. ASSUME NEW g \in Groups, NEW u \in Users, copy.invites[g][u] # None
      PROVE  <<g, u>> \in invited'
  BY <1>3 DEF CopyOK, Grows
<1>. QED  BY <1>1, <1>2, <1>3 DEF CopyOK

(* A request that ends leaves the copies of the others as they are.        *)
LEMMA Ends ==
  ASSUME IInv, TypeOK', Grows, TablesOK',
         \A t \in Tx : open'[t] = None \/ open'[t] = open[t]
  PROVE  IInv'
<1>1. ASSUME NEW t \in Tx, open'[t] # None
      PROVE  CopyOK(open[t])'
  <2>1. PICK copy : copy = open[t]
    OBVIOUS
  <2>2. open[t] # None /\ open'[t] = copy
    BY <1>1, <2>1
  <2>3. copy \in Tables /\ CopyOK(copy)
    BY <2>1, <2>2 DEF IInv, TypeOK, Maybe
  <2>4. CopyOK(copy)'
    BY <2>3, CopyKept DEF IInv
  <2>. QED  BY <2>2, <2>4
<1>. QED  BY <1>1 DEF IInv

LEMMA Saw_ ==
  ASSUME IInv, NEW t \in Tx, open[t] # None
  PROVE  open[t] \in Tables /\ CopyOK(open[t])
BY DEF IInv, TypeOK, Maybe

LEMMA LimitsNat ==
  \A l \in Limits : l \in Nat
BY GroupsAssumption

\* What a request that looks at a live group knows of it.
LEMMA LiveSeen ==
  ASSUME IInv, NEW t \in Tx, open[t] # None, NEW g \in Groups, Live(t, g)
  PROVE  /\ groups[g] # None /\ groups[g] \in GroupRow
         /\ Saw(t).groups[g] \in GroupRow
         /\ Saw(t).groups[g].owner = groups[g].owner
BY Saw_ DEF IInv, TypeOK, CopyOK, Live, Saw, Maybe, Tables
-----------------------------------------------------------------------------
(* Steps that write the row of one group and nothing else.                 *)

LEMMA RowWritten ==
  ASSUME IInv, NEW g \in Groups, groups[g] # None, NEW row \in GroupRow,
         groups' = [groups EXCEPT ![g] = row], row.owner = groups[g].owner,
         groups[g].deleted => row.deleted,
         members' = members, invites' = invites, invited' = invited, TypeOK',
         \A h \in Groups : widest[h] <= widest'[h],
         row.max <= widest'[g], wasOpen \subseteq wasOpen',
         row.visibility # "private" => g \in wasOpen',
         \A t \in Tx : open'[t] = None \/ open'[t] = open[t]
  PROVE  IInv'
<1>1. \A h \in Groups : groups'[h] = IF h = g THEN row ELSE groups[h]
  BY DEF IInv, TypeOK
<1>2. row # None
  BY NoneIsNoRow
<1>3. Grows
  BY <1>1, <1>2 DEF TypeOK, Grows
<1>4. RowsOK'
  <2>1. ASSUME NEW h \in Groups, groups'[h] # None
        PROVE  /\ groups'[h].max <= widest'[h]
               /\ groups'[h].visibility # "private" => h \in wasOpen'
    <3>1. CASE h = g
      BY <1>1, <3>1
    <3>2. CASE h # g
      <4>1. groups[h].max \in Nat /\ widest[h] \in Nat /\ widest'[h] \in Nat
        BY <1>1, <2>1, <3>2, LimitsNat DEF IInv, TypeOK, Maybe, GroupRow
      <4>. QED  BY <1>1, <2>1, <3>2, <4>1 DEF IInv, TablesOK, RowsOK
    <3>. QED  BY <3>1, <3>2
  <2>. QED  BY <2>1 DEF RowsOK
<1>5. MembersOK' /\ InvitesOK'
  BY <1>1, <1>2 DEF IInv, TablesOK, MembersOK, InvitesOK
<1>6. OwnerIn' /\ PrivateInvited'
  BY <1>1 DEF IInv, TablesOK, OwnerIn, PrivateInvited
<1>. QED  BY <1>3, <1>4, <1>5, <1>6, Ends DEF TablesOK

LEMMA UpdateKeeps ==
  ASSUME IInv, NEW t \in Tx, NEW u \in Users, NEW g \in Groups, NEW v \in Visibility,
         NEW m \in Limits, Update(t, u, g, v, m)
  PROVE  IInv'
<1>1. PICK row : row = Updated(t, g, v, m)
  OBVIOUS
<1>2. groups[g] # None /\ groups[g] \in GroupRow
  BY LiveSeen DEF Update, Commit
<1>3. row \in GroupRow /\ row.owner = groups[g].owner /\ row.deleted = groups[g].deleted
  BY <1>1, <1>2 DEF Updated, GroupRow
<1>4. groups' = [groups EXCEPT ![g] = row] /\ groups'[g] = row
  BY <1>1 DEF Update, IInv, TypeOK
<1>5. row.max \in Nat
  BY <1>3, LimitsNat DEF GroupRow
<1>6. TypeOK'
  BY <1>3, <1>4, <1>5 DEF Update, Commit, IInv, TypeOK, Maybe, Opens, Widens
<1>7. /\ \A h \in Groups : widest[h] <= widest'[h]
      /\ row.max <= widest'[g]
  BY <1>4, <1>5 DEF Update, IInv, TypeOK, Widens
<1>8. wasOpen \subseteq wasOpen' /\ (row.visibility # "private" => g \in wasOpen')
  BY <1>4 DEF Update, Opens
<1>9. /\ members' = members /\ invites' = invites /\ invited' = invited
      /\ \A s \in Tx : open'[s] = None \/ open'[s] = open[s]
  BY DEF Update, Commit, IInv, TypeOK
<1>. QED  BY <1>2, <1>3, <1>4, <1>6, <1>7, <1>8, <1>9, RowWritten

\* Writing a column that no limit or visibility depends on.
LEMMA ColumnWritten ==
  ASSUME IInv, NEW t \in Tx, Commit(t), NEW g \in Groups, Live(t, g), NEW row \in GroupRow,
         groups' = [groups EXCEPT ![g] = row], row.owner = groups[g].owner,
         row.max = groups[g].max, row.visibility = groups[g].visibility,
         groups[g].deleted => row.deleted, UNCHANGED <<members, invites, history>>
  PROVE  IInv'
<1>1. groups[g] # None /\ groups[g] \in GroupRow
  BY LiveSeen DEF Commit
<1>2. TypeOK'
  BY DEF Commit, history, IInv, TypeOK, Maybe
<1>3. \A h \in Groups : widest[h] \in Nat /\ widest'[h] = widest[h]
  BY DEF history, IInv, TypeOK
<1>4. row.max <= widest'[g] /\ (row.visibility # "private" => g \in wasOpen')
  BY <1>1 DEF history, IInv, TablesOK, RowsOK
<1>5. /\ members' = members /\ invites' = invites /\ invited' = invited
      /\ wasOpen \subseteq wasOpen' /\ \A h \in Groups : widest[h] <= widest'[h]
      /\ \A s \in Tx : open'[s] = None \/ open'[s] = open[s]
  BY <1>3 DEF Commit, history, IInv, TypeOK
<1>. QED  BY <1>1, <1>2, <1>4, <1>5, RowWritten

LEMMA DeleteKeeps ==
  ASSUME IInv, NEW t \in Tx, NEW u \in Users, NEW g \in Groups, Delete(t, u, g)
  PROVE  IInv'
<1>1. groups[g] \in GroupRow
  BY LiveSeen DEF Delete, Commit
<1>2. PICK row : row = [groups[g] EXCEPT !.deleted = TRUE]
  OBVIOUS
<1>3. row \in GroupRow /\ groups' = [groups EXCEPT ![g] = row]
  BY <1>1, <1>2 DEF Delete, GroupRow
<1>. QED  BY <1>1, <1>2, <1>3, ColumnWritten DEF Delete, GroupRow

LEMMA RegenerateInviteCodeKeeps ==
  ASSUME IInv, NEW t \in Tx, NEW u \in Users, NEW g \in Groups, NEW c \in Codes,
         RegenerateInviteCode(t, u, g, c)
  PROVE  IInv'
<1>1. groups[g] \in GroupRow
  BY LiveSeen DEF RegenerateInviteCode, Commit
<1>2. PICK row : row = [groups[g] EXCEPT !.code = c]
  OBVIOUS
<1>3. row \in GroupRow /\ groups' = [groups EXCEPT ![g] = row]
  BY <1>1, <1>2 DEF RegenerateInviteCode, GroupRow
<1>. QED  BY <1>1, <1>2, <1>3, ColumnWritten DEF RegenerateInviteCode, GroupRow
-----------------------------------------------------------------------------
(* Steps that write one membership.                                        *)

LEMMA MemberWritten ==
  ASSUME IInv, NEW g \in Groups, NEW u \in Users, groups[g] # None,
         NEW row, row \in MemberRow \/ row = None, members' = [members EXCEPT ![g][u] = row],
         groups' = groups, UNCHANGED history, TypeOK', InvitesOK',
         row # None =>
             /\ row.role = "owner" => u = groups[g].owner
             /\ u = groups[g].owner /\ ~groups[g].deleted => row.role = "owner"
             /\ g \in wasOpen \/ <<g, u>> \in invited \/ u = groups[g].owner,
         row = None => u # groups[g].owner \/ groups[g].deleted,
         \A t \in Tx : open'[t] = None \/ open'[t] = open[t]
  PROVE  IInv'
<1>1. /\ members'[g][u] = row
      /\ \A h \in Groups, w \in Users : (h # g \/ w # u) => members'[h][w] = members[h][w]
  BY DEF IInv, TypeOK
<1>2. Grows
  BY DEF history, IInv, TypeOK, Grows
<1>3. RowsOK'
  BY DEF history, IInv, TablesOK, RowsOK
<1>4. MembersOK'
  <2>1. ASSUME NEW h \in Groups, NEW w \in Users, members'[h][w] # None
        PROVE  /\ groups'[h] # None
               /\ members'[h][w].role = "owner" => w = groups'[h].owner
               /\ (w = groups'[h].owner /\ ~groups'[h].deleted) =>
                      members'[h][w].role = "owner"
    <3>1. CASE h = g /\ w = u
      BY <1>1, <2>1, <3>1
    <3>2. CASE h # g \/ w # u
      BY <1>1, <2>1, <3>2 DEF IInv, TablesOK, MembersOK
    <3>. QED  BY <3>1, <3>2
  <2>. QED  BY <2>1 DEF MembersOK
<1>5. OwnerIn'
  <2>1. ASSUME NEW h \in Groups, groups[h] # None, ~groups[h].deleted
        PROVE  members'[h][groups[h].owner] # None
    <3>1. groups[h].owner \in Users
      BY <2>1 DEF IInv, TypeOK, Maybe, GroupRow
    <3>2. members[h][groups[h].owner] # None
      BY <2>1 DEF IInv, TablesOK, OwnerIn
    <3>. QED  BY <1>1, <2>1, <3>1, <3>2
  <2>. QED  BY <2>1 DEF OwnerIn
<1>6. PrivateInvited'
  <2>1. ASSUME NEW h \in Groups \ wasOpen, NEW w \in Users, members'[h][w] # None
        PROVE  <<h, w>> \in invited \/ w = groups[h].owner
    <3>1. CASE h = g /\ w = u
      BY <1>1, <2>1, <3>1
    <3>2. CASE h # g \/ w # u
      BY <1>1, <2>1, <3>2 DEF IInv, TablesOK, PrivateInvited
    <3>. QED  BY <3>1, <3>2
  <2>. QED  BY <2>1 DEF PrivateInvited, history
<1>. QED  BY <1>2, <1>3, <1>4, <1>5, <1>6, Ends DEF TablesOK

LEMMA CommitFacts ==
  ASSUME IInv, NEW t \in Tx, Commit(t)
  PROVE  /\ open[t] # None /\ calls' = calls /\ purged' = purged
         /\ open' \in [Tx -> Maybe(Tables)]
         /\ \A s \in Tx : open'[s] = None \/ open'[s] = open[s]
BY DEF Commit, IInv, TypeOK, Maybe

\* A new member is not the owner of a group that lives.
LEMMA MemberAdded ==
  ASSUME IInv, NEW t \in Tx, Commit(t), NEW g \in Groups, NEW u \in Users, Live(t, g),
         AddMember(t, g, u), groups' = groups, UNCHANGED history,
         invites' \in [Groups -> [Users -> Maybe(InviteRow)]], InvitesOK',
         g \in wasOpen \/ <<g, u>> \in invited
  PROVE  IInv'
<1>1. groups[g] # None /\ groups[g] \in GroupRow
  BY CommitFacts, LiveSeen
<1>2. PICK row : row = [role |-> "member", id |-> calls]
  OBVIOUS
<1>3. row \in MemberRow /\ row.role = "member"
  BY <1>2 DEF IInv, TypeOK, MemberRow, Role
<1>4. members' = [members EXCEPT ![g][u] = row] /\ row # None
  BY <1>2, <1>3, NoneIsNoRow DEF AddMember
<1>5. TypeOK'
  BY <1>3, <1>4, CommitFacts DEF history, IInv, TypeOK, Maybe
<1>6. u # groups[g].owner \/ groups[g].deleted
  BY <1>1 DEF AddMember, IInv, TablesOK, OwnerIn
<1>7. \A s \in Tx : open'[s] = None \/ open'[s] = open[s]
  BY CommitFacts
<1>. QED  BY <1>1, <1>3, <1>4, <1>5, <1>6, <1>7, MemberWritten

LEMMA JoinKeeps ==
  ASSUME IInv, NEW t \in Tx, NEW u \in Users, NEW g \in Groups,
         JoinPublic(t, u, g) \/ \E c \in Codes : JoinByCode(t, u, g, c)
  PROVE  IInv'
<1>1. /\ Commit(t) /\ Live(t, g) /\ AddMember(t, g, u)
      /\ Saw(t).groups[g].visibility # "private"
      /\ groups' = groups /\ invites' = invites /\ UNCHANGED history
  BY DEF JoinPublic, JoinByCode
<1>2. g \in wasOpen
  BY <1>1, CommitFacts, Saw_ DEF CopyOK, Live, Saw
<1>3. InvitesOK' /\ invites' \in [Groups -> [Users -> Maybe(InviteRow)]]
  BY <1>1 DEF history, IInv, TypeOK, TablesOK, InvitesOK
<1>. QED  BY <1>1, <1>2, <1>3, MemberAdded

LEMMA AcceptKeeps ==
  ASSUME IInv, NEW t \in Tx, NEW u \in Users, NEW g \in Groups, Accept(t, u, g)
  PROVE  IInv'
<1>1. Commit(t) /\ Live(t, g) /\ groups' = groups /\ UNCHANGED history
  BY DEF Accept
<1>2. <<g, u>> \in invited
  BY <1>1, CommitFacts, Saw_ DEF Accept, StillPending, Saw, CopyOK
<1>3. invites' \in [Groups -> [Users -> Maybe(InviteRow)]]
  BY DEF Accept, IInv, TypeOK, Maybe, InviteRow, Status
<1>4. InvitesOK'
  BY <1>1, <1>2 DEF Accept, history, IInv, TypeOK, TablesOK, InvitesOK
<1>5. CASE AddMember(t, g, u)
  BY <1>1, <1>2, <1>3, <1>4, <1>5, MemberAdded
<1>6. CASE members' = members
  <2>1. TypeOK'
    BY <1>1, <1>3, <1>6, CommitFacts DEF history, IInv, TypeOK
  <2>2. Grows
    BY <1>1 DEF history, IInv, TypeOK, Grows
  <2>3. TablesOK'
    BY <1>1, <1>4, <1>6
       DEF history, IInv, TablesOK, RowsOK, MembersOK, OwnerIn, PrivateInvited
  <2>. QED  BY <1>1, <2>1, <2>2, <2>3, CommitFacts, Ends
<1>. QED  BY <1>5, <1>6 DEF Accept

\* Whoever is removed is not the owner of a group that lives.
LEMMA MemberDeleted ==
  ASSUME IInv, NEW t \in Tx, Commit(t), NEW g \in Groups, NEW u \in Users, Live(t, g),
         IsMember(t, g, u), Membership(t, g, u).role # "owner", DeleteMember(t, g, u),
         UNCHANGED <<groups, invites, history>>
  PROVE  IInv'
<1>1. groups[g] # None
  BY CommitFacts, LiveSeen
<1>2. u # groups[g].owner \/ groups[g].deleted
  BY CommitFacts, Saw_ DEF IsMember, Membership, Saw, CopyOK
<1>3. InvitesOK'
  BY DEF history, IInv, TablesOK, InvitesOK
<1>4. PICK row : row = members'[g][u]
  OBVIOUS
<1>5. row = None \/ row = members[g][u]
  BY <1>4 DEF DeleteMember, IInv, TypeOK
<1>6. members' = [members EXCEPT ![g][u] = row]
  BY <1>4 DEF DeleteMember, IInv, TypeOK
<1>7. row \in MemberRow \/ row = None
  BY <1>5 DEF IInv, TypeOK, Maybe
<1>8. TypeOK'
  BY <1>6, <1>7, CommitFacts DEF history, IInv, TypeOK, Maybe
<1>9. row # None =>
          /\ row.role = "owner" => u = groups[g].owner
          /\ u = groups[g].owner /\ ~groups[g].deleted => row.role = "owner"
          /\ g \in wasOpen \/ <<g, u>> \in invited \/ u = groups[g].owner
  BY <1>5 DEF IInv, TablesOK, MembersOK, PrivateInvited
<1>10. \A s \in Tx : open'[s] = None \/ open'[s] = open[s]
  BY CommitFacts
<1>. QED  BY <1>1, <1>2, <1>3, <1>6, <1>7, <1>8, <1>9, <1>10, MemberWritten

LEMMA LeaveKeeps ==
  ASSUME IInv, NEW t \in Tx, NEW u \in Users, NEW g \in Groups, Leave(t, u, g)
  PROVE  IInv'
BY MemberDeleted DEF Leave, HasRole

LEMMA RemoveMemberKeeps ==
  ASSUME IInv, NEW t \in Tx, NEW u \in Users, NEW g \in Groups, NEW w \in Users,
         RemoveMember(t, u, g, w)
  PROVE  IInv'
<1>1. IsMember(t, g, u) /\ IsMember(t, g, w)
  BY DEF RemoveMember, IsManager, HasRole
<1>2. Membership(t, g, u).role \in Role /\ Membership(t, g, w).role \in Role
  BY <1>1, Saw_ DEF RemoveMember, Commit, IsMember, Membership, Saw, Tables, Maybe, MemberRow
<1>3. Membership(t, g, w).role # "owner"
  BY <1>2 DEF RemoveMember, Rank, Role
<1>. QED  BY <1>1, <1>3, MemberDeleted DEF RemoveMember

LEMMA SetMemberRoleKeeps ==
  ASSUME IInv, NEW t \in Tx, NEW u \in Users, NEW g \in Groups, NEW w \in Users,
         NEW role \in Role, SetMemberRole(t, u, g, w, role)
  PROVE  IInv'
<1>1. Commit(t) /\ Live(t, g) /\ UNCHANGED <<groups, invites, history>>
  BY DEF SetMemberRole
<1>2. groups[g] # None
  BY <1>1, CommitFacts, LiveSeen
<1>3. w # groups[g].owner \/ groups[g].deleted
  BY <1>1, CommitFacts, Saw_ DEF SetMemberRole, HasRole, IsMember, Membership, Saw, CopyOK
<1>4. PICK row : row = [members[g][w] EXCEPT !.role = role]
  OBVIOUS
<1>5. row \in MemberRow /\ row.role = role /\ role # "owner" /\ members[g][w] # None
  BY <1>4 DEF SetMemberRole, IInv, TypeOK, Maybe, MemberRow
<1>6. members' = [members EXCEPT ![g][w] = row]
  BY <1>4 DEF SetMemberRole, IInv, TypeOK
<1>7. TypeOK'
  BY <1>1, <1>5, <1>6, CommitFacts DEF history, IInv, TypeOK, Maybe
<1>8. g \in wasOpen \/ <<g, w>> \in invited \/ w = groups[g].owner
  BY <1>5 DEF IInv, TablesOK, PrivateInvited
<1>9. InvitesOK'
  BY <1>1 DEF history, IInv, TablesOK, InvitesOK
<1>10. (\A s \in Tx : open'[s] = None \/ open'[s] = open[s]) /\ row # None
  BY <1>1, <1>5, CommitFacts, NoneIsNoRow
<1>. QED  BY <1>1, <1>2, <1>3, <1>5, <1>6, <1>7, <1>8, <1>9, <1>10, MemberWritten
-----------------------------------------------------------------------------
(* Steps that write both, or invitations.                                  *)

LEMMA CreateKeeps ==
  ASSUME IInv, NEW t \in Tx, NEW u \in Users, NEW g \in Groups, NEW v \in Visibility,
         NEW c \in Codes, NEW m \in Limits, Create(t, u, g, v, c, m)
  PROVE  IInv'
<1>1. PICK row : row = [owner |-> u, visibility |-> v, code |-> c, max |-> m, deleted |-> FALSE]
  OBVIOUS
<1>2. row \in GroupRow /\ row # None /\ groups[g] = None
  <2>1. row \in GroupRow
    BY <1>1 DEF GroupRow
  <2>. QED  BY <2>1, NoneIsNoRow DEF Create
<1>3. /\ groups'[g] = row
      /\ \A h \in Groups : h # g => groups'[h] = groups[h]
  BY <1>1 DEF Create, IInv, TypeOK
<1>4. PICK mine : mine = [role |-> "owner", id |-> calls]
  OBVIOUS
<1>5. mine \in MemberRow /\ mine # None /\ mine.role = "owner"
  BY <1>4, NoneIsNoRow DEF IInv, TypeOK, MemberRow, Role
<1>6. /\ members'[g][u] = mine
      /\ \A h \in Groups, w \in Users : (h # g \/ w # u) => members'[h][w] = members[h][w]
  BY <1>4 DEF Create, IInv, TypeOK
<1>7. \A w \in Users : members[g][w] = None
  BY <1>2 DEF IInv, TablesOK, MembersOK
<1>8. m \in Nat
  BY LimitsNat
<1>9. /\ \A h \in Groups : widest[h] \in Nat /\ widest'[h] \in Nat /\ widest[h] <= widest'[h]
      /\ m <= widest'[g] /\ widest' \in [Groups -> Nat]
  BY <1>8 DEF Create, Widens, IInv, TypeOK
<1>10. /\ wasOpen \subseteq wasOpen' /\ wasOpen' \subseteq wasOpen \cup {g}
       /\ v # "private" => g \in wasOpen'
  BY DEF Create, Opens
<1>11. Commit(t) /\ invites' = invites /\ invited' = invited
  BY DEF Create
<1>12. TypeOK'
  <2>1. groups' \in [Groups -> Maybe(GroupRow)]
    BY <1>1, <1>2 DEF Create, IInv, TypeOK, Maybe
  <2>2. members' \in [Groups -> [Users -> Maybe(MemberRow)]]
    BY <1>4, <1>5 DEF Create, IInv, TypeOK, Maybe
  <2>3. wasOpen' \subseteq Groups
    BY <1>10 DEF IInv, TypeOK
  <2>. QED  BY <1>9, <1>11, <2>1, <2>2, <2>3, CommitFacts DEF IInv, TypeOK
<1>13. Grows
  BY <1>2, <1>3, <1>9, <1>10, <1>11 DEF Grows
<1>14. RowsOK'
  <2>1. ASSUME NEW h \in Groups, h # g, groups[h] # None
        PROVE  groups[h].max \in Nat
    BY <2>1, LimitsNat DEF IInv, TypeOK, Maybe, GroupRow
  <2>. QED  BY <1>1, <1>3, <1>9, <1>10, <2>1 DEF IInv, TablesOK, RowsOK
<1>15. MembersOK'
  BY <1>1, <1>2, <1>3, <1>5, <1>6, <1>7 DEF IInv, TablesOK, MembersOK
<1>16. InvitesOK'
  BY <1>11 DEF IInv, TablesOK, InvitesOK
<1>17. OwnerIn'
  <2>1. ASSUME NEW h \in Groups, groups'[h] # None, ~groups'[h].deleted
        PROVE  members'[h][groups'[h].owner] # None
    <3>1. CASE h = g
      BY <1>1, <1>3, <1>5, <1>6, <3>1
    <3>2. CASE h # g
      <4>1. groups[h].owner \in Users
        BY <1>3, <2>1, <3>2 DEF IInv, TypeOK, Maybe, GroupRow
      <4>. QED  BY <1>3, <1>6, <2>1, <3>2, <4>1 DEF IInv, TablesOK, OwnerIn
    <3>. QED  BY <3>1, <3>2
  <2>. QED  BY <2>1 DEF OwnerIn
<1>18. PrivateInvited'
  BY <1>1, <1>3, <1>6, <1>7, <1>10, <1>11 DEF IInv, TablesOK, PrivateInvited
<1>. QED
  BY <1>11, <1>12, <1>13, <1>14, <1>15, <1>16, <1>17, <1>18, CommitFacts, Ends DEF TablesOK

LEMMA RetireKeeps ==
  ASSUME IInv, NEW t \in Tx, NEW u \in Users, NEW g \in Groups, Retire(t, u, g)
  PROVE  IInv'
<1>1. /\ Commit(t) /\ Live(t, g) /\ invites' = invites
      /\ wasOpen' = wasOpen /\ invited' = invited /\ widest' = widest
  BY DEF Retire, history
<1>2. groups[g] # None /\ groups[g] \in GroupRow
  BY <1>1, CommitFacts, LiveSeen
<1>3. PICK row : row = [groups[g] EXCEPT !.deleted = TRUE]
  OBVIOUS
<1>4. /\ row \in GroupRow /\ row # None /\ row.deleted /\ row.owner = groups[g].owner
      /\ row.max = groups[g].max /\ row.visibility = groups[g].visibility
  BY <1>2, <1>3, NoneIsNoRow DEF GroupRow
<1>5. \A h \in Groups : groups'[h] = IF h = g THEN row ELSE groups[h]
  BY <1>3 DEF Retire, IInv, TypeOK
<1>6. \A h \in Groups, w \in Users :
          members'[h][w] = members[h][w] \/ (h = g /\ members'[h][w] = None)
  BY DEF Retire, DeleteMember, IInv, TypeOK
<1>7. TypeOK'
  <2>1. groups' \in [Groups -> Maybe(GroupRow)]
    BY <1>3, <1>4 DEF Retire, IInv, TypeOK, Maybe
  <2>2. members' \in [Groups -> [Users -> Maybe(MemberRow)]]
    BY DEF Retire, DeleteMember, IInv, TypeOK, Maybe
  <2>. QED  BY <1>1, <2>1, <2>2, CommitFacts DEF IInv, TypeOK
<1>8. Grows
  BY <1>1, <1>4, <1>5 DEF IInv, TypeOK, Grows
<1>9. RowsOK'
  BY <1>1, <1>2, <1>4, <1>5 DEF IInv, TablesOK, RowsOK
<1>10. MembersOK'
  BY <1>4, <1>5, <1>6 DEF IInv, TablesOK, MembersOK
<1>11. InvitesOK'
  BY <1>1 DEF IInv, TablesOK, InvitesOK
<1>12. OwnerIn'
  <2>1. ASSUME NEW h \in Groups, groups'[h] # None, ~groups'[h].deleted
        PROVE  members'[h][groups'[h].owner] # None
    <3>1. h # g /\ groups'[h] = groups[h]
      BY <1>4, <1>5, <2>1
    <3>2. groups[h].owner \in Users
      BY <2>1, <3>1 DEF IInv, TypeOK, Maybe, GroupRow
    <3>. QED  BY <1>6, <2>1, <3>1, <3>2 DEF IInv, TablesOK, OwnerIn
  <2>. QED  BY <2>1 DEF OwnerIn
<1>13. PrivateInvited'
  BY <1>1, <1>4, <1>5, <1>6 DEF IInv, TablesOK, PrivateInvited
<1>. QED
  BY <1>1, <1>7, <1>8, <1>9, <1>10, <1>11, <1>12, <1>13, CommitFacts, Ends DEF TablesOK

\* Steps that write invitations only.
LEMMA InvitationWritten ==
  ASSUME IInv, UNCHANGED <<groups, members, wasOpen, widest>>, invited \subseteq invited',
         TypeOK', InvitesOK', \A t \in Tx : open'[t] = None \/ open'[t] = open[t]
  PROVE  IInv'
<1>1. Grows
  BY DEF IInv, TypeOK, Grows
<1>2. RowsOK' /\ MembersOK' /\ OwnerIn'
  BY DEF IInv, TablesOK, RowsOK, MembersOK, OwnerIn
<1>3. PrivateInvited'
  BY DEF IInv, TablesOK, PrivateInvited
<1>. QED  BY <1>1, <1>2, <1>3, Ends DEF TablesOK

LEMMA InviteKeeps ==
  ASSUME IInv, NEW t \in Tx, NEW u \in Users, NEW g \in Groups, NEW w \in Users,
         Invite(t, u, g, w) \/ Reopen(t, u, g, w)
  PROVE  IInv'
<1>1. /\ Commit(t) /\ UNCHANGED <<groups, members, wasOpen, widest>>
      /\ invited' = invited \cup {<<g, w>>}
  BY DEF Invite, Reopen
<1>2. \A h \in Groups, x \in Users : <<h, x>> # <<g, w>> => invites'[h][x] = invites[h][x]
  BY DEF Invite, Reopen, IInv, TypeOK
<1>3. invites' \in [Groups -> [Users -> Maybe(InviteRow)]]
  <2>1. CASE Invite(t, u, g, w)
    BY <2>1 DEF Invite, IInv, TypeOK, Maybe, InviteRow, Status
  <2>2. CASE Reopen(t, u, g, w)
    <3>1. invites[g][w].status \in Status
      BY <2>2 DEF Reopen, IInv, TypeOK, Maybe, InviteRow
    <3>. QED  BY <2>2, <3>1 DEF Reopen, IInv, TypeOK, Maybe, InviteRow, Status
  <2>. QED  BY <2>1, <2>2
<1>4. TypeOK'
  BY <1>1, <1>3, CommitFacts DEF IInv, TypeOK
<1>5. InvitesOK'
  BY <1>1, <1>2 DEF IInv, TablesOK, InvitesOK
<1>. QED  BY <1>1, <1>4, <1>5, CommitFacts, InvitationWritten

LEMMA DeclineKeeps ==
  ASSUME IInv, NEW t \in Tx, NEW u \in Users, NEW g \in Groups, Decline(t, u, g)
  PROVE  IInv'
<1>1. Commit(t) /\ UNCHANGED <<groups, members, wasOpen, widest>> /\ invited' = invited
  BY DEF Decline, history
<1>2. invites' \in [Groups -> [Users -> Maybe(InviteRow)]]
  BY DEF Decline, IInv, TypeOK, Maybe, InviteRow, Status
<1>3. TypeOK'
  BY <1>1, <1>2, CommitFacts DEF IInv, TypeOK
<1>4. InvitesOK'
  BY <1>1 DEF Decline, IInv, TypeOK, TablesOK, InvitesOK
<1>. QED  BY <1>1, <1>3, <1>4, CommitFacts, InvitationWritten

LEMMA ExpireKeeps ==
  ASSUME IInv, NEW u \in Users, NEW g \in Groups, Expire(g, u)
  PROVE  IInv'
<1>1. UNCHANGED <<groups, members, open, wasOpen, widest, invited>>
  BY DEF Expire, history
<1>2. invites' \in [Groups -> [Users -> Maybe(InviteRow)]]
  <2>1. PICK row : row = [invites[g][u] EXCEPT !.current = FALSE]
    OBVIOUS
  <2>2. invites[g][u] \in InviteRow
    BY DEF Expire, IInv, TypeOK, Maybe
  <2>3. row \in InviteRow
    BY <2>1, <2>2 DEF InviteRow
  <2>4. invites' = [invites EXCEPT ![g][u] = row]
    BY <2>1 DEF Expire, IInv, TypeOK
  <2>. QED  BY <2>3, <2>4 DEF IInv, TypeOK, Maybe
<1>3. TypeOK'
  BY <1>1, <1>2 DEF Expire, IInv, TypeOK
<1>4. InvitesOK'
  BY <1>1 DEF Expire, IInv, TypeOK, TablesOK, InvitesOK
<1>. QED  BY <1>1, <1>3, <1>4, InvitationWritten

LEMMA PurgeKeeps ==
  ASSUME IInv, NEW u \in Users, Purge(u)
  PROVE  IInv'
<1>1. UNCHANGED <<groups, open, calls, wasOpen, invited, widest>>
  BY DEF Purge, history
<1>2. \A h \in Groups, w \in Users :
          members'[h][w] = IF w = u THEN None ELSE members[h][w]
  BY DEF Purge, IInv, TypeOK
<1>3. \A h \in Groups, w \in Users : invites'[h][w] = None \/ invites'[h][w] = invites[h][w]
  BY DEF Purge
<1>4. TypeOK'
  BY <1>1 DEF Purge, IInv, TypeOK, Maybe
<1>5. Grows
  BY <1>1 DEF IInv, TypeOK, Grows
<1>6. RowsOK' /\ InvitesOK'
  BY <1>1, <1>3 DEF IInv, TablesOK, RowsOK, InvitesOK
<1>7. MembersOK'
  BY <1>1, <1>2 DEF IInv, TablesOK, MembersOK
<1>8. OwnerIn'
  <2>1. ASSUME NEW h \in Groups, groups[h] # None, ~groups[h].deleted
        PROVE  members'[h][groups[h].owner] # None
    <3>1. groups[h].owner \in Users /\ groups[h].owner # u
      BY <2>1 DEF Purge, Owns, IInv, TypeOK, Maybe, GroupRow
    <3>. QED  BY <1>2, <2>1, <3>1 DEF IInv, TablesOK, OwnerIn
  <2>. QED  BY <1>1, <2>1 DEF OwnerIn
<1>9. PrivateInvited'
  BY <1>1, <1>2 DEF IInv, TablesOK, PrivateInvited
<1>. QED  BY <1>1, <1>4, <1>5, <1>6, <1>7, <1>8, <1>9, Ends DEF TablesOK
-----------------------------------------------------------------------------
(* Steps that only read.                                                   *)

\* A copy of the tables as they are, or with the memberships as they are.
LEMMA CopyNow ==
  ASSUME IInv, NEW copy, copy \in Tables,
         \/ copy.groups = groups /\ copy.invites = invites
         \/ \E t \in Tx : /\ open[t] # None
                        /\ copy.groups = open[t].groups
                        /\ copy.invites = open[t].invites,
         copy.members = members
  PROVE  CopyOK(copy)
BY Saw_ DEF IInv, TablesOK, RowsOK, MembersOK, InvitesOK, CopyOK

LEMMA ReadKeeps ==
  ASSUME IInv, NEW t \in Tx, Arrive(t) \/ ReadAgain(t)
  PROVE  IInv'
<1>1. UNCHANGED <<db, purged, history>> /\ calls' \in 0..MaxCalls
  BY GroupsAssumption DEF Arrive, ReadAgain, IInv, TypeOK
<1>2. PICK copy : copy = open'[t]
  OBVIOUS
<1>3. /\ copy \in Tables /\ copy.members = members
      /\ \/ copy.groups = groups /\ copy.invites = invites
         \/ /\ open[t] # None
            /\ copy.groups = open[t].groups
            /\ copy.invites = open[t].invites
  <2>1. CASE Arrive(t)
    BY <1>2, <2>1 DEF Arrive, IInv, TypeOK, Tables
  <2>2. CASE ReadAgain(t)
    <3>1. open[t] \in Tables /\ copy = [open[t] EXCEPT !.members = members]
      BY <1>2, <2>2, Saw_ DEF ReadAgain, IInv, TypeOK
    <3>. QED  BY <2>2, <3>1 DEF ReadAgain, IInv, TypeOK, Tables
  <2>. QED  BY <2>1, <2>2
<1>4. open' = [open EXCEPT ![t] = copy]
  BY <1>2 DEF Arrive, ReadAgain, IInv, TypeOK
<1>5. CopyOK(copy)
  BY <1>3, CopyNow
<1>6. TypeOK'
  BY <1>1, <1>3, <1>4 DEF db, history, IInv, TypeOK, Maybe
<1>7. TablesOK'
  BY <1>1 DEF db, history, IInv, TablesOK, RowsOK, MembersOK, InvitesOK, OwnerIn, PrivateInvited
<1>8. \A s \in Tx : open'[s] # None => CopyOK(open'[s])
  BY <1>4, <1>5 DEF IInv, TypeOK
<1>9. ASSUME NEW s \in Tx, open'[s] # None PROVE CopyOK(open[s])'
  BY <1>1, <1>8, <1>9 DEF CopyOK, db, history
<1>. QED  BY <1>6, <1>7, <1>9 DEF IInv

LEMMA FailKeeps ==
  ASSUME IInv, NEW t \in Tx, Fail(t)
  PROVE  IInv'
<1>1. UNCHANGED <<db, calls, purged, history>>
  BY DEF Fail
<1>2. /\ open' \in [Tx -> Maybe(Tables)]
      /\ \A s \in Tx : open'[s] = None \/ open'[s] = open[s]
  BY DEF Fail, IInv, TypeOK, Maybe
<1>3. TypeOK'
  BY <1>1, <1>2 DEF db, history, IInv, TypeOK
<1>4. TablesOK'
  BY <1>1 DEF db, history, IInv, TablesOK, RowsOK, MembersOK, InvitesOK, OwnerIn, PrivateInvited
<1>5. Grows
  BY <1>1 DEF db, history, IInv, TypeOK, Grows
<1>. QED  BY <1>2, <1>3, <1>4, <1>5, Ends
-----------------------------------------------------------------------------
LEMMA InitHolds ==
  ASSUME Init
  PROVE  IInv
<1>1. TypeOK
  BY GroupsAssumption DEF Init, TypeOK, Maybe
<1>2. TablesOK
  BY DEF Init, TablesOK, RowsOK, MembersOK, InvitesOK, OwnerIn, PrivateInvited
<1>. QED  BY <1>1, <1>2 DEF Init, IInv

LEMMA StepKeeps ==
  ASSUME IInv, [Next]_vars
  PROVE  IInv'
<1>1. ASSUME NEW u \in Users, Purge(u) PROVE IInv'
  BY <1>1, PurgeKeeps
<1>2. ASSUME NEW g \in Groups, NEW u \in Users, Expire(g, u) PROVE IInv'
  BY <1>2, ExpireKeeps
<1>3. ASSUME NEW t \in Tx, Arrive(t) \/ ReadAgain(t) \/ Fail(t) PROVE IInv'
  BY <1>3, ReadKeeps, FailKeeps
<1>4. ASSUME NEW t \in Tx, NEW g \in Groups, NEW u \in Users,
             \/ Delete(t, u, g) \/ JoinPublic(t, u, g) \/ Leave(t, u, g) \/ Retire(t, u, g)
             \/ Decline(t, u, g) \/ Accept(t, u, g)
             \/ \E c \in Codes : RegenerateInviteCode(t, u, g, c) \/ JoinByCode(t, u, g, c)
      PROVE  IInv'
  BY <1>4, DeleteKeeps, JoinKeeps, LeaveKeeps, RetireKeeps, DeclineKeeps, AcceptKeeps,
     RegenerateInviteCodeKeeps
<1>5. ASSUME NEW t \in Tx, NEW g \in Groups, NEW u \in Users, NEW v \in Visibility,
             NEW m \in Limits,
             Update(t, u, g, v, m) \/ \E c \in Codes : Create(t, u, g, v, c, m)
      PROVE  IInv'
  BY <1>5, UpdateKeeps, CreateKeeps
<1>6. ASSUME NEW t \in Tx, NEW g \in Groups, NEW u \in Users, NEW w \in Users,
             \/ RemoveMember(t, u, g, w) \/ Invite(t, u, g, w) \/ Reopen(t, u, g, w)
             \/ \E role \in Role : SetMemberRole(t, u, g, w, role)
      PROVE  IInv'
  BY <1>6, RemoveMemberKeeps, InviteKeeps, SetMemberRoleKeeps
<1>7. CASE UNCHANGED vars
  <2>1. TypeOK'
    BY <1>7 DEF IInv, TypeOK, vars, db, history
  <2>2. TablesOK' /\ Grows
    BY <1>7 DEF IInv, TypeOK, vars, db, history, TablesOK, RowsOK, MembersOK, InvitesOK,
               OwnerIn, PrivateInvited, Grows
  <2>. QED  BY <1>7, <2>1, <2>2, Ends DEF vars
<1>. QED  BY <1>1, <1>2, <1>3, <1>4, <1>5, <1>6, <1>7 DEF Next

\* The tables keep their types, through every interleaving of the requests.
THEOREM GroupsTyped == Spec => []TypeOK
<1>1. Init => IInv
  BY InitHolds
<1>2. IInv /\ [Next]_vars => IInv'
  BY StepKeeps
<1>3. IInv => TypeOK
  BY DEF IInv
<1>. QED  BY <1>1, <1>2, <1>3, PTL DEF Spec

(* A group that can be seen has exactly the owner its row names, whoever   *)
(* leaves, is removed, demoted or purged while others do the same.         *)
THEOREM SeenGroupsHaveOneOwner == Spec => []OneOwner
<1>1. Init => IInv
  BY InitHolds
<1>2. IInv /\ [Next]_vars => IInv'
  BY StepKeeps
<1>3. IInv => OneOwner
  <2>1. ASSUME IInv, NEW g \in Shown
        PROVE  /\ OwnerView(g) = {groups[g].owner}
               /\ \A u \in MembersOf(g) \ OwnerView(g) : members[g][u].role # "owner"
    <3>1. g \in Groups /\ groups[g] # None /\ ~groups[g].deleted
      BY DEF Shown
    <3>2. groups[g].owner \in Users
      BY <2>1, <3>1 DEF IInv, TypeOK, Maybe, GroupRow
    <3>3. members[g][groups[g].owner] # None
      BY <2>1, <3>1 DEF IInv, TablesOK, OwnerIn
    <3>4. \A u \in Users : members[g][u] # None =>
              (members[g][u].role = "owner" <=> u = groups[g].owner)
      BY <2>1, <3>1 DEF IInv, TablesOK, MembersOK
    <3>. QED  BY <3>2, <3>3, <3>4 DEF OwnerView, MembersOf
  <2>. QED  BY <2>1 DEF OneOwner
<1>. QED  BY <1>1, <1>2, <1>3, PTL DEF Spec

(* Nobody is in a group that was always private, or sees what is in it,    *)
(* without an invitation.                                                  *)
THEOREM PrivateGroupsByInvitation == Spec => []InvitedOnly
<1>1. Init => IInv
  BY InitHolds
<1>2. IInv /\ [Next]_vars => IInv'
  BY StepKeeps
<1>3. IInv => InvitedOnly
  BY DEF IInv, TablesOK, RowsOK, PrivateInvited, InvitedOnly, MembersOf, GetDetail, Discover,
         ListMine, Shown
<1>. QED  BY <1>1, <1>2, <1>3, PTL DEF Spec
-----------------------------------------------------------------------------
(* How far a group outgrows its limit.  A request that saw fewer than k    *)
(* members may still add one.  For every k from the largest limit on, the  *)
(* members and these requests are together fewer than k and all requests:  *)
(* one that reads the group again counts as one of them only while there   *)
(* are fewer than k members, and one that adds a member is one no more.    *)

Few(g, k) == {t \in Tx : open[t] # None /\ MemberCount(t, g) < k}

Room(g) ==
    groups[g] # None => \A k \in Nat : widest[g] <= k =>
        Cardinality(MembersOf(g)) + Cardinality(Few(g, k)) < k + Cardinality(Tx)

LEMMA Finite ==
  ASSUME NEW g, NEW k
  PROVE  /\ IsFiniteSet(MembersOf(g)) /\ Cardinality(MembersOf(g)) \in Nat
         /\ IsFiniteSet(Few(g, k)) /\ Cardinality(Few(g, k)) \in Nat
         /\ Cardinality(Few(g, k)) <= Cardinality(Tx) /\ Cardinality(Tx) \in Nat
<1>1. MembersOf(g) \subseteq Users /\ Few(g, k) \subseteq Tx
  BY DEF MembersOf, Few
<1>. QED  BY <1>1, GroupsAssumption, FS_Subset, FS_CardinalityType

LEMMA CountNat ==
  ASSUME NEW t, NEW g
  PROVE  MemberCount(t, g) \in Nat
<1>1. {u \in Users : IsMember(t, g, u)} \subseteq Users
  OBVIOUS
<1>. QED  BY <1>1, GroupsAssumption, FS_Subset, FS_CardinalityType DEF MemberCount

\* Nobody is added, and no request has come to see the group as smaller.
LEMMA RoomLeft ==
  ASSUME NEW g \in Groups, Room(g), groups[g] # None, widest[g] \in Nat, widest[g] <= widest'[g],
         widest'[g] \in Nat, MembersOf(g)' \subseteq MembersOf(g),
         \A k \in Nat : Few(g, k)' \subseteq Few(g, k)
  PROVE  Room(g)'
<1>1. ASSUME NEW k \in Nat, widest'[g] <= k
      PROVE  Cardinality(MembersOf(g))' + Cardinality(Few(g, k))' < k + Cardinality(Tx)
  <2>1. PICK M, N, F, G : /\ M = MembersOf(g) /\ N = MembersOf(g)'
                          /\ F = Few(g, k) /\ G = Few(g, k)'
    OBVIOUS
  <2>2. /\ IsFiniteSet(M) /\ Cardinality(M) \in Nat /\ IsFiniteSet(F) /\ Cardinality(F) \in Nat
        /\ Cardinality(Tx) \in Nat
    BY <2>1, Finite
  <2>3. N \subseteq M /\ G \subseteq F
    BY <2>1
  <2>4. /\ Cardinality(N) \in Nat /\ Cardinality(N) <= Cardinality(M)
        /\ Cardinality(G) \in Nat /\ Cardinality(G) <= Cardinality(F)
    BY <2>2, <2>3, FS_Subset, FS_CardinalityType
  <2>5. Cardinality(M) + Cardinality(F) < k + Cardinality(Tx)
    BY <1>1, <2>1 DEF Room
  <2>6. Cardinality(N) + Cardinality(G) < k + Cardinality(Tx)
    BY <2>2, <2>4, <2>5
  <2>. QED  BY <2>1, <2>6
<1>. QED  BY <1>1 DEF Room

\* A request that saw room adds a member, and ends.
LEMMA RoomUsed ==
  ASSUME NEW g \in Groups, Room(g), groups[g] # None, widest[g] \in Nat, widest'[g] = widest[g],
         NEW u, MembersOf(g)' \subseteq MembersOf(g) \cup {u}, NEW t \in Tx,
         \A k \in Nat : widest[g] <= k => t \in Few(g, k),
         \A k \in Nat : Few(g, k)' \subseteq Few(g, k) \ {t}
  PROVE  Room(g)'
<1>1. ASSUME NEW k \in Nat, widest'[g] <= k
      PROVE  Cardinality(MembersOf(g))' + Cardinality(Few(g, k))' < k + Cardinality(Tx)
  <2>1. PICK M, N, F, G : /\ M = MembersOf(g) /\ N = MembersOf(g)'
                          /\ F = Few(g, k) /\ G = Few(g, k)'
    OBVIOUS
  <2>2. /\ IsFiniteSet(M) /\ Cardinality(M) \in Nat /\ IsFiniteSet(F) /\ Cardinality(F) \in Nat
        /\ Cardinality(Tx) \in Nat
    BY <2>1, Finite
  <2>3. N \subseteq M \cup {u} /\ G \subseteq F \ {t} /\ t \in F
    BY <1>1, <2>1
  <2>4. IsFiniteSet(M \cup {u}) /\ Cardinality(M \cup {u}) \in Nat
        /\ Cardinality(M \cup {u}) <= Cardinality(M) + 1
    <3>1. CASE u \in M
      <4>1. M \cup {u} = M
        BY <3>1
      <4>2. Cardinality(M) <= Cardinality(M) + 1
        BY <2>2
      <4>. QED  BY <2>2, <4>1, <4>2, Zenon
    <3>2. CASE u \notin M
      <4>1. IsFiniteSet(M)
        BY <2>2
      <4>2. IsFiniteSet(M \cup {u})
        BY <4>1, FS_AddElement
      <4>3. Cardinality(M \cup {u}) = Cardinality(M) + 1
        BY <3>2, <4>1, FS_AddElement
      <4>. QED  BY <2>2, <4>2, <4>3
    <3>. QED  BY <3>1, <3>2
  <2>5. IsFiniteSet(F \ {t}) /\ Cardinality(F \ {t}) = Cardinality(F) - 1
    BY <2>2, <2>3, FS_RemoveElement
  <2>6. /\ Cardinality(N) \in Nat /\ Cardinality(N) <= Cardinality(M \cup {u})
        /\ Cardinality(G) \in Nat /\ Cardinality(G) <= Cardinality(F \ {t})
    BY <2>3, <2>4, <2>5, FS_Subset, FS_CardinalityType
  <2>7. Cardinality(M) + Cardinality(F) < k + Cardinality(Tx)
    BY <1>1, <2>1 DEF Room
  <2>8. Cardinality(N) + Cardinality(G) < k + Cardinality(Tx)
    BY <2>2, <2>4, <2>5, <2>6, <2>7
  <2>. QED  BY <2>1, <2>8
<1>. QED  BY <1>1 DEF Room

\* A request reads the members as they are.
LEMMA RoomSeen ==
  ASSUME NEW g \in Groups, Room(g), groups[g] # None, widest'[g] = widest[g],
         MembersOf(g)' = MembersOf(g), NEW t \in Tx,
         MemberCount(t, g)' = Cardinality(MembersOf(g)),
         \A k \in Nat : Few(g, k)' \subseteq Few(g, k) \cup {t}
  PROVE  Room(g)'
<1>1. ASSUME NEW k \in Nat, widest'[g] <= k
      PROVE  Cardinality(MembersOf(g))' + Cardinality(Few(g, k))' < k + Cardinality(Tx)
  <2>1. PICK M, F, G : M = MembersOf(g) /\ F = Few(g, k) /\ G = Few(g, k)'
    OBVIOUS
  <2>2. /\ IsFiniteSet(M) /\ Cardinality(M) \in Nat /\ IsFiniteSet(F) /\ Cardinality(F) \in Nat
        /\ Cardinality(Tx) \in Nat
    BY <2>1, Finite
  <2>3. G \subseteq Tx /\ G \subseteq F \cup {t} /\ (t \in G => Cardinality(M) < k)
    BY <2>1 DEF Few
  <2>4. Cardinality(G) \in Nat /\ Cardinality(G) <= Cardinality(Tx)
    BY <2>3, GroupsAssumption, FS_Subset, FS_CardinalityType
  <2>5. CASE Cardinality(M) < k
    <3>1. Cardinality(M) + Cardinality(G) < k + Cardinality(Tx)
      BY <2>2, <2>4, <2>5
    <3>. QED  BY <2>1, <3>1
  <2>6. CASE ~(Cardinality(M) < k)
    <3>1. G \subseteq F
      BY <2>3, <2>6
    <3>2. Cardinality(G) <= Cardinality(F)
      BY <2>2, <3>1, FS_Subset
    <3>3. Cardinality(M) + Cardinality(F) < k + Cardinality(Tx)
      BY <1>1, <2>1 DEF Room
    <3>4. Cardinality(M) + Cardinality(G) < k + Cardinality(Tx)
      BY <2>2, <2>4, <3>2, <3>3
    <3>. QED  BY <2>1, <3>4
  <2>. QED  BY <2>5, <2>6
<1>. QED  BY <1>1 DEF Room
\* What a request that ends leaves of the counts.
LEMMA CommitCounts ==
  ASSUME IInv, NEW t \in Tx, Commit(t) \/ Fail(t)
  PROVE  /\ open[t] # None
         /\ \A g \in Groups, k \in Nat : Few(g, k)' \subseteq Few(g, k) \ {t}
<1>1. /\ open[t] # None /\ open'[t] = None
      /\ \A s \in Tx : s # t => open'[s] = open[s]
  BY DEF Commit, Fail, IInv, TypeOK
<1>. QED  BY <1>1 DEF Few, MemberCount, IsMember, Membership, Saw

LEMMA OthersKeepRoom ==
  ASSUME IInv, \A g \in Groups : Room(g), NEW t \in Tx, Commit(t) \/ Fail(t),
         NEW g \in Groups, groups[g] # None,
         widest'[g] \in Nat, widest[g] <= widest'[g], MembersOf(g)' \subseteq MembersOf(g)
  PROVE  Room(g)'
<1>1. widest[g] \in Nat
  BY DEF IInv, TypeOK
<1>2. \A k \in Nat : Few(g, k)' \subseteq Few(g, k)
  BY CommitCounts
<1>. QED  BY <1>1, <1>2, RoomLeft

LEMMA JoinerKeepsRoom ==
  ASSUME IInv, \A g \in Groups : Room(g), NEW t \in Tx, Commit(t), NEW u \in Users,
         NEW h \in Groups, Live(t, h), AddMember(t, h, u), groups' = groups, widest' = widest
  PROVE  \A g \in Groups : Room(g)'
<1>1. /\ MembersOf(h)' \subseteq MembersOf(h) \cup {u}
      /\ \A g \in Groups : g # h => MembersOf(g)' \subseteq MembersOf(g)
  BY DEF AddMember, MembersOf, IInv, TypeOK
<1>2. \A k \in Nat : widest[h] <= k => t \in Few(h, k)
  <2>1. groups[h] # None /\ Saw(t).groups[h] \in GroupRow
    BY LiveSeen DEF Commit
  <2>2. Saw(t).groups[h].max \in Nat /\ Saw(t).groups[h].max <= widest[h] /\ widest[h] \in Nat
    BY <2>1, CommitFacts, Saw_, NoneIsNoRow, LimitsNat
       DEF CopyOK, Saw, GroupRow, IInv, TypeOK
  <2>3. MemberCount(t, h) < Saw(t).groups[h].max /\ MemberCount(t, h) \in Nat
    BY CountNat DEF AddMember
  <2>4. open[t] # None
    BY CommitFacts
  <2>. QED  BY <2>2, <2>3, <2>4 DEF Few
<1>3. groups[h] # None /\ widest[h] \in Nat
  BY LiveSeen DEF Commit, IInv, TypeOK
<1>4. \A k \in Nat : Few(h, k)' \subseteq Few(h, k) \ {t}
  BY CommitCounts
<1>5. Room(h)'
  BY <1>1, <1>2, <1>3, <1>4, RoomUsed
<1>6. ASSUME NEW g \in Groups, g # h, groups[g] # None PROVE Room(g)'
  <2>1. widest[g] \in Nat /\ widest'[g] = widest[g]
    BY DEF IInv, TypeOK
  <2>. QED  BY <1>1, <1>6, <2>1, OthersKeepRoom
<1>7. ASSUME NEW g \in Groups, groups[g] = None PROVE Room(g)'
  BY <1>7 DEF Room
<1>. QED  BY <1>5, <1>6, <1>7

LEMMA CreatorKeepsRoom ==
  ASSUME IInv, \A g \in Groups : Room(g), NEW t \in Tx, NEW u \in Users, NEW h \in Groups,
         NEW v \in Visibility, NEW c \in Codes, NEW m \in Limits, Create(t, u, h, v, c, m)
  PROVE  \A g \in Groups : Room(g)'
<1>1. /\ \A g \in Groups : g # h => /\ groups'[g] = groups[g] /\ widest'[g] = widest[g]
                                   /\ MembersOf(g)' \subseteq MembersOf(g)
      /\ \A w \in Users \ {u} : members'[h][w] = members[h][w]
  BY DEF Create, Widens, MembersOf, IInv, TypeOK
<1>2. MembersOf(h)' \subseteq {u}
  BY <1>1 DEF Create, MembersOf, IInv, TablesOK, MembersOK
<1>3. m \in Nat /\ 2 <= m /\ widest[h] \in Nat
  BY GroupsAssumption DEF IInv, TypeOK
<1>4. m <= widest'[h] /\ widest'[h] \in Nat
  BY <1>3 DEF Create, Widens, IInv, TypeOK
<1>5. ASSUME NEW k \in Nat, widest'[h] <= k
      PROVE  Cardinality(MembersOf(h))' + Cardinality(Few(h, k))' < k + Cardinality(Tx)
  <2>1. PICK N, G : N = MembersOf(h)' /\ G = Few(h, k)'
    OBVIOUS
  <2>2. Few(h, k)' \subseteq Few(h, k) \ {t}
    BY CommitCounts DEF Create
  <2>3. N \subseteq {u} /\ G \subseteq Tx
    BY <1>2, <2>1, <2>2 DEF Few
  <2>4. IsFiniteSet({u}) /\ Cardinality({u}) = 1
    BY FS_Singleton
  <2>5. Cardinality(N) \in Nat /\ Cardinality(N) <= 1
    BY <2>3, <2>4, FS_Subset, FS_CardinalityType
  <2>6. Cardinality(G) \in Nat /\ Cardinality(G) <= Cardinality(Tx) /\ Cardinality(Tx) \in Nat
    BY <2>3, GroupsAssumption, FS_Subset, FS_CardinalityType
  <2>7. Cardinality(N) + Cardinality(G) < k + Cardinality(Tx)
    BY <1>3, <1>4, <1>5, <2>5, <2>6
  <2>. QED  BY <2>1, <2>7
<1>6. Room(h)'
  BY <1>5 DEF Room
<1>7. ASSUME NEW g \in Groups, g # h, groups[g] # None PROVE Room(g)'
  <2>1. widest[g] \in Nat /\ widest'[g] = widest[g]
    BY <1>1, <1>7 DEF IInv, TypeOK
  <2>. QED  BY <1>1, <1>7, <2>1, OthersKeepRoom DEF Create
<1>8. ASSUME NEW g \in Groups, g # h, groups[g] = None PROVE Room(g)'
  BY <1>1, <1>8 DEF Room
<1>. QED  BY <1>6, <1>7, <1>8

LEMMA ReaderKeepsRoom ==
  ASSUME IInv, \A g \in Groups : Room(g), NEW t \in Tx, Arrive(t) \/ ReadAgain(t)
  PROVE  \A g \in Groups : Room(g)'
<1>1. /\ groups' = groups /\ members' = members /\ widest' = widest
      /\ \A s \in Tx : s # t => open'[s] = open[s]
  BY DEF Arrive, ReadAgain, db, history, IInv, TypeOK
<1>2. open'[t].members = members
  <2>1. CASE Arrive(t)
    BY <2>1 DEF Arrive, IInv, TypeOK
  <2>2. CASE ReadAgain(t)
    <3>1. open'[t] = [open[t] EXCEPT !.members = members] /\ open[t] \in Tables
      BY <2>2, Saw_ DEF ReadAgain, IInv, TypeOK
    <3>. QED  BY <3>1 DEF Tables
  <2>. QED  BY <2>1, <2>2
<1>3. ASSUME NEW g \in Groups, groups[g] # None PROVE Room(g)'
  <2>1. MemberCount(t, g)' = Cardinality(MembersOf(g))
    BY <1>2 DEF MemberCount, MembersOf, IsMember, Membership, Saw
  <2>2. \A k \in Nat : Few(g, k)' \subseteq Few(g, k) \cup {t}
    BY <1>1 DEF Few, MemberCount, IsMember, Membership, Saw
  <2>3. MembersOf(g)' = MembersOf(g) /\ widest'[g] = widest[g]
    BY <1>1 DEF MembersOf
  <2>. QED  BY <1>3, <2>1, <2>2, <2>3, RoomSeen
<1>4. ASSUME NEW g \in Groups, groups[g] = None PROVE Room(g)'
  BY <1>1, <1>4 DEF Room
<1>. QED  BY <1>3, <1>4
LEMMA StepKeepsRoom ==
  ASSUME IInv, \A g \in Groups : Room(g), [Next]_vars
  PROVE  \A g \in Groups : Room(g)'
<1>1. ASSUME NEW t \in Tx, NEW g \in Groups, NEW u \in Users,
             \/ JoinPublic(t, u, g)
             \/ \E c \in Codes : JoinByCode(t, u, g, c)
             \/ Accept(t, u, g) /\ AddMember(t, g, u)
      PROVE  \A h \in Groups : Room(h)'
  <2>1. /\ Commit(t) /\ Live(t, g) /\ AddMember(t, g, u)
        /\ groups' = groups /\ widest' = widest
    BY <1>1 DEF JoinPublic, JoinByCode, Accept, history
  <2>. QED  BY <2>1, JoinerKeepsRoom
<1>2. ASSUME NEW t \in Tx, Arrive(t) \/ ReadAgain(t) PROVE \A h \in Groups : Room(h)'
  BY <1>2, ReaderKeepsRoom
<1>3. ASSUME NEW t \in Tx, NEW g \in Groups, NEW u \in Users, NEW v \in Visibility,
             NEW m \in Limits, NEW c \in Codes, Create(t, u, g, v, c, m)
      PROVE  \A h \in Groups : Room(h)'
  BY <1>3, CreatorKeepsRoom
\* The others add nobody, and no group.
<1>4. ASSUME NEW t \in Tx, Commit(t) \/ Fail(t),
             \A h \in Groups : MembersOf(h)' \subseteq MembersOf(h),
             \A h \in Groups : groups'[h] # None => groups[h] # None,
             \A h \in Groups : widest'[h] \in Nat /\ widest[h] <= widest'[h]
      PROVE  \A h \in Groups : Room(h)'
  <2>1. ASSUME NEW h \in Groups, groups[h] # None PROVE Room(h)'
    BY <1>4, <2>1, OthersKeepRoom
  <2>2. ASSUME NEW h \in Groups, groups[h] = None PROVE Room(h)'
    BY <1>4, <2>2 DEF Room
  <2>. QED  BY <2>1, <2>2
<1>5. \A h \in Groups : widest[h] \in Nat
  BY DEF IInv, TypeOK
<1>6. ASSUME NEW t \in Tx, NEW g \in Groups, NEW u \in Users, NEW v \in Visibility,
             NEW m \in Limits, Update(t, u, g, v, m)
      PROVE  \A h \in Groups : Room(h)'
  <2>1. Commit(t) /\ groups[g] # None /\ groups[g] \in GroupRow
    BY <1>6, LiveSeen DEF Update, Commit
  <2>2. groups'[g].max \in Nat
    BY <1>6, <2>1, LimitsNat DEF Update, Updated, GroupRow, IInv, TypeOK
  <2>3. \A h \in Groups : widest'[h] \in Nat /\ widest[h] <= widest'[h]
    BY <1>5, <1>6, <2>2 DEF Update, Widens, IInv, TypeOK
  <2>4. \A h \in Groups : MembersOf(h)' \subseteq MembersOf(h)
    BY <1>6 DEF Update, MembersOf
  <2>5. \A h \in Groups : groups'[h] # None => groups[h] # None
    BY <1>6, <2>1 DEF Update, IInv, TypeOK
  <2>. QED  BY <1>4, <2>1, <2>3, <2>4, <2>5
<1>7. ASSUME NEW t \in Tx, NEW g \in Groups, NEW u \in Users,
             \/ Delete(t, u, g) \/ Retire(t, u, g)
             \/ \E c \in Codes : RegenerateInviteCode(t, u, g, c)
      PROVE  \A h \in Groups : Room(h)'
  <2>1. Commit(t) /\ groups[g] # None /\ widest' = widest
    BY <1>7, LiveSeen DEF Delete, Retire, RegenerateInviteCode, Commit, history
  <2>2. \A h \in Groups : MembersOf(h)' \subseteq MembersOf(h)
    BY <1>7 DEF Delete, Retire, RegenerateInviteCode, DeleteMember, MembersOf, IInv, TypeOK
  <2>3. \A h \in Groups : groups'[h] # None => groups[h] # None
    BY <1>7, <2>1 DEF Delete, Retire, RegenerateInviteCode, IInv, TypeOK
  <2>. QED  BY <1>4, <1>5, <2>1, <2>2, <2>3
<1>8. ASSUME NEW t \in Tx, NEW g \in Groups, NEW u \in Users, NEW w \in Users,
             \/ RemoveMember(t, u, g, w) \/ Invite(t, u, g, w) \/ Reopen(t, u, g, w)
             \/ Leave(t, u, g) \/ Decline(t, u, g)
             \/ Accept(t, u, g) /\ members' = members
             \/ \E role \in Role : SetMemberRole(t, u, g, w, role)
      PROVE  \A h \in Groups : Room(h)'
  <2>1. Commit(t) /\ groups' = groups /\ widest' = widest
    BY <1>8 DEF RemoveMember, Invite, Reopen, Leave, Decline, Accept, SetMemberRole, history
  <2>2. \A h \in Groups : MembersOf(h)' \subseteq MembersOf(h)
    <3>1. CASE members' = members
      BY <3>1 DEF MembersOf
    <3>2. CASE DeleteMember(t, g, w) \/ DeleteMember(t, g, u)
      BY <3>2 DEF DeleteMember, MembersOf, IInv, TypeOK
    <3>3. CASE \E role \in Role : SetMemberRole(t, u, g, w, role)
      <4>1. /\ members[g][w] # None
            /\ \A h \in Groups, x \in Users :
                   (h # g \/ x # w) => members'[h][x] = members[h][x]
        BY <3>3 DEF SetMemberRole, IInv, TypeOK
      <4>. QED  BY <4>1 DEF MembersOf
    <3>. QED
      BY <1>8, <3>1, <3>2, <3>3 DEF RemoveMember, Invite, Reopen, Leave, Decline
  <2>. QED  BY <1>4, <1>5, <2>1, <2>2
\* No request of a user.
<1>9. ASSUME UNCHANGED <<groups, open, widest>>,
             \A h \in Groups : MembersOf(h)' \subseteq MembersOf(h)
      PROVE  \A h \in Groups : Room(h)'
  <2>1. ASSUME NEW h \in Groups, groups[h] # None PROVE Room(h)'
    <3>1. \A k \in Nat : Few(h, k)' \subseteq Few(h, k)
      BY <1>9 DEF Few, MemberCount, IsMember, Membership, Saw
    <3>. QED  BY <1>5, <1>9, <2>1, <3>1, RoomLeft
  <2>2. ASSUME NEW h \in Groups, groups[h] = None PROVE Room(h)'
    BY <1>9, <2>2 DEF Room
  <2>. QED  BY <2>1, <2>2
<1>10. ASSUME NEW u \in Users, Purge(u) PROVE \A h \in Groups : Room(h)'
  BY <1>9, <1>10 DEF Purge, MembersOf, history, IInv, TypeOK
<1>11. ASSUME NEW g \in Groups, NEW u \in Users, Expire(g, u)
       PROVE  \A h \in Groups : Room(h)'
  BY <1>9, <1>11 DEF Expire, MembersOf, history
<1>12. CASE UNCHANGED vars
  BY <1>9, <1>12 DEF vars, db, history, MembersOf
<1>13. ASSUME NEW t \in Tx, NEW g \in Groups, NEW u \in Users, Accept(t, u, g)
       PROVE  \A h \in Groups : Room(h)'
  <2>1. CASE AddMember(t, g, u)
    BY <1>1, <1>13, <2>1
  <2>2. CASE members' = members
    BY <1>8, <1>13, <2>2
  <2>. QED  BY <1>13, <2>1, <2>2 DEF Accept
<1>14. CASE \E t \in Tx : Arrive(t) \/ ReadAgain(t)
  BY <1>2, <1>14
<1>15. ASSUME NEW t \in Tx, NEW g \in Groups, NEW u \in Users,
              \/ Delete(t, u, g) \/ JoinPublic(t, u, g) \/ Leave(t, u, g) \/ Retire(t, u, g)
              \/ Decline(t, u, g)
              \/ \E c \in Codes : RegenerateInviteCode(t, u, g, c) \/ JoinByCode(t, u, g, c)
       PROVE  \A h \in Groups : Room(h)'
  BY <1>1, <1>7, <1>8, <1>15
<1>16. ASSUME NEW t \in Tx, Fail(t) PROVE \A h \in Groups : Room(h)'
  <2>1. groups' = groups /\ members' = members /\ widest' = widest
    BY <1>16 DEF Fail, db, history
  <2>2. \A h \in Groups : MembersOf(h)' \subseteq MembersOf(h)
    BY <2>1 DEF MembersOf
  <2>. QED  BY <1>4, <1>5, <1>16, <2>1, <2>2
<1>. QED
  BY <1>3, <1>6, <1>8, <1>10, <1>11, <1>12, <1>13, <1>14, <1>15, <1>16 DEF Next

(* A group outgrows its largest limit by the requests that can be in       *)
(* flight at once, and by no more, however long the joins overlap and the  *)
(* limit is moved up and down.                                             *)
THEOREM OvershootIsBounded == Spec => []BoundedOvershoot
<1>1. Init => IInv /\ \A g \in Groups : Room(g)
  BY InitHolds DEF Init, Room
<1>2. (IInv /\ \A g \in Groups : Room(g)) /\ [Next]_vars
        => (IInv /\ \A g \in Groups : Room(g))'
  BY StepKeeps, StepKeepsRoom
<1>3. (IInv /\ \A g \in Groups : Room(g)) => BoundedOvershoot
  <2>1. ASSUME IInv, NEW g \in Groups, Room(g), groups[g] # None
        PROVE  Cardinality(MembersOf(g)) < widest[g] + Cardinality(Tx)
    <3>1. PICK n : n = widest[g]
      OBVIOUS
    <3>2. n \in Nat
      BY <2>1, <3>1 DEF IInv, TypeOK
    <3>3. Cardinality(MembersOf(g)) + Cardinality(Few(g, n)) < n + Cardinality(Tx)
      BY <2>1, <3>1, <3>2 DEF Room
    <3>. QED  BY <3>1, <3>2, <3>3, Finite
  <2>. QED  BY <2>1 DEF BoundedOvershoot
<1>. QED  BY <1>1, <1>2, <1>3, PTL DEF Spec
=============================================================================
