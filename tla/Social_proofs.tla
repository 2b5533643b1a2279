----------------------------- MODULE Social_proofs -----------------------------
(***************************************************************************)
(* Friendships, for any number of users and of requests that overlap:      *)
(* nobody is a friend, or is encouraged, who did not ask or agree, and one *)
(* request at a time keeps every pair clean.                               *)
(*                                                                         *)
(* A request writes what follows from rows it read earlier.  What has been *)
(* wanted stays so, so a copy of the rows is justified for as long as it is *)
(* held: that is the invariant of the first part.  The second says that a  *)
(* request without company holds the rows as they are.                     *)
(***************************************************************************)
EXTENDS Social, TLAPS

\* A table says of nobody more than was asked or agreed.
Justified(table) ==
    \A u, v \in Users : table[u][v] # None =>
        /\ table[u][v].status \in {"pending", "accepted"} => <<u, v>> \in wanted
        /\ table[u][v].status = "accepted" => <<v, u>> \in wanted

AllJustified ==
    /\ Justified(rows)
    /\ \A t \in Tx : open[t] # None => Justified(open[t].rows)
    /\ \A u, v \in Users : <<u, v>> \in encouraged => {<<u, v>>, <<v, u>>} \subseteq wanted

\* Two rows of a pair are two blocks.
CleanRows ==
    \A u \in Users : \A v \in Users \ {u} :
        rows[u][v] # None /\ rows[v][u] # None =>
            rows[u][v].status = "blocked" /\ rows[v][u].status = "blocked"

\* Without overlaps a request is alone with the rows it has read.
Alone ==
    \A t \in Tx : open[t] # None =>
        /\ open[t].rows = rows /\ open[t].blocks = Blocks(rows)
        /\ \A o \in Tx \ {t} : open[o] = None

IInv == TypeOK /\ AllJustified /\ (~raced => CleanRows /\ Alone)

Cell == FriendshipRow \cup {None}
-----------------------------------------------------------------------------
(* Tables.                                                                 *)

\* Writing one cell leaves the others.
LEMMA OneCell ==
    ASSUME NEW table \in RowTable, NEW u \in Users, NEW v \in Users, NEW c \in Cell
    PROVE  /\ [table EXCEPT ![u][v] = c] \in RowTable
           /\ \A x, y \in Users : [table EXCEPT ![u][v] = c][x][y] =
                  IF x = u /\ y = v THEN c ELSE table[x][y]
BY DEF RowTable, Cell

\* What a request has read is a table.
LEMMA ReadTable ==
    ASSUME TypeOK, NEW t \in Tx, open[t] # None
    PROVE  open[t] \in Reading /\ open[t].rows \in RowTable
BY DEF TypeOK, Reading

\* Rows read again: one cell of the copy is the table's.
LEMMA Rereading ==
    ASSUME TypeOK, NEW t \in Tx, NEW u \in Users, NEW v \in Users, ReadAgain(t, u, v)
    PROVE  /\ UNCHANGED <<rows, calls, raced, encouraged, wanted>>
           /\ open[t] # None /\ open'[t] \in Reading
           /\ open'[t].blocks = open[t].blocks
           /\ \A x, y \in Users : open'[t].rows[x][y] =
                  IF x = u /\ y = v THEN rows[u][v] ELSE open[t].rows[x][y]
           /\ \A o \in Tx \ {t} : open'[o] = open[o]
           /\ open' \in [Tx -> Reading \cup {None}]
<1> DEFINE copy == [open[t].rows EXCEPT ![u][v] = rows[u][v]]
<1>1. open[t] # None /\ UNCHANGED <<rows, calls, raced, encouraged, wanted>>
  BY DEF ReadAgain
<1>2. open[t] \in Reading /\ open[t].rows \in RowTable
  BY <1>1, ReadTable
<1>3. rows[u][v] \in Cell
  BY DEF TypeOK, RowTable, Cell
<1>4. /\ copy \in RowTable
      /\ \A x, y \in Users : copy[x][y] =
             IF x = u /\ y = v THEN rows[u][v] ELSE open[t].rows[x][y]
  BY <1>2, <1>3, OneCell
<1>5. open' = [open EXCEPT ![t] = [open[t] EXCEPT !.rows = copy]]
  BY DEF ReadAgain
<1> HIDE DEF copy
<1>6. /\ [open[t] EXCEPT !.rows = copy] \in Reading
      /\ [open[t] EXCEPT !.rows = copy].rows = copy
      /\ [open[t] EXCEPT !.rows = copy].blocks = open[t].blocks
  BY <1>2, <1>4 DEF Reading
<1>7. open \in [Tx -> Reading \cup {None}]
  BY DEF TypeOK
<1> QED BY <1>1, <1>4, <1>5, <1>6, <1>7

LEMMA CellTyped ==
    ASSUME NEW table \in RowTable, NEW u \in Users, NEW v \in Users
    PROVE  table[u][v] \in Cell
BY DEF RowTable, Cell

\* A delete empties a cell or changes nothing.
LEMMA Deleting ==
    ASSUME TypeOK, NEW t \in Tx, NEW u \in Users, NEW v \in Users
    PROVE  /\ Without(t, u, v) \in RowTable
           /\ \A x, y \in Users :
                  Without(t, u, v)[x][y] =
                      IF Same(t, u, v) /\ x = u /\ y = v THEN None ELSE rows[x][y]
<1>1. rows \in RowTable /\ None \in Cell
  BY DEF TypeOK, Cell
<1>2. CASE Same(t, u, v)
  <2>1. Without(t, u, v) = [rows EXCEPT ![u][v] = None]
    BY <1>2 DEF Without
  <2>2. /\ [rows EXCEPT ![u][v] = None] \in RowTable
        /\ \A x, y \in Users : [rows EXCEPT ![u][v] = None][x][y] =
               IF x = u /\ y = v THEN None ELSE rows[x][y]
    BY <1>1, OneCell
  <2> QED BY <1>2, <2>1, <2>2
<1>3. CASE ~Same(t, u, v)
  BY <1>1, <1>3 DEF Without
<1> QED BY <1>2, <1>3

\* An update writes the status of one row.
LEMMA Updating ==
    ASSUME TypeOK, NEW t \in Tx, NEW u \in Users, NEW v \in Users, NEW status \in Status,
           Update(t, u, v, status)
    PROVE  /\ rows' \in RowTable
           /\ rows[u][v] # None /\ rows'[u][v] # None
           /\ rows'[u][v].status = status
           /\ \A x, y \in Users : (x # u \/ y # v) => rows'[x][y] = rows[x][y]
<1>1. rows \in RowTable
  BY DEF TypeOK
<1>2. rows[u][v] \in FriendshipRow
  BY <1>1, CellTyped DEF Update, Same, Cell
<1> DEFINE c == [rows[u][v] EXCEPT !.status = status]
<1>3. c \in FriendshipRow /\ c.status = status
  BY <1>2 DEF FriendshipRow
<1>4. c \in Cell /\ c # None
  BY <1>3, NoneIsNoFriendship DEF Cell
<1>5. rows' = [rows EXCEPT ![u][v] = c]
  BY DEF Update
<1> HIDE DEF c
<1>6. rows[u][v] # None
  BY DEF Update, Same
<1>7. /\ [rows EXCEPT ![u][v] = c] \in RowTable
      /\ \A x, y \in Users : [rows EXCEPT ![u][v] = c][x][y] =
             IF x = u /\ y = v THEN c ELSE rows[x][y]
  BY <1>1, <1>4, OneCell
<1> QED BY <1>3, <1>4, <1>5, <1>6, <1>7

LEMMA FreshRow ==
    ASSUME TypeOK, NEW status \in Status
    PROVE  /\ NewRow(status) \in FriendshipRow
           /\ NewRow(status) # None
           /\ NewRow(status).status = status
BY NoneIsNoFriendship DEF NewRow, FriendshipRow, TypeOK

\* What asking writes.
LEMMA Asking ==
    ASSUME TypeOK, NEW t \in Tx, NEW u \in Users, NEW v \in Users, Ask(t, u, v)
    PROVE  /\ rows' \in RowTable
           /\ u # v
           /\ rows'[u][v] # None
           /\ rows'[u][v].status = "pending"
           /\ \A x, y \in Users : (x # u \/ y # v) => rows'[x][y] \in {rows[x][y], None}
           /\ HasStatus(Row(t, v, u), {"declined"}) /\ Same(t, v, u) => rows'[v][u] = None
<1> DEFINE base == IF HasStatus(Row(t, v, u), {"declined"}) THEN Without(t, v, u) ELSE rows
<1>1. /\ base \in RowTable
      /\ \A x, y \in Users : base[x][y] \in {rows[x][y], None}
      /\ HasStatus(Row(t, v, u), {"declined"}) /\ Same(t, v, u) => base[v][u] = None
  <2>1. CASE HasStatus(Row(t, v, u), {"declined"})
    BY <2>1, Deleting
  <2>2. CASE ~HasStatus(Row(t, v, u), {"declined"})
    BY <2>2 DEF TypeOK
  <2> QED BY <2>1, <2>2
<1>2. rows' = [base EXCEPT ![u][v] = NewRow("pending")] /\ u # v
  BY DEF Ask, MayAsk
<1>3. NewRow("pending") \in Cell /\ NewRow("pending") # None /\ NewRow("pending").status = "pending"
  BY FreshRow DEF Cell, Status
<1> HIDE DEF base
<1>4. /\ [base EXCEPT ![u][v] = NewRow("pending")] \in RowTable
      /\ \A x, y \in Users : [base EXCEPT ![u][v] = NewRow("pending")][x][y] =
             IF x = u /\ y = v THEN NewRow("pending") ELSE base[x][y]
  BY <1>1, <1>3, OneCell
<1> QED BY <1>1, <1>2, <1>3, <1>4

\* What blocking writes.
LEMMA Blocking ==
    ASSUME TypeOK, NEW t \in Tx, NEW u \in Users, NEW v \in Users, Block(t, u, v)
    PROVE  /\ rows' \in RowTable
           /\ u # v
           /\ rows'[u][v] # None
           /\ \/ rows'[u][v].status = "blocked"
              \/ rows[u][v] # None /\ rows'[u][v].status = rows[u][v].status
                 /\ Row(t, u, v) # None /\ Row(t, u, v).status = "blocked"
           /\ \A x, y \in Users : (x # u \/ y # v) => rows'[x][y] \in {rows[x][y], None}
           /\ HasStatus(Row(t, v, u), Status \ {"blocked"}) /\ Same(t, v, u)
                  => rows'[v][u] = None
<1> DEFINE base == IF HasStatus(Row(t, v, u), Status \ {"blocked"}) THEN Without(t, v, u)
                   ELSE rows
<1> DEFINE c == IF Row(t, u, v) = None THEN NewRow("blocked")
                ELSE IF Row(t, u, v).status = "blocked" THEN base[u][v]
                ELSE [base[u][v] EXCEPT !.status = "blocked"]
<1>0. u # v /\ (Row(t, u, v) # None => rows[u][v] # None)
  BY DEF Block, Same
<1>1. /\ base \in RowTable
      /\ \A x, y \in Users : base[x][y] \in {rows[x][y], None}
      /\ HasStatus(Row(t, v, u), Status \ {"blocked"}) /\ Same(t, v, u) => base[v][u] = None
      /\ base[u][v] = rows[u][v]
  <2>1. CASE HasStatus(Row(t, v, u), Status \ {"blocked"})
    BY <2>1, <1>0, Deleting
  <2>2. CASE ~HasStatus(Row(t, v, u), Status \ {"blocked"})
    BY <2>2 DEF TypeOK
  <2> QED BY <2>1, <2>2
<1>2. rows' = [base EXCEPT ![u][v] = c]
  <2>1. CASE Row(t, u, v) = None
    BY <2>1 DEF Block
  <2>2. CASE Row(t, u, v) # None /\ Row(t, u, v).status = "blocked"
    BY <2>2 DEF Block
  <2>3. CASE Row(t, u, v) # None /\ Row(t, u, v).status # "blocked"
    BY <2>3 DEF Block
  <2> QED BY <2>1, <2>2, <2>3
<1> HIDE DEF base
<1>3. /\ c \in FriendshipRow
      /\ \/ c.status = "blocked"
         \/ rows[u][v] # None /\ c.status = rows[u][v].status
            /\ Row(t, u, v) # None /\ Row(t, u, v).status = "blocked"
  <2>1. CASE Row(t, u, v) = None
    BY <2>1, FreshRow DEF Status
  <2>2. CASE Row(t, u, v) # None
    <3>1. base[u][v] \in FriendshipRow
      BY <1>0, <1>1, <2>2, CellTyped DEF Cell
    <3> QED BY <1>0, <1>1, <2>2, <3>1 DEF FriendshipRow, Status
  <2> QED BY <2>1, <2>2
<1> HIDE DEF c
<1>4. c \in Cell /\ c # None
  BY <1>3, NoneIsNoFriendship DEF Cell
<1>5. /\ [base EXCEPT ![u][v] = c] \in RowTable
      /\ \A x, y \in Users : [base EXCEPT ![u][v] = c][x][y] =
             IF x = u /\ y = v THEN c ELSE base[x][y]
  BY <1>1, <1>4, OneCell
<1>6. rows'[u][v] = c /\ \A x, y \in Users : (x # u \/ y # v) => rows'[x][y] = base[x][y]
  BY <1>2, <1>5
<1>7. rows' \in RowTable
  BY <1>2, <1>5
<1> QED BY <1>0, <1>1, <1>3, <1>4, <1>6, <1>7
-----------------------------------------------------------------------------
(* Types.                                                                  *)

\* Taking a row away.
Deletes(t, u, v) == Remove(t, u, v) \/ Unblock(t, u, v)

\* Writing a status: who must have asked, and what they want now.
Updates(t, u, v) ==
    \/ AcceptTheirs(t, v, u) \/ AskAgain(t, u, v) \/ Accept(t, u, v) \/ Decline(t, u, v)

LEMMA RowsTyped ==
    ASSUME TypeOK, NEW t \in Tx, NEW u \in Users, NEW v \in Users,
           Updates(t, u, v) \/ Ask(t, u, v) \/ Deletes(t, u, v) \/ Block(t, u, v)
    PROVE  rows' \in RowTable
<1>1. CASE Updates(t, u, v)
  <2>1. \E status \in Status : Update(t, u, v, status)
    BY <1>1 DEF Updates, AcceptTheirs, AskAgain, Accept, Decline, Status
  <2> QED BY <2>1, Updating
<1>2. CASE Ask(t, u, v)
  BY <1>2, Asking
<1>3. CASE Deletes(t, u, v)
  BY <1>3, Deleting DEF Deletes, Remove, Unblock
<1>4. CASE Block(t, u, v)
  BY <1>4, Blocking
<1> QED BY <1>1, <1>2, <1>3, <1>4

\* The writes of one request.
WritesRows(t, u, v) ==
    Updates(t, u, v) \/ Ask(t, u, v) \/ Deletes(t, u, v) \/ Block(t, u, v)

\* The steps of a request, by what they touch.
LEMMA Steps ==
    ASSUME [Next]_vars
    PROVE  \/ UNCHANGED vars
           \/ \E t \in Tx : Arrive(t) \/ Fail(t)
           \/ \E t \in Tx, u, v \in Users :
                  WritesRows(t, u, v) \/ Encourage(t, u, v) \/ ReadAgain(t, u, v)
BY DEF Next, WritesRows, Updates, Deletes

LEMMA Closing ==
    ASSUME NEW t \in Tx, NEW u \in Users, NEW v \in Users, WritesRows(t, u, v)
    PROVE  /\ open[t] # None /\ open' = [open EXCEPT ![t] = None]
           /\ UNCHANGED <<calls, raced, encouraged>>
           /\ wanted' \in {wanted, wanted \cup {<<u, v>>}, wanted \cup {<<v, u>>}}
BY DEF WritesRows, Updates, Deletes, AcceptTheirs, AskAgain, Ask, Accept, Decline, Remove,
       Block, Unblock, Commit, End, Wants

LEMMA TypesStep ==
    ASSUME TypeOK, [Next]_vars
    PROVE  TypeOK'
<1>1. CASE UNCHANGED vars
  BY <1>1 DEF vars, TypeOK
<1>2. CASE \E t \in Tx : Arrive(t) \/ Fail(t)
  <2>1. PICK t \in Tx : Arrive(t) \/ Fail(t)
    BY <1>2
  <2>2. UNCHANGED <<rows, encouraged, wanted>>
    BY <2>1 DEF Arrive, Fail
  <2>3. open' \in [Tx -> Reading \cup {None}]
    <3>1. [rows |-> rows, blocks |-> Blocks(rows)] \in Reading
      BY DEF TypeOK, Reading, Blocks
    <3> QED BY <2>1, <3>1 DEF Arrive, Fail, End, TypeOK
  <2>4. calls' \in 0..MaxCalls
    <3>1. calls \in 0..MaxCalls /\ (calls' = calls \/ (calls < MaxCalls /\ calls' = calls + 1))
      BY <2>1 DEF Arrive, Fail, End, TypeOK
    <3> QED BY <3>1, SocialAssumption
  <2>5. raced' \in BOOLEAN
    BY <2>1 DEF Arrive, Fail, End, TypeOK
  <2> QED BY <2>2, <2>3, <2>4, <2>5 DEF TypeOK
<1>3. ASSUME NEW t \in Tx, NEW u \in Users, NEW v \in Users, WritesRows(t, u, v)
      PROVE  TypeOK'
  <2>1. rows' \in RowTable
    BY <1>3, RowsTyped DEF WritesRows
  <2>2. open' \in [Tx -> Reading \cup {None}] /\ calls' = calls /\ raced' = raced
    BY <1>3, Closing DEF TypeOK
  <2>3. encouraged' \cup wanted' \subseteq Users \X Users
    <3>1. encouraged \cup wanted \subseteq Users \X Users
      BY DEF TypeOK
    <3>2. /\ encouraged' = encouraged
          /\ wanted' \in {wanted, wanted \cup {<<u, v>>}, wanted \cup {<<v, u>>}}
      BY <1>3, Closing
    <3> QED BY <3>1, <3>2
  <2> QED BY <2>1, <2>2, <2>3 DEF TypeOK
<1>4. ASSUME NEW t \in Tx, NEW u \in Users, NEW v \in Users, Encourage(t, u, v)
      PROVE  TypeOK'
  BY <1>4 DEF Encourage, End, TypeOK
<1>5. ASSUME NEW t \in Tx, NEW u \in Users, NEW v \in Users, ReadAgain(t, u, v)
      PROVE  TypeOK'
  BY <1>5, Rereading DEF TypeOK
<1> QED BY <1>1, <1>2, <1>3, <1>4, <1>5, Steps
-----------------------------------------------------------------------------
(* Friends wanted it.                                                      *)

\* What was justified stays so.
LEMMA StaysJustified ==
    ASSUME NEW table, Justified(table), wanted \subseteq wanted'
    PROVE  \A u, v \in Users : table[u][v] # None =>
               /\ table[u][v].status \in {"pending", "accepted"} => <<u, v>> \in wanted'
               /\ table[u][v].status = "accepted" => <<v, u>> \in wanted'
BY DEF Justified

LEMMA WritesJustified ==
    ASSUME TypeOK, AllJustified, NEW t \in Tx, NEW u \in Users, NEW v \in Users,
           WritesRows(t, u, v)
    PROVE  Justified(rows)'
<1>0. open[t] # None /\ Justified(open[t].rows) /\ wanted \subseteq wanted'
  BY Closing DEF AllJustified
<1>1. \A x, y \in Users : rows[x][y] # None =>
          /\ rows[x][y].status \in {"pending", "accepted"} => <<x, y>> \in wanted'
          /\ rows[x][y].status = "accepted" => <<y, x>> \in wanted'
  BY <1>0, StaysJustified DEF AllJustified
<1>2. CASE Updates(t, u, v)
  <2>1. PICK status \in Status :
          /\ Update(t, u, v, status)
          /\ status \in {"pending", "accepted"} => <<u, v>> \in wanted'
          /\ status = "accepted" => <<v, u>> \in wanted'
    <3>1. CASE AcceptTheirs(t, v, u)
      <4>1. <<u, v>> \in wanted
        BY <1>0, <3>1 DEF AcceptTheirs, HasStatus, Row, Justified
      <4>2. Update(t, u, v, "accepted") /\ <<v, u>> \in wanted'
        BY <3>1 DEF AcceptTheirs, Wants
      <4> QED BY <1>0, <4>1, <4>2 DEF Status
    <3>2. CASE AskAgain(t, u, v)
      BY <3>2 DEF AskAgain, Wants, Status
    <3>3. CASE Accept(t, u, v)
      <4>1. <<u, v>> \in wanted
        BY <1>0, <3>3 DEF Accept, Pending, HasStatus, Row, Justified
      <4>2. Update(t, u, v, "accepted") /\ <<v, u>> \in wanted'
        BY <3>3 DEF Accept, Wants
      <4> QED BY <1>0, <4>1, <4>2 DEF Status
    <3>4. CASE Decline(t, u, v)
      BY <3>4 DEF Decline, Status
    <3> QED BY <1>2, <3>1, <3>2, <3>3, <3>4 DEF Updates
  <2>2. /\ rows'[u][v].status = status
        /\ \A x, y \in Users : (x # u \/ y # v) => rows'[x][y] = rows[x][y]
    BY <2>1, Updating
  <2> QED BY <1>1, <2>1, <2>2 DEF Justified
<1>3. CASE Ask(t, u, v)
  <2>1. <<u, v>> \in wanted'
    BY <1>3 DEF Ask, Wants
  <2>2. /\ rows'[u][v].status = "pending"
        /\ \A x, y \in Users : (x # u \/ y # v) => rows'[x][y] \in {rows[x][y], None}
    BY <1>3, Asking
  <2> QED BY <1>1, <2>1, <2>2 DEF Justified
<1>4. CASE Deletes(t, u, v)
  <2>1. \A x, y \in Users : rows'[x][y] \in {rows[x][y], None}
    BY <1>4, Deleting DEF Deletes, Remove, Unblock
  <2> QED BY <1>1, <2>1 DEF Justified
<1>5. CASE Block(t, u, v)
  <2>1. /\ \/ rows'[u][v].status = "blocked"
           \/ rows[u][v] # None /\ rows'[u][v].status = rows[u][v].status
        /\ \A x, y \in Users : (x # u \/ y # v) => rows'[x][y] \in {rows[x][y], None}
    BY <1>5, Blocking
  <2> QED BY <1>1, <2>1 DEF Justified
<1> QED BY <1>2, <1>3, <1>4, <1>5 DEF WritesRows

LEMMA JustifiedStep ==
    ASSUME TypeOK, AllJustified, [Next]_vars
    PROVE  AllJustified'
<1>1. CASE UNCHANGED vars
  BY <1>1 DEF vars, AllJustified, Justified
<1>2. CASE \E t \in Tx : Arrive(t) \/ Fail(t)
  <2>1. UNCHANGED <<rows, encouraged, wanted>>
    BY <1>2 DEF Arrive, Fail
  <2>2. \A t \in Tx : open'[t] # None =>
          \/ open'[t].rows = rows
          \/ open[t] # None /\ open'[t] = open[t]
    BY <1>2 DEF Arrive, Fail, End, TypeOK
  <2> QED BY <2>1, <2>2 DEF AllJustified, Justified
<1>3. ASSUME NEW t \in Tx, NEW u \in Users, NEW v \in Users, WritesRows(t, u, v)
      PROVE  AllJustified'
  <2>1. Justified(rows)'
    BY <1>3, WritesJustified
  <2>2. /\ wanted \subseteq wanted' /\ encouraged' = encouraged
        /\ \A o \in Tx : open'[o] # None => open[o] # None /\ open'[o] = open[o]
    BY <1>3, Closing DEF TypeOK
  <2>3. \A o \in Tx : open'[o] # None => Justified(open[o].rows)'
    <3> SUFFICES ASSUME NEW o \in Tx, open'[o] # None PROVE Justified(open[o].rows)'
      OBVIOUS
    <3>1. Justified(open[o].rows) /\ open'[o] = open[o]
      BY <2>2 DEF AllJustified
    <3> QED BY <2>2, <3>1 DEF Justified
  <2>4. \A x, y \in Users : <<x, y>> \in encouraged' => {<<x, y>>, <<y, x>>} \subseteq wanted'
    BY <2>2 DEF AllJustified
  <2> QED BY <2>1, <2>3, <2>4 DEF AllJustified
<1>4. ASSUME NEW t \in Tx, NEW u \in Users, NEW v \in Users, Encourage(t, u, v)
      PROVE  AllJustified'
  <2>1. /\ UNCHANGED <<rows, wanted>>
        /\ \A o \in Tx : open'[o] # None => open[o] # None /\ open'[o] = open[o]
    BY <1>4 DEF Encourage, End, TypeOK
  <2>2. {<<u, v>>, <<v, u>>} \subseteq wanted
    <3>1. open[t] # None /\ Justified(open[t].rows)
      BY <1>4 DEF Encourage, End, AllJustified
    <3> QED BY <1>4, <3>1 DEF Encourage, AreFriends, HasStatus, Row, Justified
  <2>3. \A x, y \in Users : <<x, y>> \in encouraged' =>
            <<x, y>> \in encouraged \/ (x = u /\ y = v)
    BY <1>4 DEF Encourage
  <2> QED BY <2>1, <2>2, <2>3 DEF AllJustified, Justified
<1>5. ASSUME NEW t \in Tx, NEW u \in Users, NEW v \in Users, ReadAgain(t, u, v)
      PROVE  AllJustified'
  <2>1. /\ UNCHANGED <<rows, encouraged, wanted>> /\ open[t] # None
        /\ \A x, y \in Users : open'[t].rows[x][y] \in {rows[x][y], open[t].rows[x][y]}
        /\ \A o \in Tx \ {t} : open'[o] = open[o]
    BY <1>5, Rereading
  <2>2. Justified(rows) /\ Justified(open[t].rows)
    BY <2>1 DEF AllJustified
  <2>3. Justified(open[t].rows)'
    BY <2>1, <2>2 DEF Justified
  <2>4. \A o \in Tx : open'[o] # None => Justified(open[o].rows)'
    BY <2>1, <2>3 DEF AllJustified, Justified
  <2> QED BY <2>1, <2>4 DEF AllJustified, Justified
<1> QED BY <1>1, <1>2, <1>3, <1>4, <1>5, Steps
-----------------------------------------------------------------------------
(* One at a time.                                                          *)

LEMMA CleanStep ==
    ASSUME TypeOK, ~raced => CleanRows /\ Alone, [Next]_vars, ~raced'
    PROVE  CleanRows' /\ Alone'
<1>0. ~raced /\ CleanRows /\ Alone
  <2>1. raced => raced'
    <3>1. CASE \E t \in Tx, u, v \in Users : WritesRows(t, u, v)
      BY <3>1, Closing
    <3> QED BY <3>1, Steps DEF vars, Arrive, Fail, End, Encourage, ReadAgain
  <2> QED BY <2>1
<1>1. CASE UNCHANGED vars
  BY <1>0, <1>1 DEF vars, CleanRows, Alone
<1>2. ASSUME NEW t \in Tx, Arrive(t) PROVE CleanRows' /\ Alone'
  <2>1. \A o \in Tx : open[o] = None
    BY <1>2 DEF Arrive, TypeOK
  <2>2. /\ rows' = rows /\ open \in [Tx -> Reading \cup {None}]
        /\ open' = [open EXCEPT ![t] = [rows |-> rows, blocks |-> Blocks(rows)]]
    BY <1>2 DEF Arrive, TypeOK
  <2> QED BY <1>0, <2>1, <2>2 DEF CleanRows, Alone, Blocks
<1>3. ASSUME NEW t \in Tx, open[t] # None, open' = [open EXCEPT ![t] = None]
      PROVE  Alone'
  <2>1. \A o \in Tx : open'[o] = None
    BY <1>0, <1>3 DEF Alone, TypeOK
  <2> QED BY <2>1 DEF Alone
<1>4. ASSUME NEW t \in Tx, Fail(t) PROVE CleanRows' /\ Alone'
  BY <1>0, <1>3, <1>4 DEF Fail, End, CleanRows
<1>5. ASSUME NEW t \in Tx, NEW u \in Users, NEW v \in Users, Encourage(t, u, v)
      PROVE  CleanRows' /\ Alone'
  BY <1>0, <1>3, <1>5 DEF Encourage, End, CleanRows
<1>6. ASSUME NEW t \in Tx, NEW u \in Users, NEW v \in Users, WritesRows(t, u, v)
      PROVE  CleanRows' /\ Alone'
  <2>1. Alone'
    BY <1>3, <1>6, Closing
  <2>2. /\ open[t].rows = rows /\ rows \in RowTable
        /\ \A x, y \in Users : <<x, y>> \in open[t].blocks <=> HasStatus(rows[x][y], {"blocked"})
    BY <1>0, <1>6, Closing DEF Alone, TypeOK, Blocks
  <2>3. \A x, y \in Users : rows[x][y] # None => Same(t, x, y)
    BY <2>2 DEF Same, Row
  <2>4. CASE Updates(t, u, v)
    <3>1. /\ rows[u][v] # None /\ rows[u][v].status # "blocked"
          /\ \A x, y \in Users : (x # u \/ y # v) => rows'[x][y] = rows[x][y]
      <4>1. PICK status \in Status : Update(t, u, v, status)
        BY <2>4 DEF Updates, AcceptTheirs, AskAgain, Accept, Decline, Status
      <4>2. HasStatus(Row(t, u, v), {"pending", "declined"})
        BY <2>4 DEF Updates, AcceptTheirs, AskAgain, Accept, Decline, Pending, HasStatus
      <4> QED BY <2>2, <4>1, <4>2, Updating DEF HasStatus, Row
    <3>2. u # v => rows[v][u] = None
      BY <1>0, <3>1 DEF CleanRows
    <3> QED BY <1>0, <2>1, <3>1, <3>2 DEF CleanRows
  <2>5. CASE Ask(t, u, v)
    <3>1. /\ u # v
          /\ \A x, y \in Users : (x # u \/ y # v) => rows'[x][y] \in {rows[x][y], None}
          /\ HasStatus(Row(t, v, u), {"declined"}) /\ Same(t, v, u) => rows'[v][u] = None
      BY <2>5, Asking
    <3>2. rows'[v][u] = None
      <4>1. ~HasStatus(Row(t, v, u), {"pending", "blocked", "accepted"})
        <5>1. /\ ~HasStatus(Row(t, v, u), {"pending"}) /\ ~HasStatus(Row(t, v, u), {"accepted"})
              /\ <<v, u>> \notin open[t].blocks
          BY <2>5 DEF Ask, MayAsk, AreFriends
        <5>2. ~HasStatus(Row(t, v, u), {"blocked"})
          BY <2>2, <5>1 DEF Row
        <5> QED BY <5>1, <5>2 DEF HasStatus
      <4>2. rows[v][u] = None \/ rows[v][u].status \in Status
        BY <2>2, CellTyped DEF Cell, FriendshipRow
      <4>3. CASE rows[v][u] = None
        BY <3>1, <4>3
      <4>4. CASE rows[v][u] # None
        <5>1. HasStatus(Row(t, v, u), {"declined"})
          BY <2>2, <4>1, <4>2, <4>4 DEF HasStatus, Row, Status
        <5> QED BY <2>3, <3>1, <4>4, <5>1
      <4> QED BY <4>3, <4>4
    <3> QED BY <1>0, <2>1, <3>1, <3>2 DEF CleanRows
  <2>6. CASE Deletes(t, u, v)
    <3>1. \A x, y \in Users : rows'[x][y] \in {rows[x][y], None}
      BY <2>6, Deleting DEF Deletes, Remove, Unblock
    <3> QED BY <1>0, <2>1, <3>1 DEF CleanRows
  <2>7. CASE Block(t, u, v)
    <3>1. /\ u # v
          /\ \A x, y \in Users : (x # u \/ y # v) => rows'[x][y] \in {rows[x][y], None}
          /\ HasStatus(Row(t, v, u), Status \ {"blocked"}) /\ Same(t, v, u)
                 => rows'[v][u] = None
          /\ \/ rows'[u][v].status = "blocked"
             \/ rows'[u][v].status = rows[u][v].status /\ Row(t, u, v).status = "blocked"
      BY <2>7, Blocking
    <3>2. rows'[u][v].status = "blocked"
      BY <2>2, <3>1 DEF Row
    <3>3. rows'[v][u] = None \/ rows'[v][u].status = "blocked"
      <4>1. rows[v][u] = None \/ rows[v][u].status \in Status
        BY <2>2, CellTyped DEF Cell, FriendshipRow
      <4>2. CASE rows[v][u] = None
        BY <3>1, <4>2
      <4>3. CASE rows[v][u] # None /\ rows[v][u].status = "blocked"
        BY <3>1, <4>3
      <4>4. CASE rows[v][u] # None /\ rows[v][u].status # "blocked"
        <5>1. HasStatus(Row(t, v, u), Status \ {"blocked"})
          BY <2>2, <4>1, <4>4 DEF HasStatus, Row
        <5> QED BY <2>3, <3>1, <4>4, <5>1
      <4> QED BY <4>2, <4>3, <4>4
    <3> QED BY <1>0, <2>1, <3>1, <3>2, <3>3 DEF CleanRows
  <2> QED BY <1>6, <2>4, <2>5, <2>6, <2>7 DEF WritesRows
<1>7. ASSUME NEW t \in Tx, NEW u \in Users, NEW v \in Users, ReadAgain(t, u, v)
      PROVE  CleanRows' /\ Alone'
  <2>1. /\ UNCHANGED rows /\ open[t] # None /\ open'[t] \in Reading
        /\ open'[t].blocks = open[t].blocks
        /\ \A x, y \in Users : open'[t].rows[x][y] =
               IF x = u /\ y = v THEN rows[u][v] ELSE open[t].rows[x][y]
        /\ \A o \in Tx \ {t} : open'[o] = open[o]
    BY <1>7, Rereading
  <2>2. /\ open[t].rows = rows /\ open[t].blocks = Blocks(rows)
        /\ \A o \in Tx \ {t} : open[o] = None
    BY <1>0, <2>1 DEF Alone
  <2>3. open'[t].rows = rows
    <3>1. open'[t].rows \in RowTable /\ rows \in RowTable
      BY <2>1 DEF Reading, TypeOK
    <3>2. \A x, y \in Users : open'[t].rows[x][y] = rows[x][y]
      BY <2>1, <2>2
    <3> DEFINE copy == open'[t].rows
    <3>3. copy \in RowTable /\ \A x, y \in Users : copy[x][y] = rows[x][y]
      BY <3>1, <3>2
    <3> HIDE DEF copy
    <3>4. \A x \in Users : copy[x] = rows[x]
      BY <3>1, <3>3 DEF RowTable
    <3>5. copy = rows
      BY <3>1, <3>3, <3>4 DEF RowTable
    <3> QED BY <3>5 DEF copy
  <2>4. Blocks(rows)' = Blocks(rows)
    BY <2>1 DEF Blocks
  <2> QED BY <1>0, <2>1, <2>2, <2>3, <2>4 DEF CleanRows, Alone
<1> QED BY <1>1, <1>2, <1>4, <1>5, <1>6, <1>7, Steps
-----------------------------------------------------------------------------
(* The theorems.                                                           *)

\* The invariant holds in every state, for any users, requests and bound.
THEOREM SocialInductive == Spec => []IInv
<1>1. Init => IInv
  <2> SUFFICES ASSUME Init PROVE IInv
    OBVIOUS
  <2>1. TypeOK
    <3>1. rows \in RowTable /\ open \in [Tx -> Reading \cup {None}]
      BY DEF Init, RowTable
    <3>2. calls \in 0..MaxCalls
      BY SocialAssumption DEF Init
    <3>3. raced \in BOOLEAN /\ encouraged \cup wanted \subseteq Users \X Users
      BY DEF Init
    <3> QED BY <3>1, <3>2, <3>3 DEF TypeOK
  <2>2. AllJustified
    BY DEF Init, AllJustified, Justified
  <2>3. CleanRows /\ Alone
    BY DEF Init, CleanRows, Alone
  <2> QED BY <2>1, <2>2, <2>3 DEF IInv
<1>2. IInv /\ [Next]_vars => IInv'
  <2> SUFFICES ASSUME IInv, [Next]_vars PROVE IInv'
    OBVIOUS
  <2>1. TypeOK /\ AllJustified /\ (~raced => CleanRows /\ Alone)
    BY DEF IInv
  <2>2. TypeOK'
    BY <2>1, TypesStep
  <2>3. AllJustified'
    BY <2>1, JustifiedStep
  <2>4. ~raced' => CleanRows' /\ Alone'
    BY <2>1, CleanStep
  <2> QED BY <2>2, <2>3, <2>4 DEF IInv
<1> QED BY <1>1, <1>2, PTL DEF Spec

\* Rows, copies and lists keep their types.
THEOREM SocialTyped == Spec => []TypeOK
<1>1. IInv => TypeOK
  BY DEF IInv
<1> QED BY <1>1, SocialInductive, PTL

\* Nobody is a friend, or was encouraged, who did not ask or say yes, however
\* many requests overlap (send_request, accept_request, publish_reaction).
THEOREM FriendsAgreed == Spec => []FriendsWanted
<1>1. IInv => FriendsWanted
  <2> SUFFICES ASSUME AllJustified, NEW u \in Users, NEW v \in Users,
                      v \in ListFriends(u) \/ <<u, v>> \in encouraged
               PROVE  {<<u, v>>, <<v, u>>} \subseteq wanted
    BY DEF IInv, FriendsWanted
  <2>1. CASE <<u, v>> \in encouraged
    BY <2>1 DEF AllJustified
  <2>2. CASE v \in ListFriends(u)
    BY <2>2 DEF ListFriends, Forward, Reverse, HasStatus, AllJustified, Justified
  <2> QED BY <2>1, <2>2
<1> QED BY <1>1, SocialInductive, PTL

\* One request at a time leaves a pair one row or two blocks, and what the two
\* are told of each other agrees ("the pair is clean", service.py:232).
THEOREM SerialPairsAreClean == Spec => []PairClean
<1>1. IInv => PairClean
  <2> SUFFICES ASSUME CleanRows, rows \in RowTable, NEW u \in Users, NEW v \in Users \ {u}
               PROVE  /\ (rows[u][v] # None /\ rows[v][u] # None) =>
                             {rows[u][v].status, rows[v][u].status} = {"blocked"}
                      /\ v \in Found(u) /\ u \in Found(v) =>
                             /\ Classify(u, v) = "friends" <=> Classify(v, u) = "friends"
                             /\ Classify(u, v) = "request_sent"
                                    <=> Classify(v, u) = "request_received"
                      /\ v \notin Found(u) =>
                             v \notin ListFriends(u) \cup ListRequests(u).incoming
                                          \cup ListRequests(u).outgoing
    BY DEF IInv, PairClean, TypeOK
  <2>1. rows[u][v] # None /\ rows[v][u] # None =>
            rows[u][v].status = "blocked" /\ rows[v][u].status = "blocked"
    BY DEF CleanRows
  <2>2. /\ \A x, y \in Users : x \in ListFriends(y) <=>
               Forward(y, x, {"accepted"}) \/ Reverse(y, x, {"accepted"})
        /\ \A x, y \in Users : x \in ListRequests(y).incoming <=> Reverse(y, x, {"pending"})
        /\ \A x, y \in Users : x \in ListRequests(y).outgoing <=> Forward(y, x, {"pending"})
        /\ \A x, y \in Users : x \in ListBlocked(y) <=> Forward(y, x, {"blocked"})
        /\ v \in Found(u) <=> ~Reverse(u, v, {"blocked"})
        /\ u \in Found(v) <=> ~Reverse(v, u, {"blocked"})
    BY DEF ListFriends, ListRequests, ListBlocked, Found
  <2>3. v \in Found(u) /\ u \in Found(v) =>
            /\ Classify(u, v) = "friends" <=> Classify(v, u) = "friends"
            /\ Classify(u, v) = "request_sent" <=> Classify(v, u) = "request_received"
    BY <2>1, <2>2 DEF Classify, Forward, Reverse, HasStatus
  <2>4. v \notin Found(u) =>
            v \notin ListFriends(u) \cup ListRequests(u).incoming \cup ListRequests(u).outgoing
    BY <2>1, <2>2 DEF Forward, Reverse, HasStatus
  <2> QED BY <2>1, <2>3, <2>4
<1> QED BY <1>1, SocialInductive, PTL
=============================================================================
