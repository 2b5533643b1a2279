------------------------------- MODULE Accounts -------------------------------
(***************************************************************************)
(* Accounts and refresh tokens: the account service                        *)
(* (domain/accounts/service.py), the client that keeps a device signed in  *)
(* (api-client/src/client.ts) and the worker that purges deleted accounts  *)
(* (jobs/account_purger.py).                                               *)
(*                                                                         *)
(* A request reads the database, and later writes it in one transaction at *)
(* READ COMMITTED: open[t] holds what request t has read (seen), and any   *)
(* number of other requests may commit before t does.  Rows are written by *)
(* identity: a row that has vanished in between makes the write fail, and  *)
(* so does a constraint; Fail is how such a request ends.  register, login *)
(* and change_password commit once or twice and issue the tokens last.     *)
(*                                                                         *)
(* Passwords, profile texts and settings are left out: a request that      *)
(* presents a wrong password changes nothing.  Reset links travel by       *)
(* e-mail; whoever has one may use it.                                     *)
(***************************************************************************)
EXTENDS Naturals, FiniteSets

CONSTANTS
    Users,      \* ids of accounts
    Names,      \* identifiers people sign up with (e-mail and username)
    Devices,    \* installations of the client (stores of one refresh token)
    Clients,    \* ApiClients a running installation may have
    Tx,         \* requests that can be open at once
    None,
    MaxTokens,  \* bound on the refresh tokens ever issued
    MaxLinks,   \* bound on the reset links ever mailed
    TokenTTL, LinkTTL,  \* lifetimes
    Grace,      \* how long a deleted account is kept
    Retention,  \* how long a revoked token is kept
    Owners,     \* users that own a study group
    MaxCalls,   \* bound on the requests
    Horizon     \* bound on the clock

Token == 1..MaxTokens
Link == 1..MaxLinks

ASSUME AccountsAssumption ==
    /\ MaxTokens \in Nat /\ MaxLinks \in Nat /\ MaxCalls \in Nat /\ Horizon \in Nat
    /\ TokenTTL \in Nat /\ LinkTTL \in Nat /\ Grace \in Nat /\ Retention \in Nat
    /\ None \notin Nat /\ None \notin Users /\ None \notin Names
    /\ None \notin Devices /\ None \notin Tx /\ None \notin Devices \X Clients

Maybe(S) == S \cup {None}

UserRow == [name : Maybe(Names), deletedAt : Maybe(Nat)]
TokenRow == [user : Users, family : Token, expires : Nat, revokedAt : Maybe(Nat)]
LinkRow == [user : Users, expires : Nat, usedAt : Maybe(Nat)]

Tables ==
    [users : [Users -> Maybe(UserRow)], tokens : [Token -> Maybe(TokenRow)],
     links : [Link -> Maybe(LinkRow)]]

\* A request: what it has read, the token a refresh presents, the client that
\* waits for it, and the user to whom tokens are still to be issued.
Request ==
    [seen : Maybe(Tables), token : Maybe(Token), client : Maybe(Devices \X Clients),
     issueFor : Maybe(Users)]

ASSUME NoneIsNoRow == None \notin UserRow \cup TokenRow \cup LinkRow
ASSUME NoneIsNoTable == None \notin Tables
ASSUME NoneIsNoRequest == None \notin Request

VARIABLES
    now,
    users, tokens, links,  \* the tables
    issued, mailed,        \* tokens and links so far
    open, calls,           \* the requests, and how many there have been
    device,                \* the token each device has stored
    ended,                 \* history: tokens revoked on purpose, or gone with their account
    cut                    \* history: tokens, and their families, of an exchange gone wrong:
                           \* the app died in it, or two of its clients exchanged one token

db == <<users, tokens, links, issued, mailed>>
vars == <<now, db, open, calls, device, ended, cut>>

Db == [users |-> users, tokens |-> tokens, links |-> links]

Init ==
    /\ now = 0
    /\ users = [u \in Users |-> None]
    /\ tokens = [k \in Token |-> None] /\ links = [l \in Link |-> None]
    /\ issued = 0 /\ mailed = 0
    /\ open = [t \in Tx |-> None] /\ calls = 0
    /\ device = [d \in Devices |-> None]
    /\ ended = {} /\ cut = {}
-----------------------------------------------------------------------------
(* Requests.                                                               *)

\* A request of the API or the worker, and a refresh, that has read the database.
Arrived(t) ==
    open[t] # None /\ open[t].seen # None /\ open[t].token = None /\ open[t].issueFor = None
Refreshing(t) == open[t] # None /\ open[t].seen # None /\ open[t].token # None
Saw(t) == open[t].seen

Start(t, seen, token, client) ==
    /\ open[t] = None /\ calls < MaxCalls
    /\ open' = [open EXCEPT ![t] = [seen |-> seen, token |-> token, client |-> client,
                                    issueFor |-> None]]
    /\ calls' = calls + 1

Arrive(t) ==
    /\ Start(t, Db, None, None)
    /\ UNCHANGED <<now, db, device, ended, cut>>

Done(t) == open' = [open EXCEPT ![t] = None] /\ UNCHANGED calls

\* The tokens of a request's last step are still to be issued.
Continue(t, u) == open' = [open EXCEPT ![t].issueFor = u] /\ UNCHANGED calls

\* is_active is cleared when deleted_at is set, and nowhere else.
IsActive(row) == row # None /\ row.deletedAt = None

LiveSeen(t) == {k \in Token : Saw(t).tokens[k] # None /\ Saw(t).tokens[k].revokedAt = None}

\* _revoke_family, _revoke_all_sessions: the rows they select.
FamilySeen(t, k) == {j \in LiveSeen(t) : Saw(t).tokens[j].family = Saw(t).tokens[k].family}
SessionsSeen(t, u) == {j \in LiveSeen(t) : Saw(t).tokens[j].user = u}

Revoke(S) ==
    /\ \A k \in S : tokens[k] # None
    /\ tokens' = [k \in Token |-> IF k \in S THEN [tokens[k] EXCEPT !.revokedAt = now]
                                  ELSE tokens[k]]

\* Revoked because somebody wanted it.
RevokeWanted(S) == Revoke(S) /\ ended' = ended \cup S

\* Mutation: the token never expires.
NewTokenForever(u, f) ==
    [user |-> u, family |-> f, expires |-> None, revokedAt |-> None]

NewToken(u, f) ==
    [user |-> u, family |-> f, expires |-> now + TokenTTL, revokedAt |-> None]

\* Device d waits for request t, and still has the token it presented.
Waits(t, d) == open[t] # None /\ open[t].client # None /\ open[t].client[1] = d
Exchanging(t, d) == Waits(t, d) /\ open[t].token = device[d]

\* What the client does with the answer to the refresh it waits for.  When the
\* device has stored something else meanwhile, its answer may be the older one,
\* and stored first.
Answer(t, k) ==
    \/ \E d \in Devices : Waits(t, d) /\ device' = [device EXCEPT ![d] = k]
    \/ UNCHANGED device /\ \A d \in Devices : ~Exchanging(t, d)
-----------------------------------------------------------------------------
(* Signing up and in.                                                      *)

Taken(users_, n) == \E v \in Users : users_[v] # None /\ users_[v].name = n

Register(t, u, n) ==
    /\ Arrived(t) /\ ~Taken(Saw(t).users, n)
    /\ users[u] = None /\ ~Taken(users, n)
    /\ users' = [users EXCEPT ![u] = [name |-> n, deletedAt |-> None]]
    /\ Continue(t, u)
    /\ UNCHANGED <<now, tokens, links, issued, mailed, device, ended, cut>>

Login(t, u) ==
    /\ Arrived(t) /\ IsActive(Saw(t).users[u])
    /\ Continue(t, u)
    /\ UNCHANGED <<now, db, device, ended, cut>>

\* The answer reaches the device that asked, or is lost.
IssueTokens(t) ==
    /\ open[t] # None /\ open[t].issueFor # None
    /\ issued < MaxTokens /\ users[open[t].issueFor] # None
    /\ issued' = issued + 1
    /\ tokens' = [tokens EXCEPT ![issued + 1] = NewToken(open[t].issueFor, issued + 1)]
    /\ \/ \E d \in Devices : device' = [device EXCEPT ![d] = issued + 1]
       \/ UNCHANGED device
    /\ Done(t)
    /\ UNCHANGED <<now, users, links, mailed, ended, cut>>
-----------------------------------------------------------------------------
(* Refreshing: an ApiClient has one refresh in flight (refreshInFlight).   *)
(* The mobile app makes an ApiClient without its device id and one with it *)
(* at every launch, and asks who is signed in through both; in the browser *)
(* each tab has its own.  They share the stored token.                     *)

\* A token and the family it belongs to.
Lineage(k) == {k} \cup {tokens[j].family : j \in {i \in {k} : tokens[i] # None}}

\* Two clients of one device present one token.
Crossed(d, c) ==
    IF \E o \in Tx : Exchanging(o, d) /\ open[o].client # <<d, c>>
    THEN Lineage(device[d]) ELSE {}

\* Mutation: every 401 starts a refresh of its own.
SendTwice(t, d, c) ==
    /\ device[d] # None
    /\ Start(t, None, device[d], <<d, c>>)
    /\ cut' = cut \cup Crossed(d, c)
    /\ UNCHANGED <<now, db, device, ended>>

Send(t, d, c) ==
    /\ device[d] # None
    /\ \A o \in Tx : open[o] # None => open[o].client # <<d, c>>
    /\ Start(t, None, device[d], <<d, c>>)
    /\ cut' = cut \cup Crossed(d, c)
    /\ UNCHANGED <<now, db, device, ended>>

ReadToken(t) ==
    /\ open[t] # None /\ open[t].seen = None
    /\ open' = [open EXCEPT ![t].seen = Db]
    /\ UNCHANGED <<now, db, calls, device, ended, cut>>

Presented(t) == Saw(t).tokens[open[t].token]

Usable(t) ==
    /\ Refreshing(t) /\ Presented(t) # None
    /\ Presented(t).revokedAt = None /\ Presented(t).expires > now
    /\ IsActive(Saw(t).users[Presented(t).user])

\* Mutation: the client keeps what it had.
RefreshKeeps(t) ==
    /\ Usable(t) /\ issued < MaxTokens
    /\ tokens[open[t].token] # None
    /\ issued' = issued + 1
    /\ tokens' = [tokens EXCEPT ![open[t].token].revokedAt = now,
                                ![issued + 1] = NewToken(Presented(t).user, Presented(t).family)]
    /\ Answer(t, open[t].token)
    /\ Done(t)
    /\ UNCHANGED <<now, users, links, mailed, ended, cut>>

Refresh(t) ==
    /\ Usable(t) /\ issued < MaxTokens
    /\ tokens[open[t].token] # None
    /\ issued' = issued + 1
    /\ tokens' = [tokens EXCEPT ![open[t].token].revokedAt = now,
                                ![issued + 1] = NewToken(Presented(t).user, Presented(t).family)]
    /\ Answer(t, issued + 1)
    /\ Done(t)
    /\ UNCHANGED <<now, users, links, mailed, ended, cut>>

\* A used token ends its family, which nobody wanted; the client drops what
\* it has.
RefreshReused(t) ==
    LET family == FamilySeen(t, open[t].token)
    IN  /\ Refreshing(t) /\ Presented(t) # None
        /\ Presented(t).revokedAt # None
        /\ Revoke(family)
        /\ cut' = cut \cup {k \in family : tokens[k].family \in cut}
        /\ Answer(t, None)
        /\ Done(t)
        /\ UNCHANGED <<now, users, links, issued, mailed, ended>>

\* Every other end: refused, failed, or crashed.
Fail(t) ==
    /\ open[t] # None
    /\ Answer(t, None)
    /\ Done(t)
    /\ UNCHANGED <<now, db, ended, cut>>

\* A network error signs the device out; its request may still be served.
GiveUp(t) ==
    /\ \E d \in Devices : Waits(t, d) /\ device' = [device EXCEPT ![d] = None]
    /\ open' = [open EXCEPT ![t].client = None]
    /\ UNCHANGED <<now, db, calls, ended, cut>>

\* The app dies while it waits; what it has stored may be the token it sent.
Die(d) ==
    /\ \E t \in Tx : Waits(t, d)
    /\ open' = [t \in Tx |-> IF Waits(t, d) THEN [open[t] EXCEPT !.client = None] ELSE open[t]]
    /\ cut' = cut \cup IF \E t \in Tx : Exchanging(t, d) THEN Lineage(device[d]) ELSE {}
    /\ UNCHANGED <<now, db, calls, device, ended>>
-----------------------------------------------------------------------------
(* Signing out, passwords, deletion, renaming.                             *)

Logout(t, d) ==
    /\ Arrived(t) /\ device[d] # None
    /\ Saw(t).tokens[device[d]] # None
    /\ RevokeWanted(FamilySeen(t, device[d]))
    /\ device' = [device EXCEPT ![d] = None]
    /\ Done(t)
    /\ UNCHANGED <<now, users, links, issued, mailed, cut>>

ChangePassword(t, u) ==
    /\ Arrived(t) /\ IsActive(Saw(t).users[u]) /\ users[u] # None
    /\ RevokeWanted(SessionsSeen(t, u))
    /\ Continue(t, u)
    /\ UNCHANGED <<now, users, links, issued, mailed, device, cut>>

\* Links that are out are used up before a new one is mailed.
RequestReset(t, u) ==
    /\ Arrived(t) /\ IsActive(Saw(t).users[u]) /\ users[u] # None
    /\ mailed < MaxLinks
    /\ LET out == {l \in Link : /\ Saw(t).links[l] # None
                                /\ Saw(t).links[l].user = u /\ Saw(t).links[l].usedAt = None}
       IN  /\ \A l \in out : links[l] # None
           /\ links' = [l \in Link |->
                  IF l = mailed + 1 THEN [user |-> u, expires |-> now + LinkTTL, usedAt |-> None]
                  ELSE IF l \in out THEN [links[l] EXCEPT !.usedAt = now] ELSE links[l]]
    /\ mailed' = mailed + 1
    /\ Done(t)
    /\ UNCHANGED <<now, users, tokens, issued, device, ended, cut>>

ResetPassword(t, l) ==
    LET row == Saw(t).links[l]
    IN  /\ Arrived(t) /\ row # None
        /\ row.usedAt = None /\ row.expires > now /\ IsActive(Saw(t).users[row.user])
        /\ links[l] # None /\ users[row.user] # None
        /\ links' = [links EXCEPT ![l].usedAt = now]
        /\ RevokeWanted(SessionsSeen(t, row.user))
        /\ Done(t)
        /\ UNCHANGED <<now, users, issued, mailed, device, cut>>

DeleteAccount(t, u) ==
    /\ Arrived(t) /\ IsActive(Saw(t).users[u]) /\ users[u] # None
    /\ users' = [users EXCEPT ![u] = [name |-> None, deletedAt |-> now]]
    /\ RevokeWanted(SessionsSeen(t, u))
    /\ Done(t)
    /\ UNCHANGED <<now, links, issued, mailed, device, cut>>

\* update_profile: the name is looked up, and guarded by an index.
Rename(t, u, n) ==
    /\ Arrived(t) /\ IsActive(Saw(t).users[u]) /\ users[u] # None
    /\ ~Taken(Saw(t).users, n) /\ ~Taken(users, n)
    /\ users' = [users EXCEPT ![u].name = n]
    /\ Done(t)
    /\ UNCHANGED <<now, tokens, links, issued, mailed, device, ended, cut>>
-----------------------------------------------------------------------------
(* The purger: one transaction; an owner of a group cannot be deleted      *)
(* (study_groups.owner_id is ON DELETE RESTRICT), which fails all of it.   *)

Purge(t) ==
    LET gone == {u \in Users : /\ Saw(t).users[u] # None
                               /\ Saw(t).users[u].deletedAt # None
                               /\ Saw(t).users[u].deletedAt + Grace < now}
        old(k) == tokens[k].revokedAt # None /\ tokens[k].revokedAt + Retention < now
    IN  /\ Arrived(t)
        /\ gone \cap Owners = {}
        /\ users' = [u \in Users |-> IF u \in gone THEN None ELSE users[u]]
        /\ tokens' = [k \in Token |->
               IF tokens[k] # None /\ ~old(k) /\ tokens[k].user \notin gone THEN tokens[k]
               ELSE None]
        /\ links' = [l \in Link |->
               IF links[l] # None /\ links[l].expires >= now /\ links[l].user \notin gone
               THEN links[l] ELSE None]
        /\ Done(t)
        /\ ended' = ended \cup {k \in Token : tokens[k] # None /\ tokens[k].user \in gone}
        /\ UNCHANGED <<now, issued, mailed, device, cut>>

Tick ==
    /\ now < Horizon /\ now' = now + 1
    /\ UNCHANGED <<db, open, calls, device, ended, cut>>

Next ==
    \/ Tick
    \/ \E d \in Devices : Die(d)
    \/ \E t \in Tx :
          \/ Arrive(t) \/ ReadToken(t) \/ Refresh(t) \/ RefreshReused(t) \/ IssueTokens(t)
          \/ Purge(t) \/ Fail(t) \/ GiveUp(t)
          \/ \E d \in Devices : Logout(t, d) \/ \E c \in Clients : Send(t, d, c)
          \/ \E l \in Link : ResetPassword(t, l)
          \/ \E u \in Users :
                \/ Login(t, u) \/ ChangePassword(t, u) \/ RequestReset(t, u) \/ DeleteAccount(t, u)
                \/ \E n \in Names : Register(t, u, n) \/ Rename(t, u, n)

Spec == Init /\ [][Next]_vars
-----------------------------------------------------------------------------
\* The shape of the state.
TypeOK ==
    /\ now \in Nat /\ Db \in Tables
    /\ issued \in 0..MaxTokens /\ mailed \in 0..MaxLinks /\ calls \in 0..MaxCalls
    /\ open \in [Tx -> Maybe(Request)]
    /\ device \in [Devices -> Maybe(Token)]
    /\ ended \subseteq Token /\ cut \subseteq Token

IsLive(k) == tokens[k] # None /\ tokens[k].revokedAt = None

(* A device stays signed in, whatever the account's other devices, late    *)
(* requests, reuse detection, the purger and other accounts do: the token  *)
(* it has stored is revoked only on purpose (sign-out, password, deletion),*)
(* or after an exchange in which its app died or two of its clients        *)
(* presented one token (mobile AuthProvider.tsx:37-61, 64-88).             *)
StaysSignedIn ==
    \A d \in Devices :
        device[d] # None => IsLive(device[d]) \/ device[d] \in ended \cup cut

(* Rotation: a session has one usable token, however late its requests are *)
(* served (client.ts:102, "a burst of requests triggers one refresh"),     *)
(* except after such an exchange: the single flight is of a client, and a  *)
(* launch makes two.                                                       *)
OneLivePerFamily ==
    \A j, k \in Token :
        (IsLive(j) /\ IsLive(k) /\ tokens[j].family = tokens[k].family)
            => j = k \/ tokens[j].family \in cut
=============================================================================
