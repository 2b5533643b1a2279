---------------------------- MODULE Accounts_proofs ----------------------------
(***************************************************************************)
(* Refresh tokens, for any number of users, devices, requests and tokens.  *)
(*                                                                         *)
(* A family that was never cut has one place where it goes on: the one     *)
(* device that holds a token of it, or the one refresh that presents one;  *)
(* when there are both, the device waits for that refresh and holds the    *)
(* token it presented.  So its usable token is the one that place has.     *)
(***************************************************************************)
EXTENDS Accounts, TLAPS

\* Tokens are numbered as they are issued; the first of a family names it.
TokensOK ==
    \A k \in Token : tokens[k] # None =>
        /\ k <= issued /\ tokens[k].family <= issued
        /\ tokens[tokens[k].family] # None =>
               tokens[tokens[k].family].family = tokens[k].family

\* A cut is a cut of the family.
CutOK ==
    \A k \in cut : k <= issued /\ (tokens[k] # None => tokens[k].family \in cut)

DevicesOK ==
    /\ \A d \in Devices : device[d] # None => device[d] <= issued
    /\ \A d, e \in Devices : device[d] # None /\ device[d] = device[e] => d = e

\* What a request read of a token stays true of it while it is there.
SeenOK(t) ==
    open[t].seen # None => \A k \in Token : open[t].seen.tokens[k] # None =>
        /\ k <= issued /\ open[t].seen.tokens[k].family <= issued
        /\ tokens[k] # None =>
               /\ tokens[k].family = open[t].seen.tokens[k].family
               /\ open[t].seen.tokens[k].revokedAt # None => tokens[k].revokedAt # None

\* A refresh is no other request, and who holds its token waits for it.
RequestOK(t) ==
    /\ open[t].token # None => open[t].issueFor = None /\ open[t].token <= issued
    /\ open[t].client # None => open[t].token # None
    /\ SeenOK(t)
    /\ \A d \in Devices : open[t].token # None /\ device[d] = open[t].token =>
           Waits(t, d) \/ open[t].token \in cut

RequestsOK == \A t \in Tx : open[t] # None => RequestOK(t)

\* The row of the token a refresh presents, as it sees it, or will.
Row(t) == IF open[t].seen = None THEN tokens[open[t].token] ELSE open[t].seen.tokens[open[t].token]

\* A refresh, and a device, whose token is known.
Presents(t) == open[t] # None /\ open[t].token # None /\ Row(t) # None
Holds(d) == device[d] # None /\ tokens[device[d]] # None
HeldFamily(d) == tokens[device[d]].family

\* Where a family goes on: one refresh, one device, and the usable token is theirs.
OneRefresh ==
    /\ \A t \in Tx, k \in Token :
           Presents(t) /\ IsLive(k) /\ tokens[k].family = Row(t).family =>
               k = open[t].token \/ Row(t).family \in cut
    /\ \A t, o \in Tx :
           Presents(t) /\ Presents(o) /\ Row(t).family = Row(o).family =>
               t = o \/ Row(t).family \in cut

OneHolder ==
    /\ \A d \in Devices, k \in Token :
           Holds(d) /\ IsLive(k) /\ tokens[k].family = HeldFamily(d) =>
               k = device[d] \/ HeldFamily(d) \in cut
    /\ \A d, e \in Devices :
           Holds(d) /\ Holds(e) /\ HeldFamily(d) = HeldFamily(e) =>
               d = e \/ HeldFamily(d) \in cut
    /\ \A t \in Tx, d \in Devices :
           Presents(t) /\ Holds(d) /\ HeldFamily(d) = Row(t).family =>
               device[d] = open[t].token \/ Row(t).family \in cut

OneChance == OneLivePerFamily /\ OneRefresh /\ OneHolder

IInv ==
    /\ TypeOK /\ TokensOK /\ CutOK /\ DevicesOK /\ RequestsOK
    /\ StaysSignedIn /\ OneChance
-----------------------------------------------------------------------------
(* Types.                                                                  *)

LEMMA Typed ==
    ASSUME TypeOK
    PROVE  /\ now \in Nat
           /\ users \in [Users -> Maybe(UserRow)] /\ tokens \in [Token -> Maybe(TokenRow)]
           /\ links \in [Link -> Maybe(LinkRow)]
           /\ issued \in 0..MaxTokens /\ mailed \in 0..MaxLinks /\ calls \in 0..MaxCalls
           /\ open \in [Tx -> Maybe(Request)]
           /\ device \in [Devices -> Maybe(Token)]
           /\ Db \in Tables
BY DEF TypeOK, Db, Tables, Request

\* What a request has read.
LEMMA SawTyped ==
    ASSUME TypeOK, NEW t \in Tx, open[t] # None, open[t].seen # None
    PROVE  /\ open[t] \in Request
           /\ Saw(t).users \in [Users -> Maybe(UserRow)]
           /\ Saw(t).tokens \in [Token -> Maybe(TokenRow)]
           /\ Saw(t).links \in [Link -> Maybe(LinkRow)]
<1>1. open[t] \in Request
  BY Typed DEF Maybe
<1>2. Saw(t) \in Tables
  BY <1>1 DEF Saw, Request, Maybe
<1> QED BY <1>1, <1>2 DEF Tables

LEMMA NoneIs ==
    /\ None \notin Nat /\ None \notin Token /\ None \notin Users /\ None \notin Tx
    /\ None \notin Devices \X Clients
    /\ None \notin UserRow /\ None \notin TokenRow /\ None \notin LinkRow
BY AccountsAssumption, NoneIsNoRow DEF Token

\* Rows of a token table, revoked or removed.
LEMMA RevokeTyped ==
    ASSUME TypeOK, NEW S, Revoke(S)
    PROVE  /\ tokens' \in [Token -> Maybe(TokenRow)]
           /\ \A k \in Token : k \notin S => tokens'[k] = tokens[k]
           /\ \A k \in Token \cap S :
                  /\ tokens[k] # None /\ tokens'[k] # None
                  /\ tokens'[k].family = tokens[k].family
                  /\ tokens'[k].revokedAt # None
<1>1. /\ tokens \in [Token -> Maybe(TokenRow)] /\ now \in Nat
      /\ tokens' = [k \in Token |-> IF k \in S THEN [tokens[k] EXCEPT !.revokedAt = now]
                                     ELSE tokens[k]]
      /\ \A k \in S : tokens[k] # None
  BY Typed DEF Revoke
<1>2. ASSUME NEW k \in Token \cap S
      PROVE  /\ tokens[k] # None /\ tokens'[k] \in TokenRow
             /\ tokens'[k].family = tokens[k].family /\ tokens'[k].revokedAt # None
  <2>1. tokens[k] \in TokenRow /\ tokens[k] # None
    BY <1>1, <1>2 DEF Maybe
  <2>2. tokens'[k] = [tokens[k] EXCEPT !.revokedAt = now]
    BY <1>1, <1>2
  <2>3. /\ tokens'[k] \in TokenRow /\ tokens'[k].family = tokens[k].family
        /\ tokens'[k].revokedAt = now
    BY <1>1, <2>1, <2>2 DEF TokenRow, Maybe
  <2> QED BY <1>1, <2>1, <2>3, NoneIs
<1>3. \A k \in Token : k \notin S => tokens'[k] = tokens[k]
  BY <1>1
<1>4. tokens' \in [Token -> Maybe(TokenRow)]
  <2>1. DOMAIN tokens' = Token /\ tokens' = [k \in Token |-> tokens'[k]]
    BY <1>1
  <2>2. \A k \in Token : tokens'[k] \in Maybe(TokenRow)
    BY <1>1, <1>2, <1>3 DEF Maybe
  <2> QED BY <2>1, <2>2
<1>5. \A k \in Token \cap S : tokens'[k] # None
  BY <1>2, NoneIs
<1> QED BY <1>1, <1>2, <1>3, <1>4, <1>5

LEMMA NewTokenTyped ==
    ASSUME TypeOK, NEW u \in Users, NEW f \in Token
    PROVE  /\ NewToken(u, f) \in TokenRow
           /\ NewToken(u, f).family = f /\ NewToken(u, f).revokedAt = None
BY Typed, AccountsAssumption DEF NewToken, TokenRow, Maybe

\* What the steps of a request do to the requests and to who waits.
LEMMA DoneTyped ==
    ASSUME TypeOK, NEW t \in Tx, Done(t)
    PROVE  open' \in [Tx -> Maybe(Request)] /\ calls' = calls
BY Typed DEF Done, Maybe

LEMMA ContinueTyped ==
    ASSUME TypeOK, NEW t \in Tx, NEW u \in Users, open[t] # None, Continue(t, u)
    PROVE  open' \in [Tx -> Maybe(Request)] /\ calls' = calls
<1>1. open[t] \in Request /\ open \in [Tx -> Maybe(Request)]
  BY Typed DEF Maybe
<1>2. [open[t] EXCEPT !.issueFor = u] \in Request
  BY <1>1 DEF Request, Maybe
<1> QED BY <1>1, <1>2 DEF Continue, Maybe

LEMMA StartTyped ==
    ASSUME TypeOK, NEW t \in Tx, NEW seen \in Maybe(Tables), NEW k \in Maybe(Token),
           NEW c \in Maybe(Devices \X Clients), Start(t, seen, k, c)
    PROVE  open' \in [Tx -> Maybe(Request)] /\ calls' \in 0..MaxCalls
<1>1. [seen |-> seen, token |-> k, client |-> c, issueFor |-> None] \in Request
  BY DEF Request, Maybe
<1>2. open' \in [Tx -> Maybe(Request)]
  BY <1>1, Typed DEF Start, Maybe
<1>3. calls \in 0..MaxCalls /\ calls < MaxCalls /\ calls' = calls + 1
  BY Typed DEF Start
<1> QED BY <1>2, <1>3, AccountsAssumption

LEMMA AnswerTyped ==
    ASSUME TypeOK, NEW t \in Tx, NEW k \in Maybe(Token), Answer(t, k)
    PROVE  device' \in [Devices -> Maybe(Token)]
BY Typed DEF Answer, Maybe

LEMMA FromParts ==
    ASSUME now' \in Nat,
           users' \in [Users -> Maybe(UserRow)], tokens' \in [Token -> Maybe(TokenRow)],
           links' \in [Link -> Maybe(LinkRow)],
           issued' \in 0..MaxTokens, mailed' \in 0..MaxLinks, calls' \in 0..MaxCalls,
           open' \in [Tx -> Maybe(Request)],
           device' \in [Devices -> Maybe(Token)],
           ended' \subseteq Token, cut' \subseteq Token
    PROVE  TypeOK'
BY DEF TypeOK, Db, Tables, Request

LEMMA Selected ==
    ASSUME NEW t \in Tx
    PROVE  /\ \A k \in Token : FamilySeen(t, k) \subseteq Token
           /\ \A u \in Users : SessionsSeen(t, u) \subseteq Token
BY DEF FamilySeen, SessionsSeen, LiveSeen

\* Rows of users, changed in one place.
LEMMA UserTyped ==
    ASSUME TypeOK, NEW u \in Users, users[u] # None, NEW n \in Names
    PROVE  [users EXCEPT ![u].name = n] \in [Users -> Maybe(UserRow)]
<1>1. users \in [Users -> Maybe(UserRow)] /\ users[u] \in UserRow
  BY Typed DEF Maybe
<1>2. [users[u] EXCEPT !.name = n] \in UserRow
  BY <1>1 DEF UserRow, Maybe
<1> QED BY <1>1, <1>2 DEF Maybe

LEMMA RefreshTyped ==
    ASSUME TypeOK, NEW t \in Tx, Refresh(t)
    PROVE  /\ open[t].token \in Token /\ tokens[open[t].token] # None
           /\ issued + 1 \in Token /\ issued' = issued + 1 /\ issued' \in 0..MaxTokens
           /\ Presented(t) \in TokenRow /\ Presented(t) # None /\ Presented(t).revokedAt = None
           /\ tokens' \in [Token -> Maybe(TokenRow)]
           /\ open[t].token # issued + 1 =>
                  /\ tokens'[open[t].token] # None
                  /\ tokens'[open[t].token].revokedAt # None
                  /\ tokens'[open[t].token].family = tokens[open[t].token].family
           /\ tokens'[issued + 1] # None /\ tokens'[issued + 1].revokedAt = None
           /\ tokens'[issued + 1].family = Presented(t).family
           /\ \A k \in Token \ {open[t].token, issued + 1} : tokens'[k] = tokens[k]
<1> DEFINE j == open[t].token
           n == NewToken(Presented(t).user, Presented(t).family)
<1>1. /\ open[t] # None /\ open[t].seen # None /\ open[t].token # None
      /\ Presented(t) # None /\ Presented(t).revokedAt = None
      /\ issued < MaxTokens /\ tokens[j] # None /\ issued' = issued + 1
      /\ tokens' = [tokens EXCEPT ![j].revokedAt = now, ![issued + 1] = n]
  BY DEF Refresh, Usable, Refreshing
<1>2. j \in Token
  BY <1>1, SawTyped DEF Request, Maybe
<1>3. Presented(t) \in TokenRow
  BY <1>1, <1>2, SawTyped DEF Presented, Maybe
<1>4. issued + 1 \in Token /\ issued' \in 0..MaxTokens
  BY <1>1, Typed, AccountsAssumption DEF Token
<1>5. n \in TokenRow /\ n.family = Presented(t).family /\ n.revokedAt = None /\ n # None
  <2>1. Presented(t).user \in Users /\ Presented(t).family \in Token
    BY <1>3 DEF TokenRow
  <2> QED BY <2>1, NewTokenTyped, NoneIs
<1>6. tokens[j] \in TokenRow /\ tokens \in [Token -> Maybe(TokenRow)] /\ now \in Nat
  BY <1>1, <1>2, Typed DEF Maybe
<1> DEFINE r == [tokens[j] EXCEPT !.revokedAt = now]
<1>7. r \in TokenRow /\ r.family = tokens[j].family /\ r.revokedAt = now /\ now # None /\ r # None
  BY <1>6, NoneIs DEF TokenRow, Maybe
<1>8. tokens' = [[tokens EXCEPT ![j] = r] EXCEPT ![issued + 1] = n]
  BY <1>1
<1> HIDE DEF n, r
<1>9. tokens' \in [Token -> Maybe(TokenRow)]
  BY <1>2, <1>4, <1>5, <1>6, <1>7, <1>8 DEF Maybe
<1>10. /\ tokens'[issued + 1] = n
       /\ j # issued + 1 => tokens'[j] = r
       /\ \A k \in Token \ {j, issued + 1} : tokens'[k] = tokens[k]
  BY <1>2, <1>4, <1>6, <1>8
<1> QED BY <1>1, <1>2, <1>3, <1>4, <1>5, <1>7, <1>9, <1>10

LEMMA IssueTyped ==
    ASSUME TypeOK, NEW t \in Tx, IssueTokens(t)
    PROVE  /\ issued + 1 \in Token /\ issued' = issued + 1 /\ issued' \in 0..MaxTokens
           /\ tokens' \in [Token -> Maybe(TokenRow)]
           /\ tokens'[issued + 1] # None /\ tokens'[issued + 1].revokedAt = None
           /\ tokens'[issued + 1].family = issued + 1
           /\ \A k \in Token \ {issued + 1} : tokens'[k] = tokens[k]
<1> DEFINE n == NewToken(open[t].issueFor, issued + 1)
<1>1. /\ open[t] # None /\ open[t].issueFor # None /\ issued < MaxTokens /\ issued' = issued + 1
      /\ tokens' = [tokens EXCEPT ![issued + 1] = n]
  BY DEF IssueTokens
<1>2. open[t].issueFor \in Users
  BY <1>1, Typed DEF Request, Maybe
<1>3. issued + 1 \in Token /\ issued' \in 0..MaxTokens
  BY <1>1, Typed, AccountsAssumption DEF Token
<1>4. n \in TokenRow /\ n.family = issued + 1 /\ n.revokedAt = None /\ n # None
  BY <1>2, <1>3, NewTokenTyped, NoneIs
<1> HIDE DEF n
<1> QED BY <1>1, <1>3, <1>4, Typed DEF Maybe
-----------------------------------------------------------------------------
\* A request and a device, and what they present and hold.
Parts == TokensOK /\ CutOK /\ DevicesOK /\ RequestsOK /\ StaysSignedIn /\ OneChance

LEMMA RequestTyped ==
    ASSUME TypeOK, NEW t \in Tx, open[t] # None
    PROVE  /\ open[t] \in Request
           /\ open[t].token # None => open[t].token \in Token
           /\ open[t].client # None => open[t].client \in Devices \X Clients
BY Typed DEF Request, Maybe

LEMMA DeviceTyped ==
    ASSUME TypeOK, NEW d \in Devices
    PROVE  device[d] # None => device[d] \in Token
BY Typed DEF Maybe

\* What is known of the token a refresh presents.
LEMMA PresentsTyped ==
    ASSUME TypeOK, Parts, NEW t \in Tx, Presents(t)
    PROVE  /\ open[t].token \in Token /\ open[t].token <= issued
           /\ Row(t).family \in Token /\ Row(t).family <= issued
           /\ tokens[open[t].token] # None => tokens[open[t].token].family = Row(t).family
<1>1. /\ open[t] # None /\ open[t].token # None /\ open[t].token \in Token
      /\ Row(t) # None /\ RequestOK(t)
  BY RequestTyped DEF Presents, Parts, RequestsOK
<1>2. open[t].token <= issued /\ SeenOK(t)
  BY <1>1 DEF RequestOK
<1>3. Row(t) \in TokenRow
  <2>1. CASE open[t].seen = None
    BY <1>1, <2>1, Typed DEF Row, Maybe
  <2>2. CASE open[t].seen # None
    BY <1>1, <2>2, SawTyped DEF Row, Maybe, Saw
  <2> QED BY <2>1, <2>2
<1>4. Row(t).family <= issued
  <2>1. CASE open[t].seen = None
    BY <1>1, <2>1 DEF Row, Parts, TokensOK
  <2>2. CASE open[t].seen # None
    BY <1>1, <1>2, <2>2 DEF Row, SeenOK
  <2> QED BY <2>1, <2>2
<1>5. tokens[open[t].token] # None => tokens[open[t].token].family = Row(t).family
  <2>1. CASE open[t].seen = None
    BY <2>1 DEF Row
  <2>2. CASE open[t].seen # None
    BY <1>1, <1>2, <2>2 DEF Row, SeenOK
  <2> QED BY <2>1, <2>2
<1> QED BY <1>1, <1>2, <1>3, <1>4, <1>5 DEF TokenRow

LEMMA HoldsTyped ==
    ASSUME TypeOK, Parts, NEW d \in Devices, Holds(d)
    PROVE  /\ device[d] \in Token /\ device[d] <= issued
           /\ HeldFamily(d) \in Token /\ HeldFamily(d) <= issued
<1>1. device[d] \in Token /\ tokens[device[d]] # None
  BY DeviceTyped DEF Holds
<1>2. tokens[device[d]] \in TokenRow
  BY <1>1, Typed DEF Maybe
<1> QED BY <1>1, <1>2 DEF Parts, DevicesOK, TokensOK, HeldFamily, TokenRow, Holds

\* A device holds the token a refresh presents, or the family was cut.
LEMMA HolderWaits ==
    ASSUME TypeOK, Parts, NEW t \in Tx, NEW d \in Devices, Presents(t), Holds(d),
           HeldFamily(d) = Row(t).family
    PROVE  (device[d] = open[t].token /\ Waits(t, d)) \/ Row(t).family \in cut
<1>1. device[d] = open[t].token \/ Row(t).family \in cut
  BY DEF Parts, OneChance, OneHolder
<1>2. CASE device[d] = open[t].token
  <2>1. RequestOK(t)
    BY DEF Presents, Parts, RequestsOK
  <2>2. Waits(t, d) \/ device[d] \in cut
    BY <1>2, <2>1 DEF RequestOK, Presents
  <2>3. device[d] \in cut => HeldFamily(d) \in cut
    BY DEF Parts, CutOK, Holds, HeldFamily
  <2> QED BY <1>2, <2>2, <2>3
<1> QED BY <1>1, <1>2
-----------------------------------------------------------------------------
(* The steps that issue nothing and start no refresh.                      *)

TokensQuiet ==
    /\ issued' = issued /\ ended \subseteq ended' /\ cut \subseteq cut' /\ cut' \subseteq Token
    /\ \A k \in cut' : k \in cut \/ (tokens[k] # None /\ tokens[k].family \in cut)
    /\ \A k \in Token : tokens'[k] # None =>
           /\ tokens[k] # None /\ tokens'[k].family = tokens[k].family
           /\ tokens'[k].revokedAt = None => tokens[k].revokedAt = None
    /\ \A k \in Token : IsLive(k) => IsLive(k)' \/ k \in ended' \cup cut'

\* A request ends, goes on as one that is no refresh, or is waited for no more.
OpenQuiet ==
    \A t \in Tx :
        \/ open'[t] = None
        \/ open'[t] = open[t]
        \/ /\ open'[t].token = None /\ open'[t].client = None
           /\ \/ open'[t].seen = Db
              \/ open[t] # None /\ open'[t].seen = open[t].seen
        \/ /\ open[t] # None /\ open'[t] = [open[t] EXCEPT !.client = None]
           /\ \A d \in Devices : Waits(t, d) => device'[d] = None

DevicesQuiet == \A d \in Devices : device'[d] \in {None, device[d]}

Quiet == TokensQuiet /\ OpenQuiet /\ DevicesQuiet

LEMMA SameTokens ==
    ASSUME TypeOK, UNCHANGED <<tokens, issued, cut, ended>>
    PROVE  TokensQuiet
BY DEF TokensQuiet, IsLive, TypeOK

LEMMA RevokeQuiet ==
    ASSUME TypeOK, NEW S, Revoke(S), S \subseteq Token,
           issued' = issued, ended \subseteq ended', cut \subseteq cut', cut' \subseteq Token,
           \A k \in cut' : k \in cut \/ (tokens[k] # None /\ tokens[k].family \in cut),
           \A k \in S : IsLive(k) => k \in ended' \cup cut'
    PROVE  TokensQuiet
<1>1. /\ \A k \in Token : k \notin S => tokens'[k] = tokens[k]
      /\ \A k \in Token \cap S : /\ tokens[k] # None /\ tokens'[k] # None
                                 /\ tokens'[k].family = tokens[k].family
                                 /\ tokens'[k].revokedAt # None
  BY RevokeTyped
<1>2. \A k \in Token : tokens'[k] # None =>
          /\ tokens[k] # None /\ tokens'[k].family = tokens[k].family
          /\ tokens'[k].revokedAt = None => tokens[k].revokedAt = None
  <2> TAKE k \in Token
  <2>1. CASE k \in S
    BY <1>1, <2>1
  <2>2. CASE k \notin S
    BY <1>1, <2>2
  <2> QED BY <2>1, <2>2
<1>3. \A k \in Token : IsLive(k) => IsLive(k)' \/ k \in ended' \cup cut'
  BY <1>1 DEF IsLive
<1> QED BY <1>2, <1>3 DEF TokensQuiet

\* A request that is no refresh ends or goes on: nobody waits for it.
LEMMA PlainQuiet ==
    ASSUME TypeOK, Parts, NEW t \in Tx, Arrived(t),
           Done(t) \/ \E u \in Users : Continue(t, u),
           UNCHANGED device \/ \E d \in Devices : device' = [device EXCEPT ![d] = None]
    PROVE  /\ OpenQuiet /\ DevicesQuiet
           /\ open' \in [Tx -> Maybe(Request)] /\ calls' = calls
           /\ device' \in [Devices -> Maybe(Token)]
<1>1. /\ open \in [Tx -> Maybe(Request)] /\ open[t] # None /\ open[t].token = None
      /\ device \in [Devices -> Maybe(Token)]
      /\ open[t] \in Request
  BY Typed DEF Arrived, Maybe
<1>2. open' \in [Tx -> Maybe(Request)] /\ calls' = calls
  BY <1>1, DoneTyped, ContinueTyped
<1>3. open[t].client = None
  BY <1>1 DEF Parts, RequestsOK, RequestOK
<1>4. /\ \A o \in Tx \ {t} : open'[o] = open[o]
      /\ \/ open'[t] = None
         \/ open'[t].token = None /\ open'[t].client = None /\ open'[t].seen = open[t].seen
  <2>1. CASE Done(t)
    BY <1>1, <2>1 DEF Done
  <2>2. ASSUME NEW u \in Users, Continue(t, u)
        PROVE  /\ \A o \in Tx \ {t} : open'[o] = open[o]
               /\ open'[t].token = None /\ open'[t].client = None /\ open'[t].seen = open[t].seen
    <3>1. open' = [open EXCEPT ![t] = [open[t] EXCEPT !.issueFor = u]]
      BY <1>1, <2>2 DEF Continue
    <3> QED BY <1>1, <1>3, <3>1 DEF Request
  <2> QED BY <2>1, <2>2
<1>5. OpenQuiet
  BY <1>1, <1>4 DEF OpenQuiet
<1>6. device' \in [Devices -> Maybe(Token)] /\ DevicesQuiet
  BY <1>1 DEF DevicesQuiet, Maybe
<1> QED BY <1>2, <1>5, <1>6

\* The devices that wait for a request hear that it failed.
LEMMA AnswerQuiet ==
    ASSUME TypeOK, NEW t \in Tx, open[t] # None, Answer(t, None), Done(t)
    PROVE  /\ OpenQuiet /\ DevicesQuiet
           /\ open' \in [Tx -> Maybe(Request)] /\ calls' = calls
           /\ device' \in [Devices -> Maybe(Token)]
<1>1. open \in [Tx -> Maybe(Request)] /\ device \in [Devices -> Maybe(Token)]
  BY Typed
<1>2. /\ open' \in [Tx -> Maybe(Request)] /\ calls' = calls
      /\ device' \in [Devices -> Maybe(Token)]
  BY DoneTyped, AnswerTyped DEF Maybe
<1>3. \A o \in Tx : open'[o] = IF o = t THEN None ELSE open[o]
  BY <1>1 DEF Done
<1>4. DevicesQuiet
  BY <1>1 DEF Answer, DevicesQuiet
<1> QED BY <1>2, <1>3, <1>4 DEF OpenQuiet

QuietActions ==
    \/ Tick
    \/ \E t \in Tx :
          \/ Arrive(t) \/ RefreshReused(t) \/ Purge(t) \/ Fail(t) \/ GiveUp(t)
          \/ \E d \in Devices : Logout(t, d)
          \/ \E l \in Link : ResetPassword(t, l)
          \/ \E u \in Users :
                \/ Login(t, u) \/ ChangePassword(t, u) \/ RequestReset(t, u) \/ DeleteAccount(t, u)
                \/ \E n \in Names : Register(t, u, n) \/ Rename(t, u, n)

\* Ending requests that revoke tokens.
LEMMA Revoking ==
    ASSUME TypeOK, Parts, NEW t \in Tx, NEW S \in SUBSET Token, Arrived(t), RevokeWanted(S),
           Done(t) \/ \E u \in Users : Continue(t, u),
           UNCHANGED device \/ \E d \in Devices : device' = [device EXCEPT ![d] = None],
           UNCHANGED <<now, issued, mailed, cut>>,
           users' \in [Users -> Maybe(UserRow)], links' \in [Link -> Maybe(LinkRow)]
    PROVE  TypeOK' /\ Quiet
<1>1. Revoke(S) /\ ended' = ended \cup S /\ cut \subseteq Token /\ ended \subseteq Token
  BY DEF RevokeWanted, TypeOK
<1>2. TokensQuiet /\ tokens' \in [Token -> Maybe(TokenRow)]
  BY <1>1, RevokeQuiet, RevokeTyped
<1>3. /\ OpenQuiet /\ DevicesQuiet
      /\ open' \in [Tx -> Maybe(Request)] /\ calls' = calls
      /\ device' \in [Devices -> Maybe(Token)]
  BY PlainQuiet
<1>4. /\ now' \in Nat /\ issued' \in 0..MaxTokens /\ mailed' \in 0..MaxLinks
      /\ calls' \in 0..MaxCalls /\ ended' \subseteq Token /\ cut' \subseteq Token
  BY <1>1, <1>3, Typed
<1> QED BY <1>2, <1>3, <1>4, FromParts DEF Quiet

\* Requests that revoke nothing.
LEMMA Plain ==
    ASSUME TypeOK, Parts, NEW t \in Tx, Arrived(t),
           Done(t) \/ \E u \in Users : Continue(t, u),
           UNCHANGED <<now, tokens, issued, device, ended, cut>>,
           users' \in [Users -> Maybe(UserRow)], links' \in [Link -> Maybe(LinkRow)],
           mailed' \in 0..MaxLinks
    PROVE  TypeOK' /\ Quiet
<1>1. TokensQuiet
  BY SameTokens
<1>2. /\ OpenQuiet /\ DevicesQuiet
      /\ open' \in [Tx -> Maybe(Request)] /\ calls' = calls
      /\ device' \in [Devices -> Maybe(Token)]
  BY PlainQuiet
<1>3. /\ now' \in Nat /\ issued' \in 0..MaxTokens /\ tokens' \in [Token -> Maybe(TokenRow)]
      /\ calls' \in 0..MaxCalls /\ ended' \subseteq Token /\ cut' \subseteq Token
  BY <1>2, Typed DEF TypeOK
<1> QED BY <1>1, <1>2, <1>3, FromParts DEF Quiet

LEMMA LinksTyped ==
    ASSUME TypeOK
    PROVE  /\ \A l \in Link : links[l] # None =>
                  [links EXCEPT ![l].usedAt = now] \in [Link -> Maybe(LinkRow)]
           /\ \A t \in Tx, u \in Users : RequestReset(t, u) =>
                  links' \in [Link -> Maybe(LinkRow)] /\ mailed' \in 0..MaxLinks
<1>1. /\ links \in [Link -> Maybe(LinkRow)] /\ now \in Nat /\ mailed \in 0..MaxLinks
      /\ MaxLinks \in Nat /\ LinkTTL \in Nat
  BY Typed, AccountsAssumption
<1>2. \A l \in Link : links[l] # None => [links[l] EXCEPT !.usedAt = now] \in LinkRow
  BY <1>1 DEF LinkRow, Maybe
<1>3. \A l \in Link : links[l] # None =>
          [links EXCEPT ![l].usedAt = now] \in [Link -> Maybe(LinkRow)]
  <2> TAKE l \in Link
  <2> DEFINE r == [links[l] EXCEPT !.usedAt = now]
  <2>1. [links EXCEPT ![l].usedAt = now] = [links EXCEPT ![l] = r]
    OBVIOUS
  <2>2. links[l] # None => r \in LinkRow
    BY <1>2
  <2> HIDE DEF r
  <2> QED BY <1>1, <2>1, <2>2 DEF Maybe
<1>4. ASSUME NEW t \in Tx, NEW u \in Users, RequestReset(t, u)
      PROVE  links' \in [Link -> Maybe(LinkRow)] /\ mailed' \in 0..MaxLinks
  <2>1. /\ mailed < MaxLinks /\ mailed' = mailed + 1
        /\ \E out \in SUBSET Link :
              /\ \A l \in out : links[l] # None
              /\ links' = [l \in Link |->
                     IF l = mailed + 1 THEN [user |-> u, expires |-> now + LinkTTL, usedAt |-> None]
                     ELSE IF l \in out THEN [links[l] EXCEPT !.usedAt = now] ELSE links[l]]
    BY <1>4 DEF RequestReset
  <2>2. [user |-> u, expires |-> now + LinkTTL, usedAt |-> None] \in LinkRow
    BY <1>1 DEF LinkRow, Maybe
  <2>3. PICK out \in SUBSET Link :
            /\ \A l \in out : links[l] # None
            /\ links' = [l \in Link |->
                   IF l = mailed + 1 THEN [user |-> u, expires |-> now + LinkTTL, usedAt |-> None]
                   ELSE IF l \in out THEN [links[l] EXCEPT !.usedAt = now] ELSE links[l]]
    BY <2>1
  <2>4. \A l \in Link : links'[l] \in Maybe(LinkRow)
    BY <1>1, <1>2, <2>2, <2>3 DEF Maybe
  <2>5. links' = [l \in Link |-> links'[l]]
    BY <2>3
  <2> QED BY <1>1, <2>1, <2>4, <2>5
<1> QED BY <1>3, <1>4

LEMMA QuietStep ==
    ASSUME TypeOK, Parts, QuietActions
    PROVE  TypeOK' /\ Quiet
<1>0. /\ users \in [Users -> Maybe(UserRow)] /\ links \in [Link -> Maybe(LinkRow)]
      /\ tokens \in [Token -> Maybe(TokenRow)]
      /\ now \in Nat /\ issued \in 0..MaxTokens /\ mailed \in 0..MaxLinks /\ calls \in 0..MaxCalls
      /\ open \in [Tx -> Maybe(Request)]
      /\ device \in [Devices -> Maybe(Token)]
      /\ ended \subseteq Token /\ cut \subseteq Token /\ Db \in Tables
  BY Typed DEF TypeOK
<1>1. CASE Tick
  <2>1. TypeOK'
    BY <1>0, <1>1, FromParts DEF Tick, db
  <2>2. TokensQuiet
    BY <1>1, SameTokens DEF Tick, db
  <2> QED BY <1>1, <2>1, <2>2 DEF Tick, db, Quiet, OpenQuiet, DevicesQuiet
<1>2. ASSUME NEW t \in Tx, GiveUp(t) PROVE TypeOK' /\ Quiet
  <2>1. PICK d \in Devices : Waits(t, d) /\ device' = [device EXCEPT ![d] = None]
    BY <1>2 DEF GiveUp
  <2>2. /\ open[t] # None /\ open[t] \in Request
        /\ open' = [open EXCEPT ![t] = [open[t] EXCEPT !.client = None]]
        /\ UNCHANGED <<now, db, calls, ended, cut>>
    BY <1>0, <1>2, <2>1 DEF GiveUp, Waits, Maybe
  <2>3. [open[t] EXCEPT !.client = None] \in Request
    BY <2>2 DEF Request, Maybe
  <2>4. open' \in [Tx -> Maybe(Request)] /\ device' \in [Devices -> Maybe(Token)]
    BY <1>0, <2>1, <2>2, <2>3 DEF Maybe
  <2>5. TypeOK'
    BY <1>0, <2>2, <2>4, FromParts DEF db
  <2>6. TokensQuiet
    BY <2>2, SameTokens DEF db
  <2>7. \A e \in Devices : Waits(t, e) => e = d
    BY <2>1 DEF Waits
  <2>8. OpenQuiet /\ DevicesQuiet
    BY <1>0, <2>1, <2>2, <2>7 DEF OpenQuiet, DevicesQuiet
  <2> QED BY <2>5, <2>6, <2>8 DEF Quiet
<1>3. ASSUME NEW t \in Tx, Arrive(t) PROVE TypeOK' /\ Quiet
  <2>1. open' \in [Tx -> Maybe(Request)] /\ calls' \in 0..MaxCalls
    BY <1>0, <1>3, StartTyped DEF Arrive, Maybe
  <2>2. TypeOK'
    BY <1>0, <1>3, <2>1, FromParts DEF Arrive, db
  <2>3. TokensQuiet
    BY <1>3, SameTokens DEF Arrive, db
  <2>4. /\ device' = device
        /\ open' = [open EXCEPT ![t] = [seen |-> Db, token |-> None, client |-> None,
                                        issueFor |-> None]]
    BY <1>3 DEF Arrive, Start
  <2>5. OpenQuiet /\ DevicesQuiet
    BY <1>0, <2>4 DEF OpenQuiet, DevicesQuiet
  <2> QED BY <2>2, <2>3, <2>5 DEF Quiet
<1>4. ASSUME NEW t \in Tx, RefreshReused(t) PROVE TypeOK' /\ Quiet
  <2> DEFINE family == FamilySeen(t, open[t].token)
  <2>1. /\ open[t] # None /\ open[t].seen # None /\ open[t].token # None
        /\ Answer(t, None) /\ Done(t) /\ Revoke(family)
        /\ cut' = cut \cup {k \in family : tokens[k].family \in cut}
        /\ Presented(t) # None /\ Presented(t).revokedAt # None
        /\ UNCHANGED <<now, users, links, issued, mailed, ended>>
    BY <1>4 DEF RefreshReused, Refreshing
  <2>2. family \subseteq Token
    BY DEF FamilySeen, LiveSeen
  <2>3. /\ OpenQuiet /\ DevicesQuiet /\ open' \in [Tx -> Maybe(Request)] /\ calls' = calls
        /\ device' \in [Devices -> Maybe(Token)]
    BY <2>1, AnswerQuiet
  <2>4. \A k \in family : tokens[k] # None
    BY <2>1 DEF Revoke
  <2>5. ASSUME NEW k \in family, IsLive(k) PROVE tokens[k].family \in cut
    <3>1. Presents(t) /\ SeenOK(t) /\ Row(t) = Presented(t) /\ open[t].token \in Token
      BY <2>1, RequestTyped DEF Presents, Row, Presented, Saw, Parts, RequestsOK, RequestOK
    <3>2. /\ k \in Token /\ open[t].seen.tokens[k] # None
          /\ open[t].seen.tokens[k].family = Row(t).family
      BY <3>1 DEF FamilySeen, LiveSeen, Saw, Presented
    <3>3. tokens[k].family = Row(t).family
      BY <2>1, <2>4, <3>1, <3>2 DEF SeenOK
    <3>4. ~IsLive(open[t].token)
      BY <2>1, <3>1 DEF SeenOK, IsLive, Presented, Saw
    <3>5. k # open[t].token
      BY <2>5, <3>4
    <3>6. k = open[t].token \/ Row(t).family \in cut
      BY <2>5, <3>1, <3>2, <3>3 DEF Parts, OneChance, OneRefresh
    <3> QED BY <3>3, <3>5, <3>6
  <2> HIDE DEF family
  <2>6. TokensQuiet /\ tokens' \in [Token -> Maybe(TokenRow)]
    BY <1>0, <2>1, <2>2, <2>4, <2>5, RevokeQuiet, RevokeTyped
  <2>7. TypeOK'
    BY <1>0, <2>1, <2>2, <2>3, <2>6, FromParts
  <2> QED BY <2>3, <2>6, <2>7 DEF Quiet
<1>5. ASSUME NEW t \in Tx, Fail(t) PROVE TypeOK' /\ Quiet
  <2>1. /\ open[t] # None /\ Answer(t, None) /\ Done(t) /\ UNCHANGED <<now, db, ended, cut>>
    BY <1>5 DEF Fail
  <2>2. /\ OpenQuiet /\ DevicesQuiet /\ open' \in [Tx -> Maybe(Request)] /\ calls' = calls
        /\ device' \in [Devices -> Maybe(Token)]
    BY <2>1, AnswerQuiet
  <2>3. TokensQuiet
    BY <2>1, SameTokens DEF db
  <2>4. TypeOK'
    BY <1>0, <2>1, <2>2, FromParts DEF db
  <2> QED BY <2>2, <2>3, <2>4 DEF Quiet
<1>6. ASSUME NEW t \in Tx, Purge(t) PROVE TypeOK' /\ Quiet
  <2>1. PICK gone \in SUBSET Users :
          /\ Arrived(t) /\ Done(t) /\ UNCHANGED <<now, issued, mailed, device, cut>>
          /\ users' = [u \in Users |-> IF u \in gone THEN None ELSE users[u]]
          /\ tokens' = [k \in Token |->
                 IF /\ tokens[k] # None
                    /\ ~(tokens[k].revokedAt # None /\ tokens[k].revokedAt + Retention < now)
                    /\ tokens[k].user \notin gone
                 THEN tokens[k] ELSE None]
          /\ links' = [l \in Link |->
                 IF links[l] # None /\ links[l].expires >= now /\ links[l].user \notin gone
                 THEN links[l] ELSE None]
          /\ ended' = ended \cup {k \in Token : tokens[k] # None /\ tokens[k].user \in gone}
    BY <1>6 DEF Purge
  <2>2. /\ users' \in [Users -> Maybe(UserRow)] /\ links' \in [Link -> Maybe(LinkRow)]
        /\ tokens' \in [Token -> Maybe(TokenRow)]
    BY <1>0, <2>1 DEF Maybe
  <2>3. /\ OpenQuiet /\ DevicesQuiet /\ open' \in [Tx -> Maybe(Request)] /\ calls' = calls
        /\ device' \in [Devices -> Maybe(Token)]
    BY <2>1, PlainQuiet
  <2>4. \A k \in Token : tokens'[k] = tokens[k] \/ tokens'[k] = None
    BY <2>1
  <2>5. \A k \in Token : IsLive(k) => IsLive(k)' \/ k \in ended'
    BY <2>1 DEF IsLive
  <2>6. TokensQuiet
    BY <1>0, <2>1, <2>4, <2>5 DEF TokensQuiet
  <2>7. TypeOK'
    BY <1>0, <2>1, <2>2, <2>3, FromParts
  <2> QED BY <2>3, <2>6, <2>7 DEF Quiet
<1>7. ASSUME NEW t \in Tx, NEW d \in Devices, Logout(t, d) PROVE TypeOK' /\ Quiet
  <2>1. FamilySeen(t, device[d]) \in SUBSET Token
    BY DEF FamilySeen, LiveSeen
  <2> QED BY <1>0, <1>7, <2>1, Revoking DEF Logout
<1>8. ASSUME NEW t \in Tx, NEW l \in Link, ResetPassword(t, l) PROVE TypeOK' /\ Quiet
  <2>1. SessionsSeen(t, Saw(t).links[l].user) \in SUBSET Token
    BY DEF SessionsSeen, LiveSeen
  <2>2. links' \in [Link -> Maybe(LinkRow)]
    BY <1>8, LinksTyped DEF ResetPassword
  <2> QED BY <1>0, <1>8, <2>1, <2>2, Revoking DEF ResetPassword
<1>9. ASSUME NEW t \in Tx, NEW u \in Users, Login(t, u) PROVE TypeOK' /\ Quiet
  BY <1>0, <1>9, Plain DEF Login, db
<1>10. ASSUME NEW t \in Tx, NEW u \in Users, ChangePassword(t, u) PROVE TypeOK' /\ Quiet
  <2>1. SessionsSeen(t, u) \in SUBSET Token
    BY Selected
  <2> QED BY <1>0, <1>10, <2>1, Revoking DEF ChangePassword
<1>11. ASSUME NEW t \in Tx, NEW u \in Users, RequestReset(t, u) PROVE TypeOK' /\ Quiet
  <2>1. links' \in [Link -> Maybe(LinkRow)] /\ mailed' \in 0..MaxLinks
    BY <1>11, LinksTyped
  <2> QED BY <1>0, <1>11, <2>1, Plain DEF RequestReset
<1>12. ASSUME NEW t \in Tx, NEW u \in Users, DeleteAccount(t, u) PROVE TypeOK' /\ Quiet
  <2>1. SessionsSeen(t, u) \in SUBSET Token
    BY Selected
  <2>2. users' \in [Users -> Maybe(UserRow)]
    <3>1. users[u] # None /\ users' = [users EXCEPT ![u] = [name |-> None, deletedAt |-> now]]
      BY <1>12 DEF DeleteAccount
    <3>2. [name |-> None, deletedAt |-> now] \in UserRow
      BY <1>0 DEF UserRow, Maybe
    <3> QED BY <1>0, <3>1, <3>2 DEF Maybe
  <2> QED BY <1>0, <1>12, <2>1, <2>2, Revoking DEF DeleteAccount
<1>13. ASSUME NEW t \in Tx, NEW u \in Users, NEW n \in Names, Register(t, u, n)
       PROVE  TypeOK' /\ Quiet
  <2>1. [name |-> n, deletedAt |-> None] \in UserRow
    BY DEF UserRow, Maybe
  <2>2. users' \in [Users -> Maybe(UserRow)]
    BY <1>0, <1>13, <2>1 DEF Register, Maybe
  <2> QED BY <1>0, <1>13, <2>2, Plain DEF Register
<1>14. ASSUME NEW t \in Tx, NEW u \in Users, NEW n \in Names, Rename(t, u, n)
       PROVE  TypeOK' /\ Quiet
  <2>1. users' \in [Users -> Maybe(UserRow)]
    BY <1>14, UserTyped DEF Rename
  <2> QED BY <1>0, <1>14, <2>1, Plain DEF Rename
<1> QED BY <1>1, <1>2, <1>3, <1>4, <1>5, <1>6, <1>7, <1>8, <1>9, <1>10, <1>11, <1>12, <1>13,
           <1>14 DEF QuietActions

\* A refresh, or a device, whose token is known: so it was before the step.
LEMMA QuietKnown ==
    ASSUME TypeOK, Parts, Quiet
    PROVE  /\ \A t \in Tx : Presents(t)' =>
                  Presents(t) /\ open'[t].token = open[t].token /\ Row(t)'.family = Row(t).family
           /\ \A d \in Devices : Holds(d)' =>
                  Holds(d) /\ device'[d] = device[d] /\ HeldFamily(d)' = HeldFamily(d)
<1>0. \A k \in Token : tokens'[k] # None => tokens[k] # None /\ tokens'[k].family = tokens[k].family
  BY DEF Quiet, TokensQuiet
<1>1. ASSUME NEW t \in Tx, Presents(t)'
      PROVE  Presents(t) /\ open'[t].token = open[t].token /\ Row(t)'.family = Row(t).family
  <2>1. open'[t] # None /\ open'[t].token # None /\ Row(t)' # None
    BY <1>1 DEF Presents
  <2>2. open[t] # None /\ open'[t].token = open[t].token /\ open'[t].seen = open[t].seen
    <3>1. CASE open'[t] = open[t]
      BY <2>1, <3>1
    <3>2. CASE open[t] # None /\ open'[t] = [open[t] EXCEPT !.client = None]
      <4>1. open[t] \in Request
        BY <3>2, RequestTyped
      <4> QED BY <3>2, <4>1 DEF Request
    <3> QED BY <2>1, <3>1, <3>2 DEF Quiet, OpenQuiet
  <2>3. open[t].token # None /\ open[t].token \in Token
    BY <2>1, <2>2, RequestTyped
  <2>4. CASE open[t].seen = None
    <3>1. Row(t)' = tokens'[open[t].token] /\ Row(t) = tokens[open[t].token]
      BY <2>2, <2>4 DEF Row
    <3> QED BY <1>0, <2>1, <2>2, <2>3, <3>1 DEF Presents
  <2>5. CASE open[t].seen # None
    <3>1. Row(t)' = Row(t)
      BY <2>2, <2>5 DEF Row
    <3> QED BY <2>1, <2>2, <2>3, <3>1 DEF Presents
  <2> QED BY <2>4, <2>5
<1>2. ASSUME NEW d \in Devices, Holds(d)'
      PROVE  Holds(d) /\ device'[d] = device[d] /\ HeldFamily(d)' = HeldFamily(d)
  <2>1. device'[d] # None /\ tokens'[device'[d]] # None /\ device'[d] = device[d]
    BY <1>2 DEF Holds, Quiet, DevicesQuiet
  <2>2. device[d] \in Token
    BY <2>1, DeviceTyped
  <2> QED BY <1>0, <2>1, <2>2 DEF Holds, HeldFamily
<1> QED BY <1>1, <1>2

LEMMA QuietKeeps ==
    ASSUME TypeOK, Parts, Quiet
    PROVE  Parts'
<1>0. /\ issued' = issued /\ cut \subseteq cut' /\ ended \subseteq ended' /\ cut' \subseteq Token
      /\ \A k \in cut' : k \in cut \/ (tokens[k] # None /\ tokens[k].family \in cut)
      /\ \A k \in Token : tokens'[k] # None =>
             /\ tokens[k] # None /\ tokens'[k].family = tokens[k].family
             /\ tokens'[k].revokedAt = None => tokens[k].revokedAt = None
      /\ \A k \in Token : IsLive(k) => IsLive(k)' \/ k \in ended' \cup cut'
  BY DEF Quiet, TokensQuiet
<1>1. TokensOK'
  <2>1. \A k \in Token : tokens[k] # None => tokens[k].family \in Token
    BY Typed DEF Maybe, TokenRow
  <2> QED BY <1>0, <2>1 DEF Parts, TokensOK
<1>2. CutOK'
  <2> SUFFICES ASSUME NEW k \in cut'
               PROVE  k <= issued /\ (tokens'[k] # None => tokens'[k].family \in cut')
    BY <1>0 DEF CutOK
  <2>1. k \in Token
    BY <1>0
  <2>2. CASE k \in cut
    BY <1>0, <2>1, <2>2 DEF Parts, CutOK
  <2>3. CASE tokens[k] # None /\ tokens[k].family \in cut
    BY <1>0, <2>1, <2>3 DEF Parts, TokensOK
  <2> QED BY <1>0, <2>2, <2>3
<1>3. \A d \in Devices : device'[d] = None \/ device'[d] = device[d]
  BY DEF Quiet, DevicesQuiet
<1>4. DevicesOK'
  BY <1>0, <1>3 DEF Parts, DevicesOK
<1>5. ASSUME NEW t \in Tx, open'[t] # None PROVE RequestOK(t)'
  <2>1. ASSUME open[t] # None, open'[t].seen = open[t].seen PROVE SeenOK(t)'
    <3>1. RequestOK(t)
      BY <2>1 DEF Parts, RequestsOK
    <3> QED BY <1>0, <2>1, <3>1 DEF RequestOK, SeenOK
  <2>2. CASE open'[t] = open[t]
    <3>1. RequestOK(t) /\ SeenOK(t)'
      BY <1>5, <2>1, <2>2 DEF Parts, RequestsOK
    <3>2. \A d \in Devices : open'[t].token # None /\ device'[d] = open'[t].token =>
              Waits(t, d)' \/ open'[t].token \in cut'
      BY <1>0, <1>3, <2>2, <3>1 DEF RequestOK, Waits
    <3> QED BY <1>0, <2>2, <3>1, <3>2 DEF RequestOK
  <2>3. CASE /\ open'[t].token = None /\ open'[t].client = None
             /\ \/ open'[t].seen = Db
                \/ open[t] # None /\ open'[t].seen = open[t].seen
    <3>1. CASE open'[t].seen = Db
      <4>1. open'[t].seen.tokens = tokens
        BY <3>1 DEF Db
      <4> QED BY <1>0, <2>3, <4>1 DEF RequestOK, SeenOK, Parts, TokensOK
    <3>2. CASE open[t] # None /\ open'[t].seen = open[t].seen
      BY <2>1, <2>3, <3>2 DEF RequestOK
    <3> QED BY <2>3, <3>1, <3>2
  <2>4. CASE /\ open[t] # None /\ open'[t] = [open[t] EXCEPT !.client = None]
             /\ \A d \in Devices : Waits(t, d) => device'[d] = None
    <3>1. /\ open'[t].token = open[t].token /\ open'[t].seen = open[t].seen
          /\ open'[t].issueFor = open[t].issueFor /\ open'[t].client = None
      BY <2>4, RequestTyped DEF Request
    <3>2. RequestOK(t) /\ SeenOK(t)'
      BY <2>1, <2>4, <3>1 DEF Parts, RequestsOK
    <3>3. ASSUME NEW d \in Devices, open[t].token # None, device'[d] = open[t].token
          PROVE  open[t].token \in cut'
      <4>1. device[d] = open[t].token /\ ~Waits(t, d)
        BY <1>3, <2>4, <3>3
      <4> QED BY <1>0, <3>2, <3>3, <4>1 DEF RequestOK
    <3> QED BY <1>0, <3>1, <3>2, <3>3 DEF RequestOK
  <2> QED BY <1>5, <2>2, <2>3, <2>4 DEF Quiet, OpenQuiet
<1>6. StaysSignedIn'
  <2> SUFFICES ASSUME NEW d \in Devices, device'[d] # None
               PROVE  IsLive(device[d])' \/ device'[d] \in ended' \cup cut'
    BY DEF StaysSignedIn
  <2>1. device'[d] = device[d] /\ device[d] # None /\ device[d] \in Token
    BY <1>3, DeviceTyped
  <2>2. IsLive(device[d]) \/ device[d] \in ended \cup cut
    BY <2>1 DEF Parts, StaysSignedIn
  <2>3. IsLive(device[d]) => IsLive(device[d])' \/ device[d] \in ended' \cup cut'
    <3> DEFINE k == device[d]
    <3>1. IsLive(k) => (tokens'[k] # None /\ tokens'[k].revokedAt = None) \/ k \in ended' \cup cut'
      BY <1>0, <2>1 DEF IsLive
    <3> QED BY <2>1, <3>1 DEF IsLive
  <2> QED BY <1>0, <2>1, <2>2, <2>3
<1>7. \A k \in Token : IsLive(k)' => IsLive(k) /\ tokens'[k].family = tokens[k].family
  BY <1>0 DEF IsLive
<1>8. OneLivePerFamily'
  BY <1>0, <1>7 DEF OneLivePerFamily, Parts, OneChance
<1>9. /\ \A t \in Tx : Presents(t)' =>
             Presents(t) /\ open'[t].token = open[t].token /\ Row(t)'.family = Row(t).family
      /\ \A d \in Devices : Holds(d)' =>
             Holds(d) /\ device'[d] = device[d] /\ HeldFamily(d)' = HeldFamily(d)
  BY QuietKnown
<1>10. OneRefresh'
  BY <1>0, <1>7, <1>9 DEF Parts, OneChance, OneRefresh
<1>11. OneHolder'
  <2>1. ASSUME NEW d \in Devices, NEW k \in Token, Holds(d)', IsLive(k)',
               tokens'[k].family = HeldFamily(d)'
        PROVE  k = device'[d] \/ HeldFamily(d)' \in cut'
    <3>1. Holds(d) /\ IsLive(k) /\ tokens[k].family = HeldFamily(d)
      BY <1>7, <1>9, <2>1
    <3>2. k = device[d] \/ HeldFamily(d) \in cut
      BY <3>1 DEF Parts, OneChance, OneHolder
    <3> QED BY <1>0, <1>9, <2>1, <3>2
  <2>2. ASSUME NEW d \in Devices, NEW e \in Devices, Holds(d)', Holds(e)',
               HeldFamily(d)' = HeldFamily(e)'
        PROVE  d = e \/ HeldFamily(d)' \in cut'
    <3>1. Holds(d) /\ Holds(e) /\ HeldFamily(d) = HeldFamily(e)
      BY <1>9, <2>2
    <3>2. d = e \/ HeldFamily(d) \in cut
      BY <3>1 DEF Parts, OneChance, OneHolder
    <3> QED BY <1>0, <1>9, <2>2, <3>2
  <2>3. ASSUME NEW t \in Tx, NEW d \in Devices, Presents(t)', Holds(d)',
               HeldFamily(d)' = Row(t)'.family
        PROVE  device'[d] = open'[t].token \/ Row(t)'.family \in cut'
    <3>1. Presents(t) /\ Holds(d) /\ HeldFamily(d) = Row(t).family
      BY <1>9, <2>3
    <3>2. device[d] = open[t].token \/ Row(t).family \in cut
      BY <3>1 DEF Parts, OneChance, OneHolder
    <3> QED BY <1>0, <1>9, <2>3, <3>2
  <2> QED BY <2>1, <2>2, <2>3 DEF OneHolder
<1> QED BY <1>1, <1>2, <1>4, <1>5, <1>6, <1>8, <1>10, <1>11 DEF Parts, RequestsOK, OneChance
-----------------------------------------------------------------------------
(* The life of a refresh.                                                  *)

\* A token that is given up for lost, and its family.
LEMMA LineageOK ==
    ASSUME TypeOK, Parts, NEW d \in Devices, device[d] # None
    PROVE  /\ Lineage(device[d]) \subseteq Token
           /\ device[d] \in Lineage(device[d])
           /\ Holds(d) => HeldFamily(d) \in Lineage(device[d])
           /\ \A k \in Lineage(device[d]) :
                  k <= issued /\ (tokens[k] # None => tokens[k].family \in Lineage(device[d]))
<1> DEFINE j == device[d]
<1>1. j \in Token /\ j <= issued
  BY DeviceTyped DEF Parts, DevicesOK
<1>2. CASE tokens[j] = None
  <2>1. Lineage(j) = {j}
    BY <1>2 DEF Lineage
  <2> QED BY <1>1, <1>2, <2>1 DEF Holds
<1>3. CASE tokens[j] # None
  <2>1. Lineage(j) = {j, tokens[j].family}
    BY <1>3 DEF Lineage
  <2>2. tokens[j].family \in Token /\ tokens[j].family <= issued
    BY <1>1, <1>3, Typed DEF Maybe, TokenRow, Parts, TokensOK
  <2>3. tokens[tokens[j].family] # None => tokens[tokens[j].family].family = tokens[j].family
    BY <1>1, <1>3 DEF Parts, TokensOK
  <2> QED BY <1>1, <1>3, <2>1, <2>2, <2>3 DEF Holds, HeldFamily
<1> QED BY <1>2, <1>3

LEMMA TypesStep ==
    ASSUME TypeOK, Parts, [Next]_vars
    PROVE  TypeOK'
<1>0. /\ users \in [Users -> Maybe(UserRow)] /\ links \in [Link -> Maybe(LinkRow)]
      /\ tokens \in [Token -> Maybe(TokenRow)]
      /\ now \in Nat /\ issued \in 0..MaxTokens /\ mailed \in 0..MaxLinks /\ calls \in 0..MaxCalls
      /\ open \in [Tx -> Maybe(Request)]
      /\ device \in [Devices -> Maybe(Token)]
      /\ ended \subseteq Token /\ cut \subseteq Token /\ Db \in Tables
  BY Typed DEF TypeOK
<1>1. CASE UNCHANGED vars
  BY <1>0, <1>1, FromParts DEF vars, db
<1>2. CASE QuietActions
  BY <1>2, QuietStep
<1>3. ASSUME NEW t \in Tx, NEW d \in Devices, NEW c \in Clients, Send(t, d, c) PROVE TypeOK'
  <2>1. device[d] \in Token /\ device[d] # None
    BY <1>3, DeviceTyped DEF Send
  <2>2. open' \in [Tx -> Maybe(Request)] /\ calls' \in 0..MaxCalls
    BY <1>3, <2>1, StartTyped DEF Send, Maybe
  <2>3. cut' \subseteq Token
    BY <1>0, <1>3, <2>1, LineageOK DEF Send, Crossed
  <2> QED BY <1>0, <1>3, <2>2, <2>3, FromParts DEF Send, db
<1>4. ASSUME NEW t \in Tx, ReadToken(t) PROVE TypeOK'
  <2>1. open[t] \in Request /\ open' = [open EXCEPT ![t] = [open[t] EXCEPT !.seen = Db]]
    BY <1>0, <1>4 DEF ReadToken, Maybe
  <2>2. [open[t] EXCEPT !.seen = Db] \in Request
    BY <1>0, <2>1 DEF Request, Maybe
  <2>3. open' \in [Tx -> Maybe(Request)]
    BY <1>0, <2>1, <2>2 DEF Maybe
  <2> QED BY <1>0, <1>4, <2>3, FromParts DEF ReadToken, db
<1>5. ASSUME NEW t \in Tx, Refresh(t) PROVE TypeOK'
  <2>1. /\ issued + 1 \in Token /\ issued' \in 0..MaxTokens
        /\ tokens' \in [Token -> Maybe(TokenRow)]
    BY <1>5, RefreshTyped
  <2>2. /\ open' \in [Tx -> Maybe(Request)] /\ calls' = calls
        /\ device' \in [Devices -> Maybe(Token)]
    BY <1>5, <2>1, DoneTyped, AnswerTyped DEF Refresh, Maybe
  <2> QED BY <1>0, <1>5, <2>1, <2>2, FromParts DEF Refresh
<1>6. ASSUME NEW t \in Tx, IssueTokens(t) PROVE TypeOK'
  <2>1. /\ issued + 1 \in Token /\ issued' \in 0..MaxTokens
        /\ tokens' \in [Token -> Maybe(TokenRow)]
    BY <1>6, IssueTyped
  <2>2. open' \in [Tx -> Maybe(Request)] /\ calls' = calls
    BY <1>6, DoneTyped DEF IssueTokens
  <2>3. device' \in [Devices -> Maybe(Token)]
    BY <1>0, <1>6, <2>1 DEF IssueTokens, Maybe
  <2> QED BY <1>0, <1>6, <2>1, <2>2, <2>3, FromParts DEF IssueTokens
<1>7. ASSUME NEW d \in Devices, Die(d) PROVE TypeOK'
  <2>1. /\ UNCHANGED <<now, db, calls, device, ended>>
        /\ open' = [t \in Tx |-> IF Waits(t, d) THEN [open[t] EXCEPT !.client = None] ELSE open[t]]
        /\ cut' = cut \cup IF \E t \in Tx : Exchanging(t, d) THEN Lineage(device[d]) ELSE {}
    BY <1>7 DEF Die
  <2>2. open' \in [Tx -> Maybe(Request)]
    <3>1. ASSUME NEW t \in Tx, Waits(t, d) PROVE [open[t] EXCEPT !.client = None] \in Request
      <4>1. open[t] \in Request
        BY <3>1, RequestTyped DEF Waits
      <4> QED BY <4>1 DEF Request, Maybe
    <3> QED BY <1>0, <2>1, <3>1 DEF Maybe
  <2>3. cut' \subseteq Token
    <3>1. \A t \in Tx : Exchanging(t, d) => device[d] # None
      BY DEF Exchanging, Waits, Parts, RequestsOK, RequestOK
    <3> QED BY <1>0, <2>1, <3>1, LineageOK
  <2> QED BY <1>0, <2>1, <2>2, <2>3, FromParts DEF db
<1> QED BY <1>1, <1>2, <1>3, <1>4, <1>5, <1>6, <1>7 DEF Next, QuietActions

\* Steps that leave tokens and devices alone; a family may be cut.
LEMMA StoreKeeps ==
    ASSUME TypeOK, Parts, UNCHANGED <<tokens, issued, device, ended>>, cut \subseteq cut',
           \A k \in cut' :
               k \in cut \/ (k <= issued /\ (tokens[k] # None => tokens[k].family \in cut'))
    PROVE  /\ TokensOK' /\ CutOK' /\ DevicesOK' /\ StaysSignedIn' /\ OneLivePerFamily'
           /\ \A k \in Token : IsLive(k)' <=> IsLive(k)
           /\ \A d \in Devices : (Holds(d)' <=> Holds(d)) /\ HeldFamily(d)' = HeldFamily(d)
<1>1. /\ \A k \in Token : IsLive(k)' <=> IsLive(k)
      /\ \A d \in Devices : (Holds(d)' <=> Holds(d)) /\ HeldFamily(d)' = HeldFamily(d)
  BY DEF IsLive, Holds, HeldFamily
<1>2. TokensOK' /\ CutOK' /\ DevicesOK'
  BY DEF Parts, TokensOK, CutOK, DevicesOK
<1>3. StaysSignedIn'
  BY DEF Parts, StaysSignedIn, IsLive
<1>4. OneLivePerFamily'
  BY <1>1 DEF Parts, OneChance, OneLivePerFamily
<1> QED BY <1>1, <1>2, <1>3, <1>4

LEMMA KnownKeeps ==
    ASSUME TypeOK, Parts, UNCHANGED <<tokens, issued, device, ended>>, cut \subseteq cut',
           \A t \in Tx : Presents(t)' =>
               Presents(t) /\ open'[t].token = open[t].token /\ Row(t)'.family = Row(t).family
    PROVE  OneRefresh' /\ OneHolder'
<1>1. /\ \A k \in Token : IsLive(k)' <=> IsLive(k)
      /\ \A d \in Devices : (Holds(d)' <=> Holds(d)) /\ HeldFamily(d)' = HeldFamily(d)
  BY DEF IsLive, Holds, HeldFamily
<1>2. OneRefresh'
  BY <1>1 DEF Parts, OneChance, OneRefresh
<1>3. OneHolder'
  BY <1>1 DEF Parts, OneChance, OneHolder
<1> QED BY <1>2, <1>3

\* A client sends its device's token: no other refresh presents one of the
\* family, or the family is cut.
LEMMA SendKeeps ==
    ASSUME TypeOK, Parts, NEW t \in Tx, NEW d \in Devices, NEW c \in Clients, Send(t, d, c)
    PROVE  Parts'
<1> DEFINE j == device[d]
           me == <<d, c>>
           r == [seen |-> None, token |-> j, client |-> me, issueFor |-> None]
<1>0. /\ j # None /\ j \in Token /\ open[t] = None
      /\ \A o \in Tx : open[o] # None => open[o].client # me
      /\ UNCHANGED <<tokens, issued, device, ended>>
      /\ open' = [open EXCEPT ![t] = r]
      /\ cut' = cut \cup Crossed(d, c)
  BY DeviceTyped DEF Send, Start, db
<1>1. /\ open'[t] = r /\ open'[t] # None
      /\ \A o \in Tx \ {t} : open'[o] = open[o]
  <2>1. r # None
    <3>1. r \in Request
      BY <1>0 DEF Request, Maybe
    <3> QED BY <3>1, NoneIsNoRequest
  <2> QED BY <1>0, <2>1, Typed
<1>2. /\ cut \subseteq cut'
      /\ \A k \in cut' : k \in cut \/ (k <= issued /\ (tokens[k] # None => tokens[k].family \in cut'))
      /\ \A o \in Tx : Exchanging(o, d) => j \in cut' /\ (Holds(d) => HeldFamily(d) \in cut')
  <2>1. Crossed(d, c) \in {{}, Lineage(j)}
    BY DEF Crossed
  <2>2. ASSUME NEW o \in Tx, Exchanging(o, d) PROVE Crossed(d, c) = Lineage(j)
    <3>1. open[o].client # me
      BY <1>0, <2>2 DEF Exchanging, Waits
    <3> QED BY <2>2, <3>1 DEF Crossed
  <2> QED BY <1>0, <2>1, <2>2, LineageOK
<1>3. /\ TokensOK' /\ CutOK' /\ DevicesOK' /\ StaysSignedIn' /\ OneLivePerFamily'
      /\ \A k \in Token : IsLive(k)' <=> IsLive(k)
      /\ \A e \in Devices : (Holds(e)' <=> Holds(e)) /\ HeldFamily(e)' = HeldFamily(e)
  BY <1>0, <1>2, StoreKeeps
<1>4. \A o \in Tx : open[o] # None => RequestOK(o)
  BY DEF Parts, RequestsOK
<1> HIDE DEF r
<1>5. /\ r.seen = None /\ r.token = j /\ r.client = me /\ r.issueFor = None
      /\ me[1] = d /\ me # None
  BY AccountsAssumption DEF r
<1> HIDE DEF j, me
<1>6. RequestsOK'
  <2>1. RequestOK(t)'
    <3>1. Waits(t, d)'
      BY <1>1, <1>5 DEF Waits
    <3>2. \A e \in Devices : device[e] = j => e = d
      BY <1>0 DEF Parts, DevicesOK, j
    <3>3. j <= issued
      BY <1>0 DEF Parts, DevicesOK, j
    <3> QED BY <1>0, <1>1, <1>5, <3>1, <3>2, <3>3 DEF RequestOK, SeenOK
  <2>2. ASSUME NEW o \in Tx \ {t}, open[o] # None PROVE RequestOK(o)'
    <3>1. RequestOK(o) /\ open'[o] = open[o]
      BY <1>1, <1>4, <2>2
    <3>2. SeenOK(o)'
      BY <1>0, <3>1 DEF RequestOK, SeenOK
    <3> QED BY <1>0, <1>2, <3>1, <3>2 DEF RequestOK, Waits
  <2> QED BY <1>1, <2>1, <2>2 DEF RequestsOK
<1>7. ASSUME NEW o \in Tx \ {t}, Presents(o)'
      PROVE  Presents(o) /\ Row(o)' = Row(o) /\ open'[o] = open[o]
  BY <1>0, <1>1, <1>7 DEF Presents, Row
<1>8. Presents(t)' => Holds(d) /\ Row(t)' = tokens[j] /\ HeldFamily(d) = tokens[j].family
  BY <1>0, <1>1, <1>5 DEF Presents, Row, Holds, HeldFamily, j
<1>9. ASSUME NEW o \in Tx \ {t}, Presents(o), Holds(d), Row(o).family = HeldFamily(d)
      PROVE  HeldFamily(d) \in cut'
  <2>1. (device[d] = open[o].token /\ Waits(o, d)) \/ HeldFamily(d) \in cut
    BY <1>9, HolderWaits
  <2>2. device[d] = open[o].token /\ Waits(o, d) => Exchanging(o, d)
    BY DEF Exchanging
  <2> QED BY <1>2, <1>9, <2>1, <2>2
<1>10. OneRefresh'
  <2>1. ASSUME NEW o \in Tx, NEW k \in Token, Presents(o)', IsLive(k)',
               tokens'[k].family = Row(o)'.family
        PROVE  k = open'[o].token \/ Row(o)'.family \in cut'
    <3>1. CASE o = t
      <4>1. Holds(d) /\ IsLive(k) /\ tokens[k].family = HeldFamily(d) /\ Row(t)'.family = HeldFamily(d)
        BY <1>0, <1>3, <1>8, <2>1, <3>1
      <4>2. k = j \/ HeldFamily(d) \in cut
        BY <4>1 DEF Parts, OneChance, OneHolder, j
      <4> QED BY <1>1, <1>2, <1>5, <3>1, <4>1, <4>2
    <3>2. CASE o # t
      <4>1. Presents(o) /\ Row(o)' = Row(o) /\ open'[o] = open[o] /\ IsLive(k)
        BY <1>3, <1>7, <2>1, <3>2
      <4>2. tokens[k].family = Row(o).family
        BY <1>0, <2>1, <4>1
      <4>3. k = open[o].token \/ Row(o).family \in cut
        BY <4>1, <4>2 DEF Parts, OneChance, OneRefresh
      <4> QED BY <1>2, <4>1, <4>3
    <3> QED BY <3>1, <3>2
  <2>2. ASSUME NEW o \in Tx, NEW p \in Tx, Presents(o)', Presents(p)',
               Row(o)'.family = Row(p)'.family
        PROVE  o = p \/ Row(o)'.family \in cut'
    <3>1. CASE o # t /\ p # t
      <4>1. Presents(o) /\ Presents(p) /\ Row(o)' = Row(o) /\ Row(p)' = Row(p)
        BY <1>7, <2>2, <3>1
      <4>2. Row(o).family = Row(p).family
        BY <2>2, <4>1
      <4>3. o = p \/ Row(o).family \in cut
        BY <4>1, <4>2 DEF Parts, OneChance, OneRefresh
      <4> QED BY <1>2, <4>1, <4>3
    <3>2. CASE o = t /\ p # t
      <4>1. Presents(p) /\ Row(p)' = Row(p) /\ Holds(d) /\ Row(t)'.family = HeldFamily(d)
        BY <1>7, <1>8, <2>2, <3>2
      <4> QED BY <1>9, <2>2, <3>2, <4>1
    <3>3. CASE o # t /\ p = t
      <4>1. Presents(o) /\ Row(o)' = Row(o) /\ Holds(d) /\ Row(t)'.family = HeldFamily(d)
        BY <1>7, <1>8, <2>2, <3>3
      <4> QED BY <1>9, <2>2, <3>3, <4>1
    <3> QED BY <3>1, <3>2, <3>3
  <2> QED BY <2>1, <2>2 DEF OneRefresh
<1>11. OneHolder'
  <2>1. ASSUME NEW o \in Tx, NEW e \in Devices, Presents(o)', Holds(e)',
               HeldFamily(e)' = Row(o)'.family
        PROVE  device'[e] = open'[o].token \/ Row(o)'.family \in cut'
    <3>1. Holds(e) /\ HeldFamily(e) = Row(o)'.family
      BY <1>3, <2>1
    <3>2. CASE o = t
      <4>1. Holds(d) /\ HeldFamily(e) = HeldFamily(d) /\ Row(t)'.family = HeldFamily(d)
        BY <1>8, <2>1, <3>1, <3>2
      <4>2. e = d \/ HeldFamily(d) \in cut
        BY <3>1, <4>1 DEF Parts, OneChance, OneHolder
      <4> QED BY <1>0, <1>1, <1>2, <1>5, <3>2, <4>1, <4>2 DEF j
    <3>3. CASE o # t
      <4>1. Presents(o) /\ Row(o)' = Row(o) /\ open'[o] = open[o]
        BY <1>7, <2>1, <3>3
      <4>2. device[e] = open[o].token \/ Row(o).family \in cut
        BY <3>1, <4>1 DEF Parts, OneChance, OneHolder
      <4> QED BY <1>0, <1>2, <4>1, <4>2
    <3> QED BY <3>2, <3>3
  <2>2. \A e \in Devices, k \in Token :
            Holds(e)' /\ IsLive(k)' /\ tokens'[k].family = HeldFamily(e)' =>
                k = device'[e] \/ HeldFamily(e)' \in cut'
    BY <1>0, <1>2, <1>3 DEF Parts, OneChance, OneHolder
  <2>3. \A e, f \in Devices :
            Holds(e)' /\ Holds(f)' /\ HeldFamily(e)' = HeldFamily(f)' =>
                e = f \/ HeldFamily(e)' \in cut'
    BY <1>0, <1>2, <1>3 DEF Parts, OneChance, OneHolder
  <2> QED BY <2>1, <2>2, <2>3 DEF OneHolder
<1> QED BY <1>3, <1>6, <1>10, <1>11 DEF Parts, OneChance

LEMMA ReadKeeps ==
    ASSUME TypeOK, Parts, NEW t \in Tx, ReadToken(t)
    PROVE  Parts'
<1>0. /\ open[t] # None /\ open[t].seen = None /\ open[t] \in Request
      /\ UNCHANGED <<tokens, issued, cut, ended, device>>
      /\ open' = [open EXCEPT ![t] = [open[t] EXCEPT !.seen = Db]]
  BY RequestTyped DEF ReadToken, db
<1>1. /\ open'[t] # None /\ open'[t].seen = Db /\ open'[t].seen # None
      /\ open'[t].token = open[t].token /\ open'[t].issueFor = open[t].issueFor
      /\ open'[t].client = open[t].client
      /\ \A o \in Tx \ {t} : open'[o] = open[o]
  <2>1. open'[t] = [open[t] EXCEPT !.seen = Db] /\ \A o \in Tx \ {t} : open'[o] = open[o]
    BY <1>0, Typed
  <2>2. [open[t] EXCEPT !.seen = Db] \in Request
    BY <1>0, Typed DEF Request, Maybe
  <2>3. Db # None
    BY Typed, NoneIsNoTable
  <2> QED BY <1>0, <2>1, <2>2, <2>3, NoneIsNoRequest DEF Request
<1>2. TokensOK' /\ CutOK' /\ DevicesOK' /\ StaysSignedIn' /\ OneLivePerFamily'
  BY <1>0, StoreKeeps
<1>3. RequestsOK'
  <2>1. ASSUME NEW o \in Tx, open[o] # None PROVE RequestOK(o)'
    <3>1. RequestOK(o)
      BY <2>1 DEF Parts, RequestsOK
    <3>2. SeenOK(o)'
      <4>1. CASE o = t
        <5>1. open'[o].seen.tokens = tokens
          BY <1>1, <4>1 DEF Db
        <5> QED BY <1>0, <5>1 DEF SeenOK, Parts, TokensOK
      <4>2. CASE o # t
        BY <1>0, <1>1, <3>1, <4>2 DEF SeenOK, RequestOK
      <4> QED BY <4>1, <4>2
    <3>3. open'[o].token = open[o].token /\ open'[o].issueFor = open[o].issueFor
      BY <1>1
    <3>4. open'[o].client = open[o].client /\ open'[o] # None
      BY <1>1, <2>1
    <3>5. \A d \in Devices : Waits(o, d)' <=> Waits(o, d)
      BY <2>1, <3>4 DEF Waits
    <3> QED BY <1>0, <3>1, <3>2, <3>3, <3>4, <3>5 DEF RequestOK
  <2> QED BY <1>0, <1>1, <2>1 DEF RequestsOK
<1>4. ASSUME NEW o \in Tx, Presents(o)'
      PROVE  Presents(o) /\ Row(o)' = Row(o) /\ open'[o].token = open[o].token
  <2>1. CASE o = t
    <3>1. Row(t)' = tokens[open[t].token] /\ Row(t) = tokens[open[t].token]
      BY <1>0, <1>1 DEF Row, Db
    <3> QED BY <1>0, <1>1, <1>4, <2>1, <3>1 DEF Presents
  <2>2. CASE o # t
    BY <1>0, <1>1, <1>4, <2>2 DEF Presents, Row
  <2> QED BY <2>1, <2>2
<1>5. OneRefresh' /\ OneHolder'
  BY <1>0, <1>4, KnownKeeps
<1> QED BY <1>2, <1>3, <1>5 DEF Parts, OneChance

\* An app that dies cuts its token and the family.
LEMMA DieKeeps ==
    ASSUME TypeOK, Parts, NEW d \in Devices, Die(d)
    PROVE  Parts'
<1>0. /\ UNCHANGED <<tokens, issued, ended, device>>
      /\ open' = [o \in Tx |-> IF Waits(o, d) THEN [open[o] EXCEPT !.client = None] ELSE open[o]]
      /\ cut' = cut \cup IF \E o \in Tx : Exchanging(o, d) THEN Lineage(device[d]) ELSE {}
  BY DEF Die, db
<1>1. \A o \in Tx : Exchanging(o, d) => device[d] # None
  BY DEF Exchanging, Waits, Parts, RequestsOK, RequestOK
<1>2. /\ cut \subseteq cut'
      /\ \A k \in cut' : k \in cut \/ (k <= issued /\ (tokens[k] # None => tokens[k].family \in cut'))
      /\ \A o \in Tx : Exchanging(o, d) => device[d] \in cut'
  BY <1>0, <1>1, LineageOK
<1>3. TokensOK' /\ CutOK' /\ DevicesOK' /\ StaysSignedIn' /\ OneLivePerFamily'
  BY <1>0, <1>2, StoreKeeps
<1>4. ASSUME NEW o \in Tx
      PROVE  /\ open'[o] = open[o] \/ (open[o] # None /\ Waits(o, d) /\ open'[o].client = None)
             /\ open[o] = None => open'[o] = None
             /\ open[o] # None => /\ open'[o].token = open[o].token /\ open'[o].seen = open[o].seen
                                  /\ open'[o].issueFor = open[o].issueFor
  <2>1. CASE Waits(o, d)
    <3>1. open[o] # None /\ open[o] \in Request
      BY <2>1, RequestTyped DEF Waits
    <3> QED BY <1>0, <2>1, <3>1 DEF Request
  <2>2. CASE ~Waits(o, d)
    BY <1>0, <2>2
  <2> QED BY <2>1, <2>2
<1>5. RequestsOK'
  <2>1. ASSUME NEW o \in Tx, open'[o] # None PROVE RequestOK(o)'
    <3>1. open[o] # None /\ RequestOK(o)
      BY <1>4, <2>1 DEF Parts, RequestsOK
    <3>2. SeenOK(o)'
      BY <1>0, <1>4, <3>1 DEF RequestOK, SeenOK
    <3>3. ASSUME NEW e \in Devices, open[o].token # None, device[e] = open[o].token
          PROVE  Waits(o, e)' \/ open[o].token \in cut'
      <4>1. Waits(o, e) \/ open[o].token \in cut
        BY <3>1, <3>3 DEF RequestOK
      <4>2. CASE Waits(o, d)
        <5>1. Waits(o, e) => e = d
          BY <4>2 DEF Waits
        <5>2. e = d => Exchanging(o, d)
          BY <3>3, <4>2 DEF Exchanging
        <5> QED BY <1>2, <3>3, <4>1, <5>1, <5>2
      <4>3. CASE ~Waits(o, d)
        BY <1>2, <1>4, <4>1, <4>3 DEF Waits
      <4> QED BY <4>2, <4>3
    <3>4. open'[o].client # None => open'[o].token # None
      BY <1>4, <3>1 DEF RequestOK
    <3> QED BY <1>0, <1>4, <3>1, <3>2, <3>3, <3>4 DEF RequestOK
  <2> QED BY <2>1 DEF RequestsOK
<1>6. ASSUME NEW o \in Tx, Presents(o)'
      PROVE  Presents(o) /\ open'[o].token = open[o].token /\ Row(o)'.family = Row(o).family
  <2>1. open[o] # None /\ open'[o].token = open[o].token /\ open'[o].seen = open[o].seen
    BY <1>4, <1>6 DEF Presents
  <2>2. Row(o)' = Row(o)
    BY <1>0, <2>1 DEF Row
  <2> QED BY <1>6, <2>1, <2>2 DEF Presents
<1>7. OneRefresh' /\ OneHolder'
  BY <1>0, <1>2, <1>6, KnownKeeps
<1> QED BY <1>3, <1>5, <1>7 DEF Parts, OneChance

\* A refresh is answered: the family's chance passes to the new token.
LEMMA RotationKeeps ==
    ASSUME TypeOK, Parts, NEW t \in Tx, Refresh(t)
    PROVE  Parts'
<1> DEFINE j == open[t].token
           n == issued + 1
           F == Presented(t).family
<1>0. /\ open[t] # None /\ open[t].seen # None /\ open[t].token # None
      /\ Answer(t, n) /\ Done(t) /\ UNCHANGED <<ended, cut>>
  BY DEF Refresh, Usable, Refreshing
<1>1. /\ j \in Token /\ tokens[j] # None /\ n \in Token /\ issued' = n
      /\ issued \in Nat
      /\ Presented(t) # None /\ Presented(t).revokedAt = None
      /\ tokens'[n] # None /\ tokens'[n].revokedAt = None /\ tokens'[n].family = F
      /\ \A k \in Token \ {j, n} : tokens'[k] = tokens[k]
      /\ j # n => /\ tokens'[j] # None /\ tokens'[j].revokedAt # None
                  /\ tokens'[j].family = tokens[j].family
  BY RefreshTyped, Typed
<1>2. Presents(t) /\ Row(t).family = F
  BY <1>0, <1>1 DEF Presents, Row, Presented, Saw
<1>3. j <= issued /\ F \in Token /\ F <= issued /\ tokens[j].family = F
  BY <1>1, <1>2, PresentsTyped
<1>4. /\ j # n /\ tokens'[j] # None /\ tokens'[j].revokedAt # None /\ tokens'[j].family = F
      /\ \A k \in Token \ {j, n} : tokens'[k] = tokens[k]
  BY <1>1, <1>3
<1>5. \A o \in Tx : open'[o] = IF o = t THEN None ELSE open[o]
  BY <1>0, Typed DEF Done
<1>6. /\ \A d \in Devices : device'[d] = device[d] \/ (device'[d] = n /\ Waits(t, d))
      /\ \A d \in Devices : Exchanging(t, d) => device'[d] = n
      /\ \A d, e \in Devices : Waits(t, d) /\ Waits(t, e) => d = e
  <2>1. \A d, e \in Devices : Waits(t, d) /\ Waits(t, e) => d = e
    BY DEF Waits
  <2>2. CASE UNCHANGED device /\ \A d \in Devices : ~Exchanging(t, d)
    BY <2>1, <2>2
  <2>3. ASSUME NEW e \in Devices, Waits(t, e), device' = [device EXCEPT ![e] = n]
        PROVE  /\ \A d \in Devices : device'[d] = device[d] \/ (device'[d] = n /\ Waits(t, d))
               /\ \A d \in Devices : Exchanging(t, d) => device'[d] = n
    BY <2>1, <2>3, Typed DEF Exchanging
  <2> QED BY <1>0, <2>1, <2>2, <2>3 DEF Answer
<1> HIDE DEF j, n, F
<1>7. /\ issued \in Nat /\ issued' = issued + 1 /\ n = issued + 1
      /\ \A k \in Token : k <= issued => k # n
      /\ \A k \in Token : k \in Nat
  BY <1>1 DEF n, Token
<1>8. \A k \in Token : IsLive(k)' <=> k = n \/ (k # j /\ IsLive(k))
  BY <1>1, <1>4 DEF IsLive
<1>9. TokensOK'
  <2> SUFFICES ASSUME NEW k \in Token, tokens'[k] # None
               PROVE  /\ k <= issued' /\ tokens'[k].family <= issued'
                      /\ tokens'[tokens'[k].family] # None =>
                             tokens'[tokens'[k].family].family = tokens'[k].family
    BY DEF TokensOK
  <2>1. /\ F # n
        /\ tokens'[F] # None => tokens'[F].family = F
    <3>1. tokens[F] # None => tokens[F].family = F
      BY <1>1, <1>3 DEF Parts, TokensOK
    <3> QED BY <1>3, <1>4, <1>7, <3>1
  <2>2. CASE k \in {j, n}
    BY <1>1, <1>3, <1>4, <1>7, <2>1, <2>2
  <2>3. CASE k \notin {j, n}
    <3>1. /\ tokens'[k] = tokens[k] /\ tokens[k] # None
          /\ k <= issued /\ tokens[k].family <= issued
          /\ tokens[tokens[k].family] # None => tokens[tokens[k].family].family = tokens[k].family
      BY <1>4, <2>3 DEF Parts, TokensOK
    <3>2. tokens[k].family \in Token
      BY <3>1, Typed DEF Maybe, TokenRow
    <3>3. tokens[k].family # n
      BY <1>7, <3>1, <3>2
    <3>4. CASE tokens[k].family = j
      BY <1>3, <1>4, <1>7, <1>1, <3>1, <3>2, <3>4
    <3>5. CASE tokens[k].family # j
      BY <1>4, <1>7, <3>1, <3>2, <3>3, <3>5
    <3> QED BY <3>4, <3>5
  <2> QED BY <2>2, <2>3
<1>10. CutOK'
  <2> SUFFICES ASSUME NEW k \in cut
               PROVE  k <= issued' /\ (tokens'[k] # None => tokens'[k].family \in cut')
    BY <1>0 DEF CutOK
  <2>1. k \in Token /\ k <= issued /\ (tokens[k] # None => tokens[k].family \in cut)
    BY DEF Parts, CutOK, TypeOK
  <2> QED BY <1>0, <1>1, <1>3, <1>4, <1>7, <2>1
<1>11. DevicesOK'
  <2>1. \A d \in Devices : device[d] # None =>
            device[d] <= issued /\ device[d] # n /\ device[d] \in Nat
    BY <1>7, DeviceTyped DEF Parts, DevicesOK
  <2>2. \A d \in Devices : device'[d] # None => device'[d] <= issued'
    BY <1>6, <1>7, <2>1
  <2>3. \A d, e \in Devices : device'[d] # None /\ device'[d] = device'[e] => d = e
    BY <1>6, <2>1 DEF Parts, DevicesOK
  <2> QED BY <2>2, <2>3 DEF DevicesOK
<1>12. RequestsOK'
  <2>1. ASSUME NEW o \in Tx, o # t, open[o] # None PROVE RequestOK(o)'
    <3>1. RequestOK(o) /\ open'[o] = open[o] /\ (open[o].token # None => open[o].token \in Token)
      BY <1>5, <2>1, RequestTyped DEF Parts, RequestsOK
    <3>2. open[o].token # None =>
              open[o].issueFor = None /\ open[o].token <= issued /\ open[o].token # n
                  /\ open[o].token <= issued'
      BY <1>7, <3>1 DEF RequestOK
    <3>3. ASSUME NEW d \in Devices, open[o].token # None, device'[d] = open[o].token
          PROVE  Waits(o, d)' \/ open[o].token \in cut'
      <4>1. device'[d] = device[d]
        BY <1>6, <3>2, <3>3
      <4> QED BY <1>0, <3>1, <3>3, <4>1 DEF RequestOK, Waits
    <3>4. SeenOK(o)'
      <4> SUFFICES ASSUME open[o].seen # None, NEW k \in Token, open[o].seen.tokens[k] # None
                   PROVE  /\ k <= issued' /\ open[o].seen.tokens[k].family <= issued'
                          /\ tokens'[k] # None =>
                                 /\ tokens'[k].family = open[o].seen.tokens[k].family
                                 /\ open[o].seen.tokens[k].revokedAt # None =>
                                        tokens'[k].revokedAt # None
        BY <3>1 DEF SeenOK
      <4>1. /\ k <= issued /\ open[o].seen.tokens[k].family <= issued
            /\ tokens[k] # None =>
                   /\ tokens[k].family = open[o].seen.tokens[k].family
                   /\ open[o].seen.tokens[k].revokedAt # None => tokens[k].revokedAt # None
        BY <3>1 DEF RequestOK, SeenOK
      <4>2. open[o].seen.tokens[k].family \in Nat
        <5>1. open[o].seen.tokens[k] \in TokenRow
          BY <2>1, SawTyped DEF Saw, Maybe
        <5> QED BY <1>7, <5>1 DEF TokenRow
      <4>3. k # n
        BY <1>7, <4>1
      <4>4. tokens'[k] # None =>
                /\ tokens[k] # None /\ tokens'[k].family = tokens[k].family
                /\ tokens[k].revokedAt # None => tokens'[k].revokedAt # None
        BY <1>1, <1>3, <1>4, <4>3
      <4> QED BY <1>7, <4>1, <4>2, <4>4
    <3> QED BY <3>1, <3>2, <3>3, <3>4 DEF RequestOK
  <2>2. \A o \in Tx : open'[o] # None => o # t /\ open[o] # None
    BY <1>5
  <2> QED BY <2>1, <2>2 DEF RequestsOK
<1>13. StaysSignedIn'
  <2> SUFFICES ASSUME NEW d \in Devices, device'[d] # None
               PROVE  IsLive(device[d])' \/ device'[d] \in ended' \cup cut'
    BY DEF StaysSignedIn
  <2>1. CASE device'[d] = n
    BY <1>1, <2>1 DEF IsLive
  <2>2. CASE device'[d] # n
    <3>1. device'[d] = device[d] /\ device[d] # None /\ device[d] \in Token /\ ~Exchanging(t, d)
      BY <1>6, <2>2, DeviceTyped
    <3>2. CASE device[d] = j
      <4>1. RequestOK(t)
        BY <1>0 DEF Parts, RequestsOK
      <4>2. j \in cut
        BY <1>0, <3>1, <3>2, <4>1 DEF RequestOK, Exchanging, j
      <4> QED BY <1>0, <3>1, <3>2, <4>2
    <3>3. CASE device[d] # j
      <4>1. IsLive(device[d]) \/ device[d] \in ended \cup cut
        BY <3>1 DEF Parts, StaysSignedIn
      <4>2. ASSUME IsLive(device[d]) PROVE IsLive(device[d])'
        <5>1. \A k \in Token : k # j /\ IsLive(k) => tokens'[k] # None /\ tokens'[k].revokedAt = None
          BY <1>8 DEF IsLive
        <5> QED BY <3>1, <3>3, <4>2, <5>1 DEF IsLive
      <4> QED BY <1>0, <3>1, <4>1, <4>2
    <3> QED BY <3>2, <3>3
  <2> QED BY <2>1, <2>2
<1>14. \A k \in Token : IsLive(k) /\ tokens[k].family = F => k = j \/ F \in cut
  BY <1>2 DEF Parts, OneChance, OneRefresh, j
<1>15. ASSUME NEW o \in Tx, Presents(o)'
       PROVE  /\ o # t /\ open'[o] = open[o] /\ Presents(o)
              /\ Row(o)'.family = Row(o).family
  <2>1. o # t /\ open'[o] = open[o] /\ open[o] # None /\ open[o].token # None /\ Row(o)' # None
    BY <1>5, <1>15 DEF Presents
  <2>2. CASE open[o].seen # None
    BY <2>1, <2>2 DEF Presents, Row
  <2>3. CASE open[o].seen = None
    <3>1. open[o].token \in Token /\ open[o].token <= issued
      BY <2>1, RequestTyped DEF Parts, RequestsOK, RequestOK
    <3>2. Row(o)' = tokens'[open[o].token] /\ Row(o) = tokens[open[o].token]
      BY <2>1, <2>3 DEF Row
    <3>3. tokens[open[o].token] # None /\ tokens'[open[o].token].family = tokens[open[o].token].family
      BY <1>1, <1>3, <1>4, <1>7, <2>1, <3>1, <3>2
    <3> QED BY <2>1, <3>2, <3>3 DEF Presents
  <2> QED BY <2>2, <2>3
<1>16. ASSUME NEW i \in Token, IsLive(i)', i # n
       PROVE  IsLive(i) /\ i # j /\ tokens'[i] = tokens[i]
  BY <1>4, <1>8, <1>16
<1>17. OneLivePerFamily'
  <2> SUFFICES ASSUME NEW k \in Token, NEW m \in Token, IsLive(k)', IsLive(m)',
                      tokens'[k].family = tokens'[m].family
               PROVE  k = m \/ tokens'[k].family \in cut
    BY <1>0 DEF OneLivePerFamily
  <2>1. CASE k # n /\ m # n
    <3>1. /\ IsLive(k) /\ IsLive(m) /\ tokens'[k] = tokens[k] /\ tokens'[m] = tokens[m]
      BY <1>16, <2>1
    <3>2. tokens[k].family = tokens[m].family
      BY <3>1
    <3> QED BY <3>1, <3>2 DEF Parts, OneChance, OneLivePerFamily
  <2>2. CASE k = n /\ m # n
    <3>1. IsLive(m) /\ m # j /\ tokens[m].family = F /\ tokens'[k].family = F
      BY <1>1, <1>16, <2>2
    <3> QED BY <1>14, <3>1
  <2>3. CASE k # n /\ m = n
    <3>1. IsLive(k) /\ k # j /\ tokens[k].family = F /\ tokens'[k].family = F
      BY <1>1, <1>16, <2>3
    <3> QED BY <1>14, <3>1
  <2> QED BY <2>1, <2>2, <2>3
<1>18. OneRefresh'
  <2>1. ASSUME NEW o \in Tx, NEW k \in Token, Presents(o)', IsLive(k)',
               tokens'[k].family = Row(o)'.family
        PROVE  k = open'[o].token \/ Row(o)'.family \in cut'
    <3>1. o # t /\ open'[o] = open[o] /\ Presents(o) /\ Row(o)'.family = Row(o).family
      BY <1>15, <2>1
    <3>2. CASE k = n
      <4>1. Row(o).family = F
        BY <1>1, <2>1, <3>1, <3>2
      <4>2. o = t \/ F \in cut
        BY <1>2, <3>1, <4>1 DEF Parts, OneChance, OneRefresh
      <4> QED BY <1>0, <3>1, <4>1, <4>2
    <3>3. CASE k # n
      <4>1. IsLive(k) /\ tokens[k].family = Row(o).family
        BY <1>16, <2>1, <3>1, <3>3
      <4>2. k = open[o].token \/ Row(o).family \in cut
        BY <3>1, <4>1 DEF Parts, OneChance, OneRefresh
      <4> QED BY <1>0, <3>1, <4>2
    <3> QED BY <3>2, <3>3
  <2>2. ASSUME NEW o \in Tx, NEW p \in Tx, Presents(o)', Presents(p)',
               Row(o)'.family = Row(p)'.family
        PROVE  o = p \/ Row(o)'.family \in cut'
    <3>1. /\ Presents(o) /\ Presents(p) /\ Row(o).family = Row(p).family
          /\ Row(o)'.family = Row(o).family
      BY <1>15, <2>2
    <3>2. o = p \/ Row(o).family \in cut
      BY <3>1 DEF Parts, OneChance, OneRefresh
    <3> QED BY <1>0, <3>1, <3>2
  <2> QED BY <2>1, <2>2 DEF OneRefresh
\* The device that waits has the new token; another one has what it had.
<1>19. ASSUME NEW d \in Devices, Holds(d)'
       PROVE  \/ device'[d] = n /\ Waits(t, d) /\ HeldFamily(d)' = F
              \/ /\ device'[d] = device[d] /\ Holds(d) /\ HeldFamily(d)' = HeldFamily(d)
                 /\ ~Exchanging(t, d)
  <2>1. device'[d] # None /\ tokens'[device'[d]] # None
    BY <1>19 DEF Holds
  <2>2. device[d] # None => device[d] \in Token /\ device[d] # n
    BY <1>7, DeviceTyped DEF Parts, DevicesOK
  <2>3. CASE device'[d] = n
    <3>1. device'[d] # device[d]
      BY <2>1, <2>2, <2>3
    <3> QED BY <1>1, <1>6, <2>3, <3>1 DEF HeldFamily
  <2>4. CASE device'[d] # n
    <3>1. device'[d] = device[d] /\ device[d] \in Token /\ device[d] # None /\ ~Exchanging(t, d)
      BY <1>6, <2>1, <2>2, <2>4
    <3>2. tokens[device[d]] # None /\ tokens'[device[d]].family = tokens[device[d]].family
      BY <1>1, <1>3, <1>4, <2>1, <2>4, <3>1
    <3> QED BY <3>1, <3>2 DEF Holds, HeldFamily
  <2> QED BY <2>3, <2>4
<1>20. ASSUME NEW d \in Devices, Holds(d), ~Exchanging(t, d), HeldFamily(d) = F
       PROVE  F \in cut
  BY <1>2, <1>20, HolderWaits DEF Exchanging
<1>21. OneHolder'
  <2>1. ASSUME NEW d \in Devices, NEW k \in Token, Holds(d)', IsLive(k)',
               tokens'[k].family = HeldFamily(d)'
        PROVE  k = device'[d] \/ HeldFamily(d)' \in cut'
    <3>1. CASE device'[d] = n /\ HeldFamily(d)' = F /\ k # n
      BY <1>0, <1>14, <1>16, <2>1, <3>1
    <3>2. CASE device'[d] = n /\ k = n
      BY <3>2
    <3>3. CASE /\ device'[d] = device[d] /\ Holds(d) /\ HeldFamily(d)' = HeldFamily(d)
               /\ ~Exchanging(t, d)
      <4>1. CASE k = n
        BY <1>0, <1>1, <1>20, <2>1, <3>3, <4>1
      <4>2. CASE k # n
        <5>1. IsLive(k) /\ tokens[k].family = HeldFamily(d)
          BY <1>16, <2>1, <3>3, <4>2
        <5>2. k = device[d] \/ HeldFamily(d) \in cut
          BY <3>3, <5>1 DEF Parts, OneChance, OneHolder
        <5> QED BY <1>0, <3>3, <5>2
      <4> QED BY <4>1, <4>2
    <3> QED BY <1>19, <2>1, <3>1, <3>2, <3>3
  <2>2. ASSUME NEW d \in Devices, NEW e \in Devices, Holds(d)', Holds(e)',
               HeldFamily(d)' = HeldFamily(e)'
        PROVE  d = e \/ HeldFamily(d)' \in cut'
    <3> DEFINE New(x) == Waits(t, x) /\ HeldFamily(x)' = F
               Old(x) == Holds(x) /\ HeldFamily(x)' = HeldFamily(x) /\ ~Exchanging(t, x)
    <3>1. (New(d) \/ Old(d)) /\ (New(e) \/ Old(e))
      BY <1>19, <2>2
    <3>2. CASE New(d) /\ New(e)
      BY <1>6, <3>2
    <3>3. CASE New(d) /\ Old(e)
      <4>1. HeldFamily(e) = F /\ HeldFamily(d)' = F
        BY <2>2, <3>3
      <4> QED BY <1>0, <1>20, <3>3, <4>1
    <3>4. CASE Old(d) /\ New(e)
      <4>1. HeldFamily(d) = F /\ HeldFamily(d)' = F
        BY <2>2, <3>4
      <4> QED BY <1>0, <1>20, <3>4, <4>1
    <3>5. CASE Old(d) /\ Old(e)
      <4>1. d = e \/ HeldFamily(d) \in cut
        BY <2>2, <3>5 DEF Parts, OneChance, OneHolder
      <4> QED BY <1>0, <3>5, <4>1
    <3> QED BY <3>1, <3>2, <3>3, <3>4, <3>5
  <2>3. ASSUME NEW o \in Tx, NEW d \in Devices, Presents(o)', Holds(d)',
               HeldFamily(d)' = Row(o)'.family
        PROVE  device'[d] = open'[o].token \/ Row(o)'.family \in cut'
    <3>1. o # t /\ open'[o] = open[o] /\ Presents(o) /\ Row(o)'.family = Row(o).family
      BY <1>15, <2>3
    <3>2. CASE HeldFamily(d)' = F /\ device'[d] = n
      <4>1. o = t \/ F \in cut
        BY <1>2, <2>3, <3>1, <3>2 DEF Parts, OneChance, OneRefresh
      <4> QED BY <1>0, <2>3, <3>1, <3>2, <4>1
    <3>3. CASE device'[d] = device[d] /\ Holds(d) /\ HeldFamily(d)' = HeldFamily(d)
      <4>1. HeldFamily(d) = Row(o).family
        BY <2>3, <3>1, <3>3
      <4>2. device[d] = open[o].token \/ Row(o).family \in cut
        BY <3>1, <3>3, <4>1 DEF Parts, OneChance, OneHolder
      <4> QED BY <1>0, <3>1, <3>3, <4>2
    <3> QED BY <1>19, <2>3, <3>2, <3>3
  <2> QED BY <2>1, <2>2, <2>3 DEF OneHolder
<1> QED BY <1>9, <1>10, <1>11, <1>12, <1>13, <1>17, <1>18, <1>21 DEF Parts, OneChance

\* Signing in starts a family of its own; some device may get its token.
LEMMA IssueKeeps ==
    ASSUME TypeOK, Parts, NEW t \in Tx, IssueTokens(t)
    PROVE  Parts'
<1> DEFINE n == issued + 1
<1>0. /\ open[t] # None /\ open[t].issueFor # None /\ Done(t) /\ UNCHANGED <<ended, cut>>
      /\ \/ \E d \in Devices : device' = [device EXCEPT ![d] = n]
         \/ UNCHANGED device
  BY DEF IssueTokens
<1>1. /\ n \in Token /\ issued \in Nat /\ issued' = n
      /\ tokens'[n] # None /\ tokens'[n].revokedAt = None /\ tokens'[n].family = n
      /\ \A k \in Token \ {n} : tokens'[k] = tokens[k]
  BY IssueTyped, Typed
<1>2. open[t].token = None
  <2>1. RequestOK(t)
    BY <1>0 DEF Parts, RequestsOK
  <2> QED BY <1>0, <2>1 DEF RequestOK
<1>3. \A o \in Tx : open'[o] = IF o = t THEN None ELSE open[o]
  BY <1>0, Typed DEF Done
<1>4. \A d \in Devices : device'[d] \in {device[d], n}
  BY <1>0, Typed
<1>5. \A d, e \in Devices : device'[d] = n /\ device'[e] = n => d = e
  <2>1. \A d \in Devices : device[d] # n
    <3>1. \A d \in Devices : device[d] # None => device[d] <= issued /\ device[d] \in Nat
      BY DeviceTyped DEF Parts, DevicesOK, Token
    <3>2. n # None
      BY <1>1, NoneIs
    <3> QED BY <1>1, <3>1, <3>2
  <2>2. CASE UNCHANGED device
    BY <2>1, <2>2
  <2>3. ASSUME NEW f \in Devices, device' = [device EXCEPT ![f] = n]
        PROVE  \A d \in Devices : device'[d] = n => d = f
    BY <2>1, <2>3, Typed
  <2> QED BY <1>0, <2>2, <2>3
<1> HIDE DEF n
<1>6. /\ issued' = issued + 1 /\ n = issued + 1 /\ n # None
      /\ \A k \in Token : k \in Nat /\ (k <= issued => k # n /\ k <= issued')
  BY <1>1, NoneIs DEF n, Token
<1>7. \A k \in Token : IsLive(k)' <=> k = n \/ IsLive(k)
  <2>1. tokens[n] = None
    BY <1>1, <1>6 DEF Parts, TokensOK
  <2> QED BY <1>1, <2>1 DEF IsLive
<1>8. TokensOK'
  <2> SUFFICES ASSUME NEW k \in Token, tokens'[k] # None
               PROVE  /\ k <= issued' /\ tokens'[k].family <= issued'
                      /\ tokens'[tokens'[k].family] # None =>
                             tokens'[tokens'[k].family].family = tokens'[k].family
    BY DEF TokensOK
  <2>1. CASE k = n
    BY <1>1, <1>6, <2>1
  <2>2. CASE k # n
    <3>1. /\ tokens'[k] = tokens[k] /\ tokens[k] # None
          /\ k <= issued /\ tokens[k].family <= issued
          /\ tokens[tokens[k].family] # None => tokens[tokens[k].family].family = tokens[k].family
      BY <1>1, <2>2 DEF Parts, TokensOK
    <3>2. tokens[k].family \in Token
      BY <3>1, Typed DEF Maybe, TokenRow
    <3> QED BY <1>1, <1>6, <3>1, <3>2
  <2> QED BY <2>1, <2>2
<1>9. CutOK'
  <2> SUFFICES ASSUME NEW k \in cut
               PROVE  k <= issued' /\ (tokens'[k] # None => tokens'[k].family \in cut')
    BY <1>0 DEF CutOK
  <2>1. k \in Token /\ k <= issued /\ (tokens[k] # None => tokens[k].family \in cut)
    BY DEF Parts, CutOK, TypeOK
  <2> QED BY <1>0, <1>1, <1>6, <2>1
<1>10. DevicesOK'
  <2>1. \A d \in Devices : device'[d] # None => device'[d] <= issued'
    <3>1. \A d \in Devices : device[d] # None => device[d] \in Token /\ device[d] <= issued
      BY DeviceTyped DEF Parts, DevicesOK
    <3>2. n <= issued'
      BY <1>1, <1>6
    <3> QED BY <1>4, <1>6, <3>1, <3>2
  <2>2. \A d, e \in Devices : device'[d] # None /\ device'[d] = device'[e] => d = e
    <3>1. ASSUME NEW d \in Devices, device'[d] # n PROVE device'[d] = device[d]
      BY <1>4, <3>1
    <3> QED BY <1>5, <3>1 DEF Parts, DevicesOK
  <2> QED BY <2>1, <2>2 DEF DevicesOK
<1>11. RequestsOK'
  <2>1. ASSUME NEW o \in Tx, o # t, open[o] # None PROVE RequestOK(o)'
    <3>1. RequestOK(o) /\ open'[o] = open[o] /\ (open[o].token # None => open[o].token \in Token)
      BY <1>3, <2>1, RequestTyped DEF Parts, RequestsOK
    <3>2. open[o].token # None =>
              open[o].issueFor = None /\ open[o].token # n /\ open[o].token <= issued'
      BY <1>6, <3>1 DEF RequestOK
    <3>3. ASSUME NEW d \in Devices, open[o].token # None, device'[d] = open[o].token
          PROVE  Waits(o, d)' \/ open[o].token \in cut'
      <4>1. device[d] = open[o].token
        BY <1>4, <3>2, <3>3
      <4> QED BY <1>0, <3>1, <3>3, <4>1 DEF RequestOK, Waits
    <3>4. SeenOK(o)'
      <4> SUFFICES ASSUME open[o].seen # None, NEW k \in Token, open[o].seen.tokens[k] # None
                   PROVE  /\ k <= issued' /\ open[o].seen.tokens[k].family <= issued'
                          /\ tokens'[k] # None =>
                                 /\ tokens'[k].family = open[o].seen.tokens[k].family
                                 /\ open[o].seen.tokens[k].revokedAt # None =>
                                        tokens'[k].revokedAt # None
        BY <3>1 DEF SeenOK
      <4>1. /\ k <= issued /\ open[o].seen.tokens[k].family <= issued
            /\ tokens[k] # None =>
                   /\ tokens[k].family = open[o].seen.tokens[k].family
                   /\ open[o].seen.tokens[k].revokedAt # None => tokens[k].revokedAt # None
        BY <3>1 DEF RequestOK, SeenOK
      <4>2. open[o].seen.tokens[k].family \in Token
        <5>1. open[o].seen.tokens[k] \in TokenRow
          BY <2>1, SawTyped DEF Saw, Maybe
        <5> QED BY <5>1 DEF TokenRow
      <4>3. k # n
        BY <1>6, <4>1
      <4> QED BY <1>1, <1>6, <4>1, <4>2, <4>3
    <3> QED BY <3>1, <3>2, <3>3, <3>4 DEF RequestOK
  <2>2. \A o \in Tx : open'[o] # None => o # t /\ open[o] # None
    BY <1>3
  <2> QED BY <2>1, <2>2 DEF RequestsOK
<1>12. StaysSignedIn'
  <2> SUFFICES ASSUME NEW d \in Devices, device'[d] # None
               PROVE  IsLive(device[d])' \/ device'[d] \in ended' \cup cut'
    BY DEF StaysSignedIn
  <2>1. CASE device'[d] = n
    BY <1>1, <2>1 DEF IsLive
  <2>2. CASE device'[d] # n
    <3>1. device'[d] = device[d] /\ device[d] \in Token
      BY <1>4, <2>2, DeviceTyped
    <3>2. IsLive(device[d]) \/ device[d] \in ended \cup cut
      BY <3>1 DEF Parts, StaysSignedIn
    <3>3. tokens'[device[d]] = tokens[device[d]]
      BY <1>1, <2>2, <3>1
    <3> QED BY <1>0, <3>1, <3>2, <3>3 DEF IsLive
  <2> QED BY <2>1, <2>2
<1>13. \A k \in Token : tokens[k] # None => tokens'[k] = tokens[k] /\ tokens[k].family # n /\ k # n
  <2> SUFFICES ASSUME NEW k \in Token, tokens[k] # None
               PROVE  tokens'[k] = tokens[k] /\ tokens[k].family # n /\ k # n
    OBVIOUS
  <2>1. k <= issued /\ tokens[k].family <= issued
    BY DEF Parts, TokensOK
  <2>2. tokens[k].family \in Token
    BY Typed DEF Maybe, TokenRow
  <2> QED BY <1>1, <1>6, <2>1, <2>2
\* Nothing known before the step is of the new family.
<1>14. ASSUME NEW o \in Tx, Presents(o)'
       PROVE  /\ open'[o] = open[o] /\ Presents(o) /\ Row(o)' = Row(o)
              /\ Row(o).family # n
  <2>1. open'[o] = open[o] /\ open[o] # None /\ open[o].token # None
    BY <1>3, <1>14 DEF Presents
  <2>2. open[o].token \in Token /\ open[o].token <= issued
    BY <2>1, RequestTyped DEF Parts, RequestsOK, RequestOK
  <2>3. tokens'[open[o].token] = tokens[open[o].token]
    BY <1>1, <1>6, <2>2
  <2>4. Row(o)' = Row(o)
    BY <2>1, <2>3 DEF Row
  <2>5. Presents(o)
    BY <1>14, <2>1, <2>4 DEF Presents
  <2>6. Row(o).family \in Token /\ Row(o).family <= issued
    BY <2>5, PresentsTyped
  <2> QED BY <1>6, <2>1, <2>4, <2>5, <2>6
<1>15. ASSUME NEW k \in Token, IsLive(k)', tokens'[k].family # n
       PROVE  IsLive(k) /\ tokens'[k] = tokens[k]
  BY <1>1, <1>7, <1>15
<1>16. ASSUME NEW d \in Devices, Holds(d)'
       PROVE  \/ device'[d] = n /\ HeldFamily(d)' = n
              \/ /\ device'[d] = device[d] /\ Holds(d) /\ HeldFamily(d)' = HeldFamily(d)
                 /\ HeldFamily(d) # n
  <2>1. device'[d] # None /\ tokens'[device'[d]] # None
    BY <1>16 DEF Holds
  <2>2. CASE device'[d] = n
    BY <1>1, <2>2 DEF HeldFamily
  <2>3. CASE device'[d] # n
    <3>1. device'[d] = device[d] /\ device[d] \in Token
      BY <1>4, <2>1, <2>3, DeviceTyped
    <3>2. tokens'[device[d]] = tokens[device[d]]
      BY <1>1, <2>3, <3>1
    <3> QED BY <1>13, <2>1, <3>1, <3>2 DEF Holds, HeldFamily
  <2> QED BY <2>2, <2>3
<1>17. OneLivePerFamily'
  <2> SUFFICES ASSUME NEW k \in Token, NEW m \in Token, IsLive(k)', IsLive(m)',
                      tokens'[k].family = tokens'[m].family
               PROVE  k = m \/ tokens'[k].family \in cut
    BY <1>0 DEF OneLivePerFamily
  <2>1. CASE tokens'[k].family # n
    <3>1. /\ IsLive(k) /\ IsLive(m) /\ tokens'[k] = tokens[k] /\ tokens'[m] = tokens[m]
      BY <1>15, <2>1
    <3>2. tokens[k].family = tokens[m].family
      BY <3>1
    <3> QED BY <3>1, <3>2 DEF Parts, OneChance, OneLivePerFamily
  <2>2. CASE tokens'[k].family = n
    BY <1>7, <1>13, <2>2 DEF IsLive
  <2> QED BY <2>1, <2>2
<1>18. OneRefresh'
  <2>1. ASSUME NEW o \in Tx, NEW k \in Token, Presents(o)', IsLive(k)',
               tokens'[k].family = Row(o)'.family
        PROVE  k = open'[o].token \/ Row(o)'.family \in cut'
    <3>1. open'[o] = open[o] /\ Presents(o) /\ Row(o)' = Row(o) /\ Row(o).family # n
      BY <1>14, <2>1
    <3>2. IsLive(k) /\ tokens[k].family = Row(o).family
      BY <1>15, <2>1, <3>1
    <3>3. k = open[o].token \/ Row(o).family \in cut
      BY <3>1, <3>2 DEF Parts, OneChance, OneRefresh
    <3> QED BY <1>0, <3>1, <3>3
  <2>2. ASSUME NEW o \in Tx, NEW p \in Tx, Presents(o)', Presents(p)',
               Row(o)'.family = Row(p)'.family
        PROVE  o = p \/ Row(o)'.family \in cut'
    <3>1. Presents(o) /\ Presents(p) /\ Row(o)' = Row(o) /\ Row(p)' = Row(p)
      BY <1>14, <2>2
    <3>2. Row(o).family = Row(p).family
      BY <2>2, <3>1
    <3>3. o = p \/ Row(o).family \in cut
      BY <3>1, <3>2 DEF Parts, OneChance, OneRefresh
    <3> QED BY <1>0, <3>1, <3>3
  <2> QED BY <2>1, <2>2 DEF OneRefresh
<1>19. OneHolder'
  <2>1. ASSUME NEW d \in Devices, NEW k \in Token, Holds(d)', IsLive(k)',
               tokens'[k].family = HeldFamily(d)'
        PROVE  k = device'[d] \/ HeldFamily(d)' \in cut'
    <3>1. CASE device'[d] = n /\ HeldFamily(d)' = n
      BY <1>7, <1>13, <2>1, <3>1 DEF IsLive
    <3>2. CASE device'[d] = device[d] /\ Holds(d) /\ HeldFamily(d)' = HeldFamily(d) /\ HeldFamily(d) # n
      <4>1. IsLive(k) /\ tokens[k].family = HeldFamily(d)
        BY <1>15, <2>1, <3>2
      <4>2. k = device[d] \/ HeldFamily(d) \in cut
        BY <3>2, <4>1 DEF Parts, OneChance, OneHolder
      <4> QED BY <1>0, <3>2, <4>2
    <3> QED BY <1>16, <2>1, <3>1, <3>2
  <2>2. ASSUME NEW d \in Devices, NEW e \in Devices, Holds(d)', Holds(e)',
               HeldFamily(d)' = HeldFamily(e)'
        PROVE  d = e \/ HeldFamily(d)' \in cut'
    <3>1. CASE HeldFamily(d)' = n
      <4>1. device'[d] = n /\ device'[e] = n
        BY <1>16, <2>2, <3>1
      <4> QED BY <1>5, <4>1
    <3>2. CASE HeldFamily(d)' # n
      <4>1. /\ Holds(d) /\ Holds(e) /\ HeldFamily(d)' = HeldFamily(d)
            /\ HeldFamily(e)' = HeldFamily(e)
        BY <1>16, <2>2, <3>2
      <4>2. d = e \/ HeldFamily(d) \in cut
        BY <2>2, <4>1 DEF Parts, OneChance, OneHolder
      <4> QED BY <1>0, <4>1, <4>2
    <3> QED BY <3>1, <3>2
  <2>3. ASSUME NEW o \in Tx, NEW d \in Devices, Presents(o)', Holds(d)',
               HeldFamily(d)' = Row(o)'.family
        PROVE  device'[d] = open'[o].token \/ Row(o)'.family \in cut'
    <3>1. open'[o] = open[o] /\ Presents(o) /\ Row(o)' = Row(o) /\ Row(o).family # n
      BY <1>14, <2>3
    <3>2. device'[d] = device[d] /\ Holds(d) /\ HeldFamily(d)' = HeldFamily(d)
      BY <1>16, <2>3, <3>1
    <3>3. HeldFamily(d) = Row(o).family
      BY <2>3, <3>1, <3>2
    <3>4. device[d] = open[o].token \/ Row(o).family \in cut
      BY <3>1, <3>2, <3>3 DEF Parts, OneChance, OneHolder
    <3> QED BY <1>0, <3>1, <3>2, <3>4
  <2> QED BY <2>1, <2>2, <2>3 DEF OneHolder
<1> QED BY <1>8, <1>9, <1>10, <1>11, <1>12, <1>17, <1>18, <1>19 DEF Parts, OneChance
-----------------------------------------------------------------------------
(* The theorems.                                                           *)

LEMMA InitHolds == Init => IInv
<1> SUFFICES ASSUME Init PROVE IInv
  OBVIOUS
<1>1. /\ now = 0 /\ users = [u \in Users |-> None] /\ tokens = [k \in Token |-> None]
      /\ links = [l \in Link |-> None] /\ issued = 0 /\ mailed = 0 /\ calls = 0
      /\ open = [t \in Tx |-> None]
      /\ device = [d \in Devices |-> None]
      /\ ended = {} /\ cut = {}
  BY DEF Init
<1>2. TypeOK
  BY <1>1, AccountsAssumption DEF TypeOK, Db, Tables, Maybe
<1>3. TokensOK /\ CutOK /\ DevicesOK /\ RequestsOK /\ StaysSignedIn
  BY <1>1 DEF TokensOK, CutOK, DevicesOK, RequestsOK, StaysSignedIn
<1>4. OneChance
  BY <1>1 DEF OneChance, OneRefresh, OneHolder, OneLivePerFamily, Presents, Holds, IsLive
<1> QED BY <1>2, <1>3, <1>4 DEF IInv

LEMMA NextKeeps == IInv /\ [Next]_vars => IInv'
<1> SUFFICES ASSUME IInv, [Next]_vars PROVE IInv'
  OBVIOUS
<1>1. TypeOK /\ Parts /\ DevicesOK
  BY DEF IInv, Parts
<1>2. TypeOK'
  BY <1>1, TypesStep
<1>3. CASE UNCHANGED vars
  <2>1. UNCHANGED <<tokens, issued, open, device, ended, cut>>
    BY <1>3 DEF vars, db
  <2>2. TokensOK' /\ CutOK' /\ DevicesOK' /\ StaysSignedIn' /\ OneLivePerFamily'
    BY <1>1, <2>1, StoreKeeps
  <2>3. /\ \A t \in Tx : (Presents(t)' <=> Presents(t)) /\ Row(t)' = Row(t)
        /\ \A t \in Tx : RequestOK(t) => RequestOK(t)'
    BY <2>1 DEF Presents, Row, RequestOK, SeenOK, Waits
  <2>4. OneRefresh' /\ OneHolder'
    BY <1>1, <2>1, <2>3, KnownKeeps
  <2>5. RequestsOK'
    BY <1>1, <2>1, <2>3 DEF Parts, RequestsOK
  <2> QED BY <1>2, <2>2, <2>4, <2>5 DEF IInv, OneChance
<1>4. CASE QuietActions
  BY <1>1, <1>4, QuietStep, QuietKeeps DEF IInv, Parts
<1>5. ASSUME NEW t \in Tx, NEW d \in Devices, NEW c \in Clients, Send(t, d, c) PROVE IInv'
  BY <1>1, <1>2, <1>5, SendKeeps DEF IInv, Parts
<1>6. ASSUME NEW t \in Tx, ReadToken(t) PROVE IInv'
  BY <1>1, <1>2, <1>6, ReadKeeps DEF IInv, Parts
<1>7. ASSUME NEW t \in Tx, Refresh(t) PROVE IInv'
  BY <1>1, <1>2, <1>7, RotationKeeps DEF IInv, Parts
<1>8. ASSUME NEW t \in Tx, IssueTokens(t) PROVE IInv'
  BY <1>1, <1>2, <1>8, IssueKeeps DEF IInv, Parts
<1>9. ASSUME NEW d \in Devices, Die(d) PROVE IInv'
  BY <1>1, <1>2, <1>9, DieKeeps DEF IInv, Parts
<1> QED BY <1>3, <1>4, <1>5, <1>6, <1>7, <1>8, <1>9 DEF Next, QuietActions

(* The inductive invariant, of every reachable state.                      *)
THEOREM AccountsInductive == Spec => []IInv
BY InitHolds, NextKeeps, PTL DEF Spec

(* The tables, the requests and the devices keep their shape.              *)
THEOREM AccountsTyped == Spec => []TypeOK
<1>1. IInv => TypeOK
  BY DEF IInv
<1> QED BY <1>1, AccountsInductive, PTL

(* A device's token is revoked only on purpose, or after an exchange in    *)
(* which its app died or two of its clients presented it: not by late      *)
(* requests, reuse detection, other devices or accounts, or the purger.    *)
THEOREM StaysIn == Spec => []StaysSignedIn
<1>1. IInv => StaysSignedIn
  BY DEF IInv
<1> QED BY <1>1, AccountsInductive, PTL

(* A session never has two usable tokens, except after an exchange in      *)
(* which its app died or two of its clients presented one token.           *)
THEOREM OneTokenPerFamily == Spec => []OneLivePerFamily
<1>1. IInv => OneLivePerFamily
  BY DEF IInv, OneChance
<1> QED BY <1>1, AccountsInductive, PTL
=============================================================================
