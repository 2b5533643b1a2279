# Study League: verification project

TLA+ specifications of the parts of Study League in which several actors touch
the same state, TLC configurations that check them on small instances, and
TLAPS proofs of what matters most. Paths below are relative to the repository
(`src/`); `api` stands for `services/api/app`.

## The system

Study League is a study timer with a competitive league. A phone app (Expo,
SQLite) records timer sessions offline and uploads them; a FastAPI service over
PostgreSQL judges and stores them; an ARQ worker runs four cron jobs; Redis
carries presence and fan-out; a web dashboard reads.

| Component | Code | State it keeps | Operations | Talks to |
|---|---|---|---|---|
| Timeline and integrity rules | `api/domain/sessions/{timeline,integrity}.py`, `apps/mobile/src/features/timer/timeline.ts` | none | derive a timeline from events; judge it | sessions, reaper, phone |
| Study-session service | `api/domain/sessions/service.py`, `api/models/study.py` | `study_sessions`, `study_session_events`, `audit_logs` | start, pause, resume, stop, manual entry, batch sync | phone, reaper, league, statistics |
| Session reaper | `services/worker/worker/jobs/session_reaper.py` | same tables | hourly: close abandoned sessions | session service, through the tables |
| Phone timer, database, outbox | `apps/mobile/src/features/{timer,sync}`, `lib/database.ts` | `local_sessions`, `local_events`, store in memory | start/pause/resume/stop, hydrate, flush | `/sync` over a lossy network |
| Accounts, refresh tokens | `api/domain/accounts/service.py`, `packages/api-client/src/client.ts` | `users`, `refresh_tokens`, `password_reset_tokens`; the client's stored token | register, login, refresh, logout, password change and reset, rename, delete | phone, web, purger |
| Account purger | `services/worker/worker/jobs/account_purger.py` | the same tables, and all that cascades | daily: purge deleted accounts, sweep dead tokens | accounts, groups, league |
| Groups | `api/domain/social/groups.py` | `study_groups`, `group_memberships`, `group_invitations` | create, edit, retire, join, leave, remove, roles, invite, answer | friendships, purger |
| Friendships, encouragements | `api/domain/social/service.py`, `api/domain/realtime/service.py` | `friendships`: up to two rows per pair, one per direction | request, accept, decline, remove, block, unblock, encourage | groups, presence, push |
| League, scoring | `api/domain/{league,scoring}`, `jobs/league_scorer.py` | seasons, cohorts, enrolments, scores, mission progress | enrol, score the week, close the season | sessions (reads), worker |
| Statistics | `api/domain/statistics` | none | daily and weekly summary, totals per subject, streaks, months, yearly insights | sessions (reads) |
| Goals | `api/domain/goals` | study goals and their milestones | create, update, list with progress | statistics |
| Push delivery | `api/domain/platform/{push,notifications}.py`, `jobs/push_notifier.py` | `notifications.pushed_at`, push tokens, a setting | create, read settings and tokens, send, stamp | Expo |
| Presence, realtime | `api/domain/social/presence.py`, `api/domain/realtime/*`, `RealtimeClient.ts` | Redis keys with a TTL, subscriptions, queues | heartbeat, clear, publish, reconnect | phone |
| Planner, subjects | `api/domain/{planner,subjects}` | plans and tasks, subjects | edit, carry forward, reorder | statistics, league |
| Moderation, reports, community | `api/domain/platform/{reports,moderation}.py`, `api/domain/community` | reports, posts, comments, reactions | report, decide, post, react | |
| Rate limit, export, e-mail, HTTP, web, screens | `api/api`, `apps/web/src`, `apps/mobile/src/screens` | a window of time stamps in Redis | read, route, show | all of the above |

The core keeps the same facts about a session in two places: its event log and
the row that caches what the log derives. Each exists twice, on the phone and on
the server, and most of what can go wrong there is a disagreement between two
of these four. The rest of the service has a pattern of its own: a request
reads, decides on what it has read, and writes later.

### What makes it hard

* **Requests race.** Every API request and every worker job is a PostgreSQL
  transaction at READ COMMITTED (some are two) with several awaits between its
  reads and its commit. The services check first and write later; only unique
  indexes stop what the checks miss, and rows are written back column by column
  without a version check.
* **Handlers race on the phone.** JavaScript is single-threaded, but every
  SQLite call is an await: another press, a flush started by another screen, a
  sign-out or the death of the process falls between two of them.
* **The network.** An upload or a refresh can be lost, answered and not heard,
  or arrive after its sender gave up and sent a newer one.
* **Time.** Event times are the client's; they may repeat, run backwards or lie
  in the future, and decide what is credited.
* **Jobs.** The reaper, the scorer, the push job and the purger run against
  live traffic and may overlap, fail half-way, be cancelled or miss a run.

### What correctness means

| Component | Properties |
|---|---|
| Timeline, integrity | the loop computes what the rules define; phone and server agree to the second a float sum can lose; credited time never exceeds wall time; a stop freezes it |
| Session service, reaper | one running session per user; recorded events are never lost or changed; completed only with a stop, and for good; row = what the log derives; manual time and overlapping time never verified; a new exclusion is audited with its reasons; only one's own rows; a retry changes no credit; abandoned sessions get closed |
| Phone | what is shown is stored; what is marked synced or deleted is on the server; no running session forgotten; the server never told two stories; finished sessions reach the server |
| Accounts | a device is signed out only on purpose and a session has one usable token, as long as each exchange of a token is one request that ends |
| Groups | a visible group has one owner, a member; a private group only invited members; a limit is exceeded by the requests in flight at most |
| Friendships | nobody is a friend who did not agree; the pair's rows do not contradict each other |
| League, scoring | a week is worth 0 to 1000 points and studying never costs any; closed standings explain themselves; what they count of the last week was read after the season was over; every season closes |
| Statistics, goals | every second in one column; the week shown is the week scored; streaks and longest runs are what they say; the sums of days, months and subjects are those of the year; a met goal shows as met |
| Push | stamped only when sent; sent once by runs that neither fail nor overlap; nothing stays pending |

## The modules

| Module | Models | Extends or instantiates |
|---|---|---|
| `Timeline` | `derive_timeline`, `validate_transition`, `evaluate_session`: pure definitions | |
| `TimelineLoop` | the same two loops (server, phone) step by step, over every log that can arrive | `Timeline` |
| `StudySessions` | session service and reaper over one database | `Timeline`, `Ledger` |
| `Ledger` | abstract: what the server promises of recorded time | |
| `Phone` | timer store, SQLite tables, outbox, sign-in state, network | |
| `Accounts` | account service, the client that refreshes, the purger | |
| `Groups` | groups, members, invitations | |
| `Social` | friendships, blocks, encouragements | |
| `Scoring` | a week's points, missions' progress: pure definitions | |
| `Statistics` | summaries, totals, streaks, insights, weekly facts: pure definitions | `Scoring`, for its rounding |
| `Goals` | a goal under create and update, and its progress: pure definitions | `Statistics` |
| `League` | one season: enrolment, the hourly job, closing | `Scoring` |
| `Push` | notifications and the job that delivers them | |
| `MCStudySessions`, `MCPhone`, `MCAccounts`, `MCGroups`, `MCSocial`, `MCLeague` | inputs and symmetry of the runs; `MCLeague` also joins `League` with `Goals` | the module they are named after |
| `TimelineLoop_proofs`, `StudySessions_proofs`, `Phone_proofs`, `Accounts_proofs`, `Groups_proofs`, `Social_proofs`, `League_proofs`, `Push_proofs` | theorems; those about `Ledger` are in `StudySessions_proofs`, those about `Scoring` and `Statistics` in `League_proofs` | the module they are named after, TLAPS |

How they meet:

* `StudySessions` composes the rules (as operators of `Timeline`), the service and
  the reaper, and implements `Ledger` under the mapping of its `ImplementsLedger`:
  the owner of a session is its row's user, its record is its committed events,
  and the closed sessions are those with the reaper's audit entry.
* `Phone` and `StudySessions` meet at `POST /sync`: in `Phone` the server is one
  step, `Sync`, that refuses a whole request or absorbs the sequence numbers it has
  not seen, which is what `Ledger` allows a client to observe; in `StudySessions`
  the phone is any sequence of uploads from `Uploads`.
* `League` is driven by weeks a user can have (`Inputs`), each with the facts it
  consists of; `MCLeague` evaluates that those facts are what
  `Statistics!WeeklyInput` gathers from rows (`FactsChecked`), and that their
  points are what `Scoring` gives them (`LeagueAssumption`).
* `Accounts`, `Groups` and `League` each have the purger's effect on their own
  tables. `Accounts` knows which users own a group (`Owners`), because that makes
  the purge fail; `Groups!Purge` and `League!Purge` are the cascades.
* `Social` and `Groups` end in a notification, written in a transaction of its
  own (`api/v1/friends.py:48-60`); in `Push` this is `Create`.

### Timeline and TimelineLoop

A log is a function from the recorded sequence numbers to `[type, at]`. `Timeline`
defines by quantifiers what a log means: the first stop ends it, an event counts
if no stop precedes it, an event's time is clamped to the latest one before it,
an interval runs from an opening event with nothing open to the next closing
one. `TimelineLoop` has the code's accumulator loops as walks from one number to
the next (`Walk`; `ServerLoop` for `timeline.py:47-140`, `PhoneLoop` for
`timeline.ts:50-114`). Only `strict=False`
is modelled: no caller passes anything else. `EvaluateSession` keeps every rule
of `integrity.py` and drops the wording.

The two loops do not round alike. The phone adds whole milliseconds and rounds
the sum down once (`timeline.ts:75, 89, 100`). The server adds
`timedelta.total_seconds()`, which are doubles, and truncates (`timeline.py:75,
105-106, 136`): ten intervals of 100 ms add up to 0.9999999999999999. So
`TimelineLoop` counts in ticks, of which a second has `Second`; both loops return
whole seconds; and the server's sum is the exact one or, if `low`, just below
it. The error is many orders below a tick, so it shows only where the exact sum
is a whole number of seconds, and only if some span was not (`Truncated`). Every
property speaks of both values of `low`; that a particular sum has the error is
not computed, so `low` allows it more often than doubles do. The
largest span is never a sum and is always exact. `StudySessions` uses the
definitions of `Timeline` with a tick of one second, where there is no error.

### StudySessions

| Variable | Code |
|---|---|
| `sessions`, `log`, `audit` | committed rows of `study_sessions`, `study_session_events` (by session and sequence), `audit_logs` |
| `pc`, `req` | for each open request: the await it stands at, its parameters and what it has read |
| `work` | its SQLAlchemy unit of work: rows as loaded and as changed, flushed events, pending audit entries, row locks taken |
| `now` | the server's clock |

| Actions | Code |
|---|---|
| `BeginStart`, `CommitStart` | `start`: `get_running`, then insert and commit under the unique index |
| `BeginTransition`, `ReadLog`, `FlushEvents`, `DeriveTransition`, `Commit` | `transition`: load the row, load the events, flush one more, derive, commit |
| `BeginSync`, `LoadItem`, `FlushRow`, `ReadLog`, `FlushEvents`, `DeriveSync`, `Commit` | `sync` and `_sync_one`, item after item of a batch, one commit at the end |
| `CreateManual` | `create_manual` (no await at which another request could matter) |
| `BeginReap`, `ReapRead`, `FlushEvents`, `DeriveReap`, `Commit` | `reap_stale_sessions`, all candidates in one transaction |
| `Abort` | any failure at any await: constraint violation, 404 in a batch, lost connection, crash; `get_db` rolls back |

What PostgreSQL and SQLAlchemy do is modelled from how the code relies on it:
a read sees what is committed and the transaction's own flushes; `Insertable`
and `Appendable` are the unique indexes, which also make an insert wait for an
open rival; an UPDATE waits for rows another open transaction has updated and
writes only the columns whose value was changed since loading (`Updated`). A
step that waits or fails is a step that is not enabled, so `Abort` is its only
way out. The partial unique index is checked per row, and again when a commit
writes a status back (`Committable`).

### Phone

| Variable | Code |
|---|---|
| `rows`, `events` | `local_sessions` (status, `sync_state`, whose subject), `local_events` |
| `ui` | `timerStore`: hydrated, current session, the events it shows |
| `tap` | presses in progress and the await they stand at |
| `fl` | flushes in progress: waiting sessions, payload, the account whose token went with the request, the reply |
| `account` | who is signed in |
| `late`, `server` | requests whose sender gave up; what the server has |
| `made`, `faults` | what the bounds count |
| `crossed` | history: a button was pressed while an earlier press was handled |

`TapStart` to `PersistStatus` are `start` and `applyTransition` await by await;
`Hydrate` and `Crash` are the launch and the death of the process; `BeginFlush` to
`Requeued` are `flushOutbox` with its loops over sessions; `Retry` and
`Unauthorized` are what the API client does on 401; `NetworkError` also leaves
the request in `late`, from where `ServeLate` may still deliver it. Faults
(`FaultKinds`): `crash` the process dies, `write`/`read` a database call throws
in a press, a flush or a hydrate, `auth` the login expires, `signout` the user
signs out, each at any await. A second press while one is handled is no fault
of anything, and nothing in the code prevents it; how often it happens is
bounded in the same way (`press`).

### Accounts, Groups and Social

A handler of these services reads some rows, decides, changes some of them and
commits. Other requests commit anywhere in between. The three modules say so in
the same way: `Arrive` stores a copy of the tables in `open[t]`; the operation, an
action of its own, decides by that copy and writes into the tables as they are
by then. What PostgreSQL and SQLAlchemy do on the way is part of the operation:
a unique constraint that is violated by now, an UPDATE of a row that is gone or
a foreign key with RESTRICT disables it, and then `Fail` is its only way out;
only the columns the code assigned are written. A handler with two commits has
two steps, and may die between them.

| Module, variable | Code |
|---|---|
| `Accounts`: `users`, `tokens`, `links`, `issued`, `mailed` | the rows of `users`, `refresh_tokens`, `password_reset_tokens`; ids in order of issue, a family named by its first token |
| `open`, `calls` | the requests in flight: what each has read, the token a refresh presents, the user still to be given tokens |
| `device` | per installation the stored token; which of its clients waits for a refresh (`refreshInFlight`) is in the request |
| `ended`, `cut` | history: tokens revoked on purpose or gone with their account; tokens and families whose app died during a refresh, or that two clients of a device presented at once |
| `Groups`: `groups`, `members`, `invites` | the rows of `study_groups`, `group_memberships`, `group_invitations` |
| `purged`; `wasOpen`, `invited`, `widest` | accounts that are gone; history of visibility, invitations and limits |
| `Social`: `rows`; `open`, `calls` | `friendships`, by requester and addressee; the requests in flight: the rows and the blocks each has read |
| `encouraged`; `raced`, `wanted` | encouragements sent; history: requests have overlapped, who asked or agreed |

| Actions | Code |
|---|---|
| `Register`, `Login`, `IssueTokens` | first commit, or the check of the password; then the tokens, whose answer may be lost |
| `Send`, `ReadToken`, `Refresh`, `RefreshReused`, `GiveUp`, `Die` | `client.ts:189-215` and `AccountService.refresh`: one of the `Clients` of a device sends its token, which is read, and is exchanged or found used; the client gives up on a network error and drops the device's tokens, or the app dies and keeps the one it sent |
| `Logout`, `ChangePassword`, `RequestReset`, `ResetPassword`, `DeleteAccount`, `Rename` | the operations of `AccountService`; the sessions to revoke are those it has read |
| `Purge`, `Tick` | `account_purger.py` in one transaction; the clock |
| `Create`, `Update`, `Delete`, `RegenerateInviteCode`, `JoinPublic`, `JoinByCode`, `Leave`, `Retire`, `RemoveMember`, `SetMemberRole`, `Invite`, `Reopen`, `Accept`, `Decline` | the operations of `GroupService`; `Leave` and `Retire` are the two ends of `leave`; `ReadAgain` re-reads the memberships, which the code does before its commit |
| `Expire`, `Groups!Purge` | an invitation runs out; an account goes, with all that cascades |
| `AcceptTheirs`, `AskAgain`, `Ask` | the three ways `send_request` ends: it answers the other's request, revives a row, or inserts one |
| `Social!Accept`, `Social!Decline`, `Remove`, `Block`, `Unblock`, `Encourage` | the operations of `FriendshipService`, and the encouragement friends send |

In `Social` a request reads two rows of the pair, one of them twice, each in a
SELECT of its own: `Arrive` reads who has blocked whom and the rows, and
`Social!ReadAgain` replaces any row by what it is by then.

`GetDetail`, `OwnerView`, `Discover`, `ListMine` and `Found`, `Classify`, `ListFriends`
are what a request is shown; the properties are about those.

### Scoring, Statistics, Goals, League

`Scoring` has `ScoringConfig` with what `validated()` checks, the five parts of a
week's points and the progress of missions, as functions of the facts of a week.
The code computes with doubles; the module has the same quotients exactly, and
Python's rounding to even at the end. `ScoringConfig` is narrower than what
`validated()` admits: weights are natural numbers and the overshoot cap is a
whole multiple; both are so in the version in use (`scoring/config.py:106`).
`Statistics` has the queries of the
statistics service and of `facts.py` over a set of session rows, each with its
local day; the arithmetic of time zones is left out. `DailySummary`,
`WeeklySummary` and `YearlyInsights` are the three reports, with `Split` (verified,
manual, excluded), `SubjectTotals` and `TaskTotals` in them; the streak loops are
recursive functions, each beside a definition of what it is to compute
(`StreakMeans`, `LongestMeans`). `Goals` has the row of a goal after `create` and
`update` (`NewGoal`, `Updated`) and what `list_for` shows of it (`WithProgress`).

| `League` variable | Code |
|---|---|
| `week`, `activity`, `deleted` | the index of the current week in UTC, by which the job goes; which of the weeks one can have each user has had, that is, what their rows say of the Monday to Sunday scored for an index, in their own time zone; soft-deleted accounts |
| `active`, `cohorts`, `cohort` | `LeagueSeason.status`; cohorts in order of creation; `LeagueEnrollment.cohort_id` |
| `score`, `progress`, `rank`, `outcome` | `LeagueScore` (the inputs it was computed from), `UserMissionProgress`, the final columns of the enrolment |
| `enrolling`, `job` | an enrolment between its reads and its commit; the job, with the rows it has not committed |
| `final` | history: what a user's last week has looked like since the season was over in UTC |

`BeginEnrollment` and `Enroll` are `ensure_enrollment`; `StartScoring`, `ScoreUser`
(one query, of the six for each user, after another: settings, sessions, focus
sessions, tasks, encouragements, early sessions) and `CommitScores` are the first transaction of
`league_scorer.py`, `CloseCohort` and `CommitClose` the second, `JobDies` the end
of either. A score is what the six found together (`Combined`), each as the rows
were by then. `Study` changes a week at any time, the next one too, since a user
ahead of UTC is in it already. `NextWeek`, `DeleteAccount` and `Purge`
go on meanwhile.

### Push

| Variable | Code |
|---|---|
| `notes`, `optedIn`, `registered` | `notifications` in order of `created_at`, `notifications_enabled`, push tokens |
| `runs` | overlapping runs: the batch each has read, who of it wants push, what is unsent |
| `received` | what the provider has delivered, and how often |
| `owed`, `overlapped` | history: phones a row was due to all the time; whether two runs overlapped |

`Select`, `ReadSettings`, `ReadTokens`, `SendChunk`, `Stamp` are `deliver_pending` read by
read; `LoseAnswer` delivers a chunk whose answer does not arrive, `Fail` ends a
run anywhere. `Create`, `RegisterPushToken`, `SetNotifications`, `Age` are what goes
on around it. `registered` is a set of users and phones; two `Device` rows with one
token, which would be sent one message each, are left out.

## The runs

| Run | Question | Instance |
|---|---|---|
| `TimelineLoop` | Do the loops compute what the rules mean, for every log in every order of arrival? Is credit bounded by wall time and frozen by a stop? | 4 sequence numbers, times 0..3 with two to a second, every type |
| `SessionsSerial` | One request at a time, of every kind, with a claimed time, conflicting and foreign uploads, events synced onto a manual entry: is the row what its log derives? | 1 user, 2 sessions, 4 requests |
| `SessionsRace` | Two requests of every kind interleaved await by await, reaper included: one running session, completion recorded, manual time out, exclusions audited with their reasons? Does the service implement the ledger? | 1 user, 2 sessions, 2 slots, 3 requests, a batch whose second item is another user's |
| `SessionsUploads` | Uploads, batches in both orders and repeats, of two users and at once, an id used by both: is overlapping time verified once, does everyone keep to their rows, does a repeat change credit? | 2 users, 2 sessions, 2 slots, 3 requests |
| `SessionsAbandoned` | Live requests racing the reaper: is a stop final? Under fairness, is every abandoned session closed? | 1 user, 2 sessions, 2 slots, 4 requests, 5 sequence numbers |
| `PhoneSerial` | One press at a time, two screens flushing, deaths and failed writes at every await: shown is stored, deleted is uploaded, nothing forgotten? | 2 sessions of 3 events, of which the server takes 2; 2 faults |
| `PhoneAccounts` | Two accounts in turn, two presses at once, two screens flushing, every fault at every await: is one story told? Is synced uploaded? Under fairness, is what waits settled? | 1 session of 3 events, 1 fault or second press |
| `Accounts` | Two requests of any kind in flight, lost answers, dying apps, the purger: who is signed out, and how many usable tokens has a session? | 2 users, 2 names, 2 devices of 2 clients, 5 requests, 3 tokens, 1 reset link |
| `Groups` | Two requests of any kind in flight: who owns a group, who is in a private one, how far is a limit exceeded? | 4 users, 1 group, limits 2 and 3, 5 requests |
| `Social` | Three requests in flight: who becomes a friend? One at a time: is the pair clean? | 2 users, 7 requests |
| `League` | Users who study late, enrol during the job and delete their accounts, a job that dies: what do closed standings say, and does the season close? It also evaluates the scoring rules and the statistics on bounded inputs. | 2 users, 2 weeks of 2 kinds, 2 changes, 1 fault |
| `Push` | Overlapping runs, lost answers, settings that change: was sent what is stamped, what is sent twice and why, does anything stay pending? | 1 user, 1 phone, 3 rows, 2 runs of 2 rows, 1 fault |

Why the bounds are enough to be interesting:

* Two requests are the least with a race; no code path involves three at a
  time, and the proofs cover any number. In `Social` a third one shows what
  becomes of two that cross.
* Sessions: two are the least with an overlap, a rival for the running index,
  and a batch of which the second item fails; three or four requests make start,
  stop and a third party; times 0..3 against thresholds of 1 and 2 put every
  integrity rule on both sides of its limit.
* `TimelineLoop`: with two ticks to a second, spans of half a second add up to a
  whole one, the least case in which the float sum can fall short; four events
  are two closed intervals, or any disorder around one.
* Phone: two faults allow a death during the recovery from a failure, three
  events are the least with a pause in the middle, and `MaxBatch` 2 is never
  exceeded, so that refusals are those of foreign subjects and of a session with
  more than `MaxLog` events. The phone's clock is
  left out: prune deletes any prefix of what is synced.
* Accounts: three tokens are a sign-in and two exchanges, or two sign-ins and an
  exchange; two clients of a device can present one token; five requests are sign-up, sign-in, and three that meet; lifetimes of
  one tick and no grace let tokens, links and accounts run out within the one
  tick there is; one of the two users owns a group.
* Groups: an owner, a moderator, a member and somebody who joins, against limits
  that can be raised and lowered between 2 and 3.
* League: two users are the least with a rank; a cohort of two fills up; two
  changes are a late sync and a deletion, or two late syncs; one death of the job
  falls into either transaction; a week in which nothing was done and one in
  which everything was differ in each of the six queries. A second category is a second, independent copy.
* Push: with three rows and runs of two a row has to wait for others, and chunks
  of one make two chunks of a run.

Deadlock is not checked (`CHECK_DEADLOCK FALSE`): every run bounds its requests,
presses, rows or its clock, and with those used up nothing is left to do.
`SYMMETRY` permutes requests, users or flushes, in runs without liveness only.

The run `League` also evaluates, as assumptions of `MCLeague`: over a grid of weeks
around every threshold, that points stay within the budget, rest days are free,
studying never costs points and overshoot is worth nothing (`ScoringChecked`,
`StudyChecked`; all four are proved, too); that recoveries and streaks are what
they are to be (`RecoveriesChecked`, `StreakChecked`); that the days, weeks, months
and subjects of a year add up to it, and the same days count as met in the
insights and in the weeks (`YearChecked`); that a day's summary is the day of its
week's, and a goal that is met shows as whole (`DayChecked`; `ShortDayShowsAsWhole`
is item 32 below); that a goal after any two updates is completed when its status
says so, overdue only while active, and shows as reached exactly when it is
(`GoalsChecked`, `UnmetShowsAsUnmet`); and that the facts `League` uses are such as
rows give (`FactsChecked`).

Every property of a run is shown to have teeth by a mutated definition under
which the same run finds it violated; the mutated forms stand in the modules
before the definitions they replace, marked "Mutation".

### Fairness

`StudySessions!FairSpec` (`SessionsAbandoned`): the clock ticks; the reaper is
started again and again while it has candidates (an hourly cron job,
`worker/main.py:55`); every open request comes to an end (`pc` is "idle" again and
again: requests and jobs have timeouts); and requests end early only when they
cannot go on, `AbortStuck`, since a server that crashes in every run closes
nothing. The instance has one user: with two, two reaper runs that overlap
again and again and lock two candidates in opposite orders (the query has no
`ORDER BY`) can abort each other for ever, a schedule that hourly runs of a job
that takes seconds do not have.

`Phone!FairSpec` (`PhoneAccounts`): a handler that has been started runs on and the
app is launched again after it died (weak fairness of `TapStep`, `LocalStep`,
`Hydrate`); a 401 is followed by the retry (`Retry`); `useSync` begins a flush when
something waits (on mount, in the foreground and every `syncRetryMs` while the
count is not zero, `useSync.ts:69-86`); the network does not fail for ever (strong
fairness of `Serve` and `Receive`, because `NetworkError` keeps disabling them).
Nobody has to press a button or sign in: a session whose owner is not signed in
is excepted in the property.

`League!FairSpec` is weak fairness of the job, `Scorer`: it is started every hour
and, unless it dies, goes on. `Push!FairSpec` is the same of each run of the
delivery job, started every two minutes. Faults are bounded and need not happen.

## What is proved

For any values of the constants: users, sessions, groups, requests or runs in
progress, uploads, faults, thresholds, limits. What is assumed is named in the
modules: the shapes of the constants, `None` being no row, for `Groups` the limits
the schema admits (2 to 500), for `Scoring` what `validated()` enforces.

| Module | Theorem | Says |
|---|---|---|
| `TimelineLoop_proofs` | `LoopComputesTheTimeline` | `Spec => []LoopMeetsDefinition` |
| | `PhoneShowsTheCredit` | `Spec => []PhoneAgreesWithServer` |
| | `CreditIsWithinSpan`, `StopsFreezeTheCredit` | `CreditWithinSpan`, `StopFreezesCredit` |
| `StudySessions_proofs` | `TypesAreKept` | `Spec => []TypeOK` |
| | `OneRunning` | `Spec => []OneRunningPerUser` |
| | `CompletionIsRecorded` | `Spec => []CompletedHasStop` |
| | `ManualStaysOut` | `Spec => []ManualNeverVerified` |
| | `ExclusionsAreExplained` | `Spec => ExclusionIsAudited`, an action property |
| | `AppendOnly` | `Spec => LogAppendOnly` (part of what the runs check as `ImplementsLedger`) |
| | `OwnRowsOnly` | `Spec => WritesOwnRows` |
| | `ServiceImplementsLedger` | `Spec => ImplementsLedger`, the refinement |
| | `StoppedStaysStopped` | `Spec => []StopEndsSession`, if nothing is uploaded (`"sync" \notin Kinds`) |
| | `CacheIsDerived`, `RetriesKeepCredit` | `CacheMatchesLog`, `RetryKeepsCredit`, if requests do not overlap (`OneAtATime`) |
| | `NoTimeTwice` | `Spec => []VerifiedDisjoint`, if there are only uploads and a session is uploaded whole (`Kinds \subseteq {"sync"}`, `WholeSessions`) |
| `Phone_proofs` | `PhoneTypes`, `ServerAgrees` | `TypeOK`, `NoContradiction` always hold |
| | `ScreenIsStored`, `SyncedStaysUploaded`, `OnlyUploadedIsDropped` | `ShownIsStored`, `SyncedIsUploaded`, `DroppedIsUploaded`, which say themselves that no presses have met |
| | `RunningIsRemembered` | `Spec => []NoneForgotten`, if reading the database does not fail (`"read" \notin FaultKinds`) |
| `Accounts_proofs` | `AccountsTyped`, `StaysIn`, `OneTokenPerFamily` | `TypeOK`, `StaysSignedIn`, `OneLivePerFamily` always hold |
| `Groups_proofs` | `GroupsTyped`, `SeenGroupsHaveOneOwner`, `PrivateGroupsByInvitation`, `OvershootIsBounded` | `TypeOK`, `OneOwner`, `InvitedOnly`, `BoundedOvershoot` always hold |
| `Social_proofs` | `SocialTyped`, `FriendsAgreed`, `SerialPairsAreClean` | `TypeOK`, `FriendsWanted`, `PairClean` always hold |
| `League_proofs` | `TypeCorrect`, `StandingsExplainThemselves`, `LastWeekIsScored` | `TypeOK`, `StandingsFinal`, `FinalWeekScored` always hold |
| | `ScoresStayWithinBudget`, `OvershootIsWorthNothing`, `RestDaysAreFree` | for every week and every validated configuration |
| | `StudyingNeverHurts` | the same, if the bonus for extra days is no more than there is for consistency, which `validated()` does not check |
| | `StreakIsWhatItMeans`, `LongestRunIsWhatItMeans` | the two streak loops compute `StreakMeans` and `LongestMeans`, for all sessions, days, goals and schedules |
| | `SplitLosesNothing`, `LeagueCountsTheWeek` | verified, manual and excluded seconds add up; the week that is shown is the week that is scored, for any sessions |
| `Push_proofs` | `PushTyped`, `StampsAreHonest`, `SentOnce` | `TypeOK`, `StampedWasSent`, `CleanRunsSendOnce` always hold |

So every invariant and every action property of every run is a theorem; what is
left to the runs are the four liveness properties. Hypotheses like `OneAtATime`, and
`~crossed` in the properties of `Phone`, are not there to get a proof through:
without them the property is false (TLC has a counterexample to each within two
presses or five requests), and "What does not hold" says how, in items 1 to 3 for `StudySessions` and 9 and 10
for `Phone`. `RetriesKeepCredit` leaves a gap to its run: `SessionsUploads` checks the
property for uploads that overlap as well, if they are whole.

The inductive invariants they follow from are the theorems `Inductive` (of
`StudySessions_proofs` and `League_proofs`), `PhoneInductive`, `AccountsInductive`,
`SocialInductive` and `PushInductive`.

The library's induction theorems take a predicate as a parameter, which the
installed provers cannot instantiate. Induction is therefore done on sets: the
numbers at which a fact fails are a set, a set of numbers that is not empty has
a least element (`NatLeast`, from the well-foundedness of < on Nat), and the step
excludes it. `Upto`, `DayByDay` and `OneByOne` say so for numbers, days and finite
sets. A recursive function of a LET is shown to exist in the same way before
its equation is used.

**TimelineLoop.** A log is finite and its walk a function on numbers, with one step
of the loop between n - 1 and n (`ServerWalks`, `PhoneWalks`). `Bounded` says of the
locals that what is credited, and the open interval, fit between the start and
the latest time; with it `CreditIsWithinSpan` and `StopsFreezeTheCredit` follow. The
phone's locals are the server's without two of them at every number
(`PhoneWalkAgrees`). For `LoopComputesTheTimeline` each local is shown to be what
`Timeline` defines: the latest time is the clamped one, the open interval is the
last opening event with nothing open before it, a closing event adds the span of
its own interval. The credited time is a sum that `Timeline` takes in no
particular order, the loop in the order of the numbers; `AddsExists`, `AddsSame` and
`ClosedTimeIs` show that the order does not matter. All this is about exact sums; the
rounding comes last (`TruncatedIs`), where it matters that a log of whole seconds
has whole spans (`ServerWalkWhole`), and that a sum which may be cut short has a
fraction in it, so is more than its longest span (`ServerWalkRounds`,
`TruncatedCovers`).

**StudySessions.** None of the invariants is inductive: a commit writes what a
unit of work prepared many awaits, and other requests' commits, earlier. `IInv`
is `TypeOK`, the three invariants and "no row, no log" about the committed
database (`Committed`), and what holds on the way: every unit of work holds rows
that exist or that it inserts, of the right source and owner, completed only
with a stop committed or about to be, with events whose numbers are free
(`WorkInv`); what a request holds at each await (`Progress`); two units of work
never add the same event or insert the same row (`Apart`, the unique indexes
seen from inside). One lemma per action (`...Safe`); the work is in `CommitSafe`,
which has to show that rows others have committed since loading survive a
column-wise UPDATE. `OneRunning` rests on `Insertable` and `Committable`, as the
code does.

On top of `IInv`, four properties have invariants of their own. `XInv`: a row to which a
request has given another verdict than "ok", and than the one it had loaded, has
an entry of the same unit of work with the reasons of that verdict; the commit
writes row and entry together. What the row then says is what the entry says
unless another request has committed reasons in between, or the same upload
named the session twice, which the property excepts. `SInv`, without uploads:
logs have no gaps, an event takes the number after the last one its request has
read, so of two requests that race for a session only one commits, and what the
other prepared is never written (`Continues`).
`CInv`, one request at a time: what a request holds is what is committed, and what
it has changed matches the log as it will be with its events (`FitSlot`,
`Matches`); the same invariant gives `RetryKeepsCredit`, as a retry derives from the
log that the row was derived from. `VInv`, uploads only: two requests that judge
overlapping sessions at once would both pass. What prevents it is the running
index, not the overlap check: a new row is inserted as a running one, so a
user's new rows are in one open request at a time (`NewRowsApart`), and a row that
is committed is seen by every later check (`NewOkIsAlone`, `OneCounts`).
`WholeSessions` is needed because of a session uploaded in parts two requests can
each write some columns of the row (item 2 below).

**Ledger.** Only commits change what the ledger speaks of. A client's commit
extends the records of its user's sessions; the reaper's appends one stop to each
session it closes, at a time on record. `LInv` adds to `IInv` what concerns the
reaper: what it has read is still on record, and what it has flushed for a
session is one such stop together with its audit entry. That there is a latest
time in a finite log is proved from a minimal counterexample.

**Phone.** `NoContradiction` is not inductive because uploads wait in flushes and
in the network. `IInv` says that all copies of a session's log (phone, server,
payloads, late requests) agree (`Compatible`); that while the row exists none is
ahead of the phone (`Complete`); that stored numbers have no holes (`Unbroken`)
and a press is about to use a taken number or the next (`NextNumber`); that a
session about to be inserted is unknown everywhere (`Fresh`). The insight it
records: two presses may read the same number, and it is `INSERT OR IGNORE`,
which loses the second event on the screen's side, that keeps the server's
story straight.

While no press has met another there are three more. `Screened`: the press in progress is
about the session on the screen, what it saw is stored, its number is free until
it appends (`NewNumber`) and holds its event afterwards (`OwnIsStored`).
`Remembered`: at most one session goes on, it is the last that was started, its
row says so and the screen shows it; a start is possible only when none goes on.
`Uploaded`: what a flush has read is finished for good (`Careful`), its payload has
every event there is, and once the answer has come the server has them; so
marking a row synced is true then and stays true, since a finished session gets
no more events.


**Accounts.** Tokens are numbered in order of issue and a family is named by its
first (`TokensOK`); a token is stored on one device, and a refresh is waited for by
one (`DevicesOK`); a refresh presents the token of the device that waits for it,
unless that was cut (`RequestsOK`). The heart is `OneChance`: a family that was not
cut has one way to go on, its usable token or the one refresh that has seen it
usable. The server does not see to that: with two refreshes of one token open it
rotates both. The client does, as long as one exchange of a token is one request
that ends in the app: `cut` records where it is not (an app that died in it, two
clients of one device that presented the token), and only those families are
excepted.

**Groups.** Each request decides by its copy of the tables, and each copy is
still good for something (`CopyOK`): an owner never changes, a retired group never
comes back, whoever was invited stays so, and the owner's row has the owner's
role while the group lives. For the overshoot, `Room(g)` counts: for every limit k
the group ever had or more, the members and the requests that saw fewer than k
of them are together less than k and the number of requests.

**Social.** The rows, and every copy of them, are justified by `wanted`. It only
grows, so an old copy stays justified. `PairClean` adds that while nothing has
raced there is one request, its copy is the rows however often it reads them,
and the blocks it has read are theirs (`Alone`).

**Push.** A run carries along whom it still owes each row of its batch
(`RunOwes`); as long as nothing has failed or overlapped, the one run under way
alone knows of rows that were sent and not stamped (`Clean`).

**Scoring.** Every part of a week's points lies between 0 and its maximum, the
maxima add up to the total, and each is monotone in the seconds; rounding a
quotient to even is shown monotone in lemmas of its own. Overshoot is worth
nothing because a day's attainment is limited to one after the credit has been
added, and a day earns credit only when it has reached one without it.

**League.** The standings are written cohort by cohort by a job that may die while
others enrol, are purged or delete their accounts. `IInv` says that who is not
enrolled has left nothing behind and is in no row of the job (`RowsAreOfMembers`),
that ranks are written when the season closes and only then (`ClosedOnce`), and that
those placed so far are in the order of their points, whoever goes meanwhile
(`Placed`). For the last week, `LastWeekRead` relates what the job has read to what
the week looked like after the season: the season closes in a job whose first
transaction has scored the week, and each of the six parts of every score that
stands is one of those (`Settled`), a deleted account's excepted.

**Statistics.** The streak counts down the days; from one day to the next, its value
is the number of met days behind the last missed one (`StreakIsWhatItMeans`). The
longest run is kept together with the run that ends at the present day, which
is as long as the interval below it allows. Sums of seconds are sums over sets:
`SumsOf` and `SumsAgree` show by taking one row away that the order does not
matter, `SecondsOfBoth` adds two disjoint sets, and a week is seven of them.

### Only model-checked

* **The four liveness properties**: `EventuallyClosed` of `League`, `AbandonedIsClosed`,
  `EventuallySettled` and `EventuallyConsidered`. Fairness and ENABLED are out of the
  prover's reach.
* **The assumptions of `MCLeague`** that are not theorems: recoveries, the sums over
  subjects and months, the day's progress, goals after updates, and the facts the
  instance of `League` uses. They hold on the inputs listed there.
* **`RetryKeepsCredit` of overlapping uploads** of whole sessions (`SessionsUploads`).

## What does not hold

Disagreements between the code and what the repository says of it, met while
modelling. The models do what the code does, so each of them is in some model's
behaviour, and the property that would forbid it is weakened, with a comment
that says how, or not stated.

Sessions:

1. **The row can disagree with the log.** `transition` loads the row before it
   loads the events (`sessions/service.py:215, 220`). A request that loaded the
   row before another one committed derives from both events and writes only the
   columns that differ from its stale copy, so a value the log does not derive
   stays. `models/study.py:62` calls the duration "always recomputable", ADR-0002 a
   "materialized cache". `CacheMatchesLog` is checked for one request at a time.
2. **Overlapping live sessions are both verified.** Only `_sync_one` asks
   `_overlaps_existing`; a live stop does not (`sessions/service.py:238`), and `start`
   takes any `started_at`. SYSTEM_DESIGN.md:83-88 and ASSUMPTIONS.md:55-57 say
   overlap is flagged on stop and sync. Of a session that is uploaded in parts, by
   two requests at once, one can write the flag's column and the other, for which
   the flag is what it had loaded, not (item 1): the row is verified with the
   reason for excluding it. `VerifiedDisjoint` is about sessions uploaded whole.
3. **A sync can bring a stopped session back.** Since only changed columns are
   written (item 1), an upload of the first events of a session that a live
   request stops meanwhile can leave the row active with a stop on record. It
   takes five requests; `StopEndsSession` is checked for live requests and the
   reaper.
4. **A gap in the sequence numbers is not a timeline problem.** `derive_timeline`
   never compares numbers (`timeline.py:83`); OFFLINE_SYNC.md:86 lists the gap as
   flagged.
5. **A repeated upload can change the verdict.** The overlap is computed anew
   against what has been stored since (`sessions/service.py:422`), so a verified
   session can become flagged although the upload brings no event;
   `api/v1/sessions.py:146` says "Replaying a payload changes nothing". The credited
   time does not change (`RetryKeepsCredit`), unless the row was wrong (item 1) and
   the upload puts it right, or is itself the stale request.
6. **The conflict flag is lost with the next upload.** It is computed from the
   present payload only (`sessions/service.py:429`) and the reasons are
   overwritten: the original upload, sent again, clears `event_conflict`; compare
   `sessions/service.py:333` and OFFLINE_SYNC.md:56-58.
7. **Phone and server can differ by a second.** The server truncates a sum of
   doubles, the phone rounds down a sum of integers (`timeline.py:75, 105, 136`;
   `timeline.ts:75, 89, 100`): ten intervals of 100 ms are 0 seconds there and 1
   here. `timeline.ts:6-7` says that the two "can never drift in a way that benefits
   a user"; the phone can show the second more, never less, and what counts is
   the server's. `PhoneAgreesWithServer` says so, and demands equality when all
   times are whole seconds.
8. **Not every change of a verdict is audited.** An entry is written when the status
   changes and is not "ok" (`sessions/service.py:548`): the reasons of a row that is
   excluded already can change without one, and so can a row become "ok" again.
   `audit.py:4` says "Every score-affecting change writes one row". The reaper's
   entry, `auto_closed`, names no reasons; what it means is `marathon_session`.
   `ExclusionIsAudited` is about rows that were not excluded before.

Phone:

9. **Two quick presses show an event that is not stored.** `applyTransition` reads
   the next number and appends in two awaits (`timerStore.ts:190`); `INSERT OR IGNORE`
   drops the second event, the screen and the row's status keep it. A stop pressed
   right after a pause is shown as finished and uploaded as paused.
   OFFLINE_SYNC.md:18 promises append before showing. `ShownIsStored` and, because
   a second press can store its event after the payload was built,
   `SyncedIsUploaded` and `DroppedIsUploaded` are about histories in which no press has
   met another (`~crossed`). So are `NoneForgotten`, since two quick starts insert two
   running sessions of which the screen shows one, and `EventuallySettled`. That
   phone and server never tell two stories, `NoContradiction`, holds all the same.
10. **A stop can be stored and never sent.** Event and status are two statements
    (`timerStore.ts:191, 205`). A process that dies between them leaves a stopped log
    under a running row: hydrate shows it as finished, the outbox sends completed
    rows only, and no press is allowed. OFFLINE_SYNC.md:5-6 promises to "lose
    nothing". Likewise a database that cannot be read at launch shows an empty
    timer (`timerStore.ts:89-95`), on which another session can be started.
11. **More than 100 waiting sessions are lost.** `flushOutbox` sends all of them in one
    request; the server takes 100 (`schemas/sessions.py:92`) and refuses the rest
    with them, on which every one is marked rejected for good (`outbox.ts:123-131`).
    In `Phone` this is `Refused` and `Reject`; the runs stay below this limit. A session of
    more than 500 events (`schemas/sessions.py:73`) is refused for good in the same way,
    and takes with it all that are sent along (`MaxLog`).
12. **The next account finds the last one's data.** An expired login keeps the
    local tables (`AuthProvider.tsx:55-58`), a sign-out keeps the timer store
    (`AuthProvider.tsx:111-116`; `hydrate` runs at launch only, `app/_layout.tsx:36-38`);
    `AuthProvider.tsx:4-5` says "two accounts never share a device cache".
13. **Documented and not there**: "keep / trim / discard" on launch
    (OFFLINE_SYNC.md:27-28) and the phone's calls of the live endpoints
    (OFFLINE_SYNC.md:70-78) have no code; the endpoints themselves are modelled.

Accounts:

14. **A lost answer signs the device out.** Any failure of a refresh, a network
    error too, clears the tokens (`client.ts:207-209, 131-137`). An app that dies
    between the rotation and the stored answer presents a used token when it is
    back, and its whole family ends: `GiveUp`, `Die`, and the exception `cut` in
    `StaysSignedIn` and `OneLivePerFamily`.
15. **A launch can sign the device out, or leave it two sessions.** A device does not
    have "the single ApiClient instance" (`AuthProvider.tsx:4`): a launch makes one
    without a device id and another one with it (`AuthProvider.tsx:37-61`), and asks
    who is signed in through both (`:64-88`). The single flight of `client.ts:102`, "a
    burst of requests triggers one refresh", is each client's own. If the access
    token has expired, both present one refresh token: the later is taken for a
    thief's, and the family ends; or, if both are read before either commits,
    both are exchanged and the family has two usable tokens. In a browser the same
    is true of two tabs, which share the cookie. In `Accounts` the device's `Clients`
    send as they like, and a family two of them have presented the same token of
    is in `cut`.
16. **A sign-in in flight survives "sign out everywhere".** The sessions to revoke
    are selected and then written (`accounts/service.py:225-233`); what a refresh or
    a sign-in commits meanwhile is not among them, also after a password change,
    a reset or a deletion.
17. **A reset link can be used twice at once**: both requests find `used_at` unset
    (`accounts/service.py:305`), whereas `models/user.py:144` says that it "makes a
    replayed link fail".
18. **A renaming in flight gives a deleted account a name again**
    (`accounts/service.py:344`), which nobody else can then have.
19. **The purge fails as a whole if a deleted user owns a group**: `owner_id` is ON
    DELETE RESTRICT, and all users are deleted in one transaction. It fails the
    next night again. `account_purger.py:12` says "Every row that hangs off
    `users.id` cascades".

Groups and friendships:

20. **A limit can be exceeded**, by the requests in flight and when it is lowered
    meanwhile (`groups.py:473`). `BoundedOvershoot` says by how much.
21. **A retired group can have members**: the owner counts the others and leaves
    while somebody joins (`groups.py:295`). Nobody sees the group any more, which
    is why `OneOwner` speaks of visible ones.
22. **A moderator can remove somebody who has just been made moderator**
    (`groups.py:316`, decided on the role as read), and an invitation can be pending
    for somebody who has just joined.
23. **Overlapping requests leave a pair with two rows**: both ask at once and stay
    pending (`social/service.py:212`); an acceptance overwrites, or a removal deletes,
    the block that was committed since it read the row. `PairClean` excepts
    histories in which requests raced; that nobody becomes a friend who did not
    agree (`FriendsWanted`) holds in all of them.

League and scoring:

24. **The credit for overshooting is never paid.** `scoring/config.py:44` grants up to 25 %
    past the goal; `_score_goal` limits the day to 100 % after adding it. Proved:
    `OvershootIsWorthNothing`.
25. **Studying on every scheduled day earns 220 of 250 points for consistency**; the
    last 30 take three unscheduled days (`scoring/service.py:108`), whereas
    `scoring/config.py:51` calls that bonus "never a requirement".
26. **Only the current week is scored.** What is synced late for an earlier week, or
    studied after the last run of a week, is never counted
    (`league_scorer.py:45`); the docstring says "the final value settles once the
    week closes". For the same reason a mission without a week keeps the progress
    of the latest week scored.
27. **The last week can be closed before it ends.** The season is over by the UTC date
    (`league_scorer.py:36-37, 49`), a week by the user's (`facts.py:46-47`): at UTC-8
    the standings are written while the last Sunday has hours left. The comment
    `league_scorer.py:50` says "The final week has been scored; now the ladder can be
    settled". `FinalWeekScored` says what is true: what counts was read after the
    season was over in UTC. It was not read at one moment: each of the six
    queries sees what is committed by then, so a score can mix two states of a
    user's rows.
28. **An enrolment in flight escapes the closing**: it is committed into a closed
    season and never ranked. `StandingsFinal` speaks of those with points.
29. **Promotion has no consequence**: every enrolment enters the lowest division
    (`league/service.py:217`).

Push:

30. **A notification can be sent twice**: after a failure behind the send, a lost
    answer, or an overlap (a run may take five minutes, one starts every two).
    `push.py:8-9` says "a retried or overlapping run never double-sends".
    `CleanRunsSendOnce` states what is left.
31. **A push token outlives the sign-in**: nothing clears it (`notifications.py:116`),
    so the phone goes on receiving what is due to an account that has signed out
    of it.

Statistics:

32. **A day one second short shows as a goal met.** `daily_summary` rounds the ratio
    to four places before it cuts it off at 1 (`statistics/service.py:199`), so from
    334 minutes on a goal that is a second short has a progress of 1.0, while
    `goal_reached` and with it streaks and points say no. `Goals` cuts off first
    and has no such case.

## What is not modelled

In the modelled components:

* Sessions and phone: `note`, `went_as_planned`, focus mode, device, `synced_at` and
  the row version, which no rule reads; the wording of messages; the idempotency
  header, which the server ignores; the badge count; event times on the phone.
* Accounts: `update_settings` (it compares the expected version with the row it has
  loaded and writes without one, `accounts/service.py:388`, so two devices can both
  win although its docstring says "makes the loser fail loudly"); password rules;
  access tokens, which live for minutes and are not stored; the web client's
  cookie. Tabs of a browser are `Clients` of one device.
* Groups: names, descriptions, rules. Push: the texts, and the read flags, which
  delivery does not look at; two `Device` rows with one token.
* League: users who move to another time zone, whose sessions change their week
  (what a week is worth may change at any time, `Study`); seasons whose first day
  is no Monday, of which the days outside the scored Monday to Sunday count for
  no week (what an index stands for is `Inputs`); the query for the reasons of
  exclusion, which no points depend on; divisions (item 29), score breakdowns, which repeat the score, and the
  pages that only read. Scoring: doubles; a result within a rounding error of a
  half may differ by a point.
* Statistics: the arithmetic of time zones, and names and colours. Goals: deletion,
  and two updates of one goal at once, each of which writes the columns it was
  sent.
* PostgreSQL's deadlock detector and lock timeouts, which are the
  nondeterministic `Abort` and `Fail`.

Whole components, each listed in `PROJECT.json` with its reason:

* **Realtime and presence** keep nothing that a rule reads. A message says that
  something has changed, a full queue drops it, and the client reads again after
  a gap; presence is a key with a time to live. A slow socket, or a heartbeat
  that overtakes a stop, is wrong for that long.
* **Planner, subjects** are rows of one user written by that user. The one
  race is `carry_forward` from two devices at once, which copies each pending
  task twice (`planner/service.py:187`, no constraint forbids it).
* **Reports, moderation, community**: a report is checked for and then inserted, so
  one reporter can have two open at once (`reports.py:38`, there is no unique
  index); a decision closes a report with its siblings, removes what was
  reported and writes the audit entry in one commit. Posts and comments are
  edited by their author only; reactions and bookmarks are unique rows.
* **Rate limiting** refuses requests before they reach what is modelled; statistics
  routes, export, web pages and screens read; schemas, generated types,
  migrations, seed data, e-mail and infrastructure have no behaviour of their
  own beyond what the models take from them (limits, constraints).

The project keeps to a dozen runs, so that all of them are checked on every
change. What would come next, in this order: `update_settings` with its version;
`carry_forward` and reports as two more request/commit modules in the manner of
`Social`; an abstract outbox (finished sessions move from the phone to the server,
at least once, never backwards) that `Phone` implements; and the sums over
subjects and months, now evaluated on bounded inputs, as theorems.
