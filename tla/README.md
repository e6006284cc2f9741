# USBI: a TLA+ model of the platform

USBI is a learning platform: a Go backend over PostgreSQL (`src/backend`), a
React application that also runs on the desktop in a Tauri shell
(`src/frontend`), and games whose results earn points, streaks and badges. This
directory holds a model of the parts of it whose correctness depends on the order
in which things happen, the TLC runs that check it on small instances, and
proofs, checked by TLAPS, that hold for every instance.

## 1. Inventory

| Component | State | Operations | Interacts with | Modelled in |
|---|---|---|---|---|
| Progress synchronisation (`internal/sync`) | `sync_events`, `level_attempts`, `player_progress`, `experience_history`, `daily_streak`, `user_badges` | `ProcessSync`: one SERIALIZABLE transaction per posted event | the app's queue, the catalogue, the device registry | `Progress` |
| Online completion (`internal/levels`, `CompleteLevel`) | the same tables | one SERIALIZABLE transaction per finished level | as above | `Progress` |
| Offline queue (`frontend/src/lib/localSyncQueue.ts`, `syncEngine.ts`) | SQLite table `sync_queue`, flags `isSyncing`, `isOnline` | enqueue, cycles of synchronisation, deletion, wipe | session of the app, POST /sync, Tauri shell | `OfflineQueue` |
| Session of the app (`apiClient.ts`, `secureSession.ts`, stores, login and dashboard pages) | user, tokens, `deviceId`, saved session | login, device registration, sign-out, refresh after a 401, restoration | queue, `/auth`, `/devices` | `OfflineQueue`, in part |
| Device registry (`internal/devices`) | `devices` with `wipe_local_data` | register, active-device check, touch, mark for wipe | sync, ARCO | `Progress`, `OfflineQueue`, in part |
| Accounts and tutor consent (`internal/auth`) | `users`, `tutor_consents`, `tutor_consent_tokens` | register, send a link, verify it, come of age | mail, maintenance, ARCO | `Account` |
| Session tokens (`internal/auth`) | `refresh_tokens`, `token_version` | login, refresh, logout | router, maintenance | `Account` |
| ARCO and cancellation (`internal/auth`, `internal/privacy`) | `arco_requests`, pseudonymised rows | submit, resolve, `CancelUser` | every table of a user | `Account` |
| Legal maintenance (`internal/maintenance`) | the list it works on | `RunOnce`: cancel by age, suspend, purge | accounts, tokens | `Account` |
| Content catalogue (`internal/levels`) | `sections`, `levels`, `admin_audit_log` | validate, create, update, publish, withdraw, archive, list | completion, sync, editors | `LevelContent`, `Authoring`, in part |
| Editors (`features/content/AdminContentPage.tsx`, `features/maker`, `packages/schema`) | a form, what a save goes to, the drafts in the browser's store | templates, fields, import, save with late and lost answers | catalogue, level pages | `LevelForms`, `Authoring` |
| Level pages (`OfficialLevelPage.tsx`, `LocalLevelPage.tsx`) | the query, the mounted game, `isSubmitted`, the post, what the shell was told | load, refetch, finish, answer or failure of the post, leave | games, queue, Tauri shell | `LevelPage`, `App` |
| Games (`packages/engine`, `features/games`) | an engine in memory, a component or a Phaser scene with its timers | moves, ticks, animations, reports | level pages | the seven `...Game` modules |
| Router (`internal/transport`) | rate limiters | token check, limits per client | every handler | the check, in `Account` and `OfflineQueue` |
| Partition maintenance (`internal/dbmaint`) | partitions by year | `EnsurePartitions` | progress tables | no |
| Incidents, crypto, mail, configuration, other pages | rows or none | single inserts, pure functions, rendering | - | no |

What is hard in it:

* **Concurrency.** Two requests of one player run at the same time: a batch posted
  again while the first copy still runs, or a level finished online while the
  queue is being sent. Attempt numbers come from a count, points from the number,
  badges from a sum; all are read before they are used. In the accounts service
  reads stand outside the transactions that act on them, and some handlers use no
  transaction at all (refresh, logout).
* **Failure.** Any statement may abort the transaction; any answer may be lost;
  the app may be closed at any await; a refresh of the token may fail; an error ends
  a maintenance run with its list half done.
* **Ordering.** `isSyncing` is looked at before an await and set after it; the
  user may change between a play, its row, its cycle and its post; two answers to
  the editor's "Editar" may cross; a tutor may click a link that was superseded.
* **Timeouts and retries.** A post is retried up to three times while the first
  may still arrive; a 401 is retried once with a new token; pauses and
  animations of the games outlive the step, and sometimes the page, that started them.
* **Agreement.** The editor's schemas, the server's validators and the pages'
  normalizers each decide what a playable content is.

What makes each component correct, in a sentence: attempts of a day are numbered
without gaps and paid by number; an event counts once; totals, ledger and badges
agree; a wipe order is not lost; a queued play is deleted only when the server has
it, in order, and is not stuck for ever; who passes the token check is an active
account, a minor plays with consent only, an approved cancellation is done and is final,
and no account waits for ever; what is in the catalogue can be played, a report of a
game is earned, a visit posts one attempt, and a level that was played out is posted. What
becomes of a post that fails is another matter: see finding 3.

## 2. Modules

| Module | What it is | Code |
|---|---|---|
| `Xp` | the two scoring functions and the schedule they share | `sync/service.go:26-41`, `levels/service.go:689-702` |
| `ProgressAbs` | what the backend promises of progress: a request counts as a whole and at once, or not at all | abstract |
| `Progress` | both handlers statement by statement over a multi-version store | `sync/service.go`, `levels/service.go:513-634`, `repository/*_queries.go` |
| `ProgressProofs`, `TotalsProofs`, `RefinementProofs` | theorems about `Progress`: numbers and points; totals, ledger and badges; the refinement of `ProgressAbs` | |
| `SumProofs` | what sums over finite sets are | |
| `OfflineQueueProofs` | theorems about `OfflineQueue` | |
| `OfflineQueue` | the desktop app from a finished level to a deleted row, with the server's answers | `frontend/src/lib`, `OfficialLevelPage.tsx`, `src-tauri/src/lib.rs` |
| `Account` | accounts, tokens, consent, ARCO and maintenance, statement by statement | `auth/service.go`, `privacy/privacy.go`, `maintenance/service.go`, their queries |
| `LevelContent` | what editors, server and pages take for a playable content | `packages/schema`, `maker/registry.ts`, `levels/service.go:783-`, `content/types.ts` |
| `LevelForms` | what any number of keystrokes in a form can make of a content | `features/maker/forms` |
| `Authoring` | the two editors, the catalogue behind one and the browser's store behind the other | `AdminContentPage.tsx`, `LevelMakerForm.tsx`, `MakerPage.tsx`, `levels/service.go` |
| `SnakesBoard`, `CrosswordLayout` | pure parts: bounce, links and grid of a board; placing the words of a crossword | `engine/src/games/snakes`, `CrosswordEngine.ts`, `schema` |
| `TriviaGame`, `MemoryGame`, `FakeNewsGame`, `WordSearchGame`, `PuzzleGame`, `CrosswordGame`, `SnakesGame` | a game each: engine, component, scene, timers | `engine/src/games`, `features/games` |
| `LevelPage` | a visit to a level: all seven games instantiated, the post, refetches, leaving | `OfficialLevelPage.tsx`, `LocalLevelPage.tsx` |
| `App` | editors and level pages as one specification | composes `Authoring` and `LevelPage` |
| `AccountProofs` | theorems about `Account` | |
| `AppProofs`, `GamesProofs` | theorems about `App`: the page and four games; the other games, the catalogue and the types | |
| `MC...` | small instances for TLC | |

Operators named `Name_Word` are faulty variants of `Name`: dropped guards, missing
resets, wrong counts. Nothing uses them; each is there to show that a
property would notice it.

### Progress

A *session* is a request inside its transaction. `BeginSync`/`BeginOnline` is the
first statement, which fixes the snapshot (`snap`, a position in the log of
commits); `RecordEvent` the insert of the event, which waits for an uncommitted
duplicate (`CanWrite`) and finds a committed one (`AlreadyProcessed`);
`LockLevelAttempt` the advisory lock; `RunAttempt` the count, the inserts and the
upsert of an attempt; `Commit` the final statements and the COMMIT;
`RejectEvent` the commit of a rejected event, `RejectionLost` its failure, which the
code ignores; `Abort` any error. What a session wrote stays in its record (`own`,
`gain`, `rows`, `keys`) until it commits.

PostgreSQL is modelled by what the code relies on: reads come from the snapshot,
a row written by somebody who has not committed makes one wait, a row committed
after the snapshot can only abort, and `Dangerous` is the rule by which
SERIALIZABLE refuses a commit (two consecutive antidependencies whose last
transaction committed first). The model refuses no more than the
rule demands; a real server may refuse more, which `Abort` covers.

Inputs: `valid` stands for a signature that verifies and a payload without
future dates or negative scores. Scores, time stamps and `best_score` are left out:
no property tells them apart. Batches have at most two attempts in the runs.

### OfflineQueue

An action ends where the code awaits. `FinishLevel` .. `EnqueueFails` are
`finishLevel` and `enqueueProgress`; `Start` .. `DeleteFails` a call of
`syncLocalQueue`, of which `Cycle` many may overlap; `Post`, `Fails`,
`RefreshAndResend`, `SessionExpired` and `Receive` are `fetchWithRetry` and the
interceptors of `apiClient`; `Restart` loses memory and restores the saved session.
Requests stand in `wire` until the server answers; `Abandoned` keeps a request
there when the client has given up. `Unauthorized` and `Refuse` may hit any request,
so tokens expire and the server fails at will. The server's transaction is one
step, justified by the refinement that `Progress` shows.

Rows are a set with their `created_at` as a position in time: the code
orders by `created_at`, and two rows are assumed not to share a millisecond.

### Account

`users` is the table, `access` the access tokens that were handed out, `refresh` who owns
a live refresh token, `links` and `consents` the tutor's links and the rows they left, `arco`
the requests, `job` the maintenance run: its phase and the list it has read.

* A statement outside a transaction is a step; a SERIALIZABLE transaction is one step,
  at its commit. `requests` holds what a handler has read and not used yet: `Login`
  reads the account, `IssueTokens` hands out tokens of the version *read*; `Refresh`,
  `RevokeRefreshToken` and `IssueTokens` are the three statements of a refresh, which do not
  check that the token was still live; `Logout` and `LogoutRevokes` the two of a
  logout; `AgeUp`, `SubmitArcoRequest` and `StoreTutorConsentToken` run after a token check
  or a read of the status that may be out of date. `RequestFails` ends any of them.
* A statement on a row is an operator with its WHERE clause: `ActivateTutorConsentUser`,
  `UpdateUserAdultStatus`, `SuspendInactivePlayers`, `PseudonymizeUser`. What the clause
  does not ask for (`AgeUp` looks at no status) is not asked for here either.
* `RunOnce` is `ListPendingTutorConsentUsers`, a `CancelListed` for each listed account,
  `SuspendInactive`, `ListSuspendedUsersForCancellation`, its cancellations, and `Purge`;
  `MaintenanceFails` may end it anywhere.
* Ages are told apart where a query looks: past the limit for a pending consent (48 hours), past
  the year of inactivity, and whether a suspended row rested for its 30 days.
* Access tokens do not expire, which only leaves more of them. An identifier of a
  refresh token or of a link is taken again once nothing can name it. Roles are all
  `player`. Progress, devices and the wipe order of a cancellation are in `Progress` and
  `OfflineQueue`; mail that fails, the slots for password hashes and the equal
  answers against enumeration are left out, and so is the removal of expired rows,
  which nothing reads.

### Contents and editors

A raw content is a record of the shape of its template; a text is `"empty"`, `"blank"` or
any other, a word a sequence of letters, with `"N~"` for the letter that the server keeps and
the engine folds. `MakerAccepts`, `ServerAccepts` and `Normalize` are the three readings
of it, template by template; `PlaysWhole` compares the last with what was written. Not so for
a word search: `WordSearchEngine.ts` takes a word once and leaves out those it finds no place for
(`WordSearchGame!WithWord`), which no form, schema or validator looks for, so that of this template
only the mounting is claimed.
In `Authoring` the form keeps template and content from its mounting, while `desk.target` is
the level a save goes to, which an older answer to "Editar" may replace; a save is
answered, refused, or stored with its answer lost. Importing shows what the code makes
of a file: its template is read under a name that the export does not write. Sections,
listings and audit rows are left out.

### Games

Every game module has `Engines`, `Uis` (what is mounted), `Timers` (what the program does
on its own), `Player` (what the player may do) and `Won` (what a report must mean). They share
the variables `level`, `engine`, `ui`, `reports` (and `scene` for the Phaser scene of snakes and
ladders), and each is instantiated by `LevelPage`.

* `TriviaGame`: the clock of a question, the pause after it, and the listener; the pause is a
  timeout that is never cancelled. The screen has no state of its own: `ui` is history, a tally of
  each game begun, by which `Won` knows what a score must be; no guard reads it.
* `MemoryGame`: two cards, the comparison a second later.
* `FakeNewsGame`: the card that slides out while the next can be swiped.
* `WordSearchGame`: the random placement of the words, selections by dragging.
* `PuzzleGame`: the shuffle, one move of a piece, the score by moves.
* `CrosswordGame`: the layout from `CrosswordLayout`, selection, keys (which may reach the
  engine twice), validation at every change, reports at every notification.
* `SnakesGame`: the engine resolves a turn at once and the scene shows it later: die, pause,
  tweens, pause before the AI; `AiPlay` is the event that the scene may ignore.

Random draws are choices. Where an order of timers is fixed by their lengths, the guard
says so with the figures (`AiTurnComes`, `DieSettles`, `Refetched`).

### LevelPage and App

`page` is the query (`view`, `loaded`), `isSubmitted`, the post and what the desktop shell was
told (`shellPlaying`). `Load` and `Refetched` mount a game, `Play` is a step of it followed by
`finishLevel` for what it reported, `PostAnswered` and `PostFails` end the post (a failed one is
queued, dropped by `enqueueProgress` without a word, or lost with its INSERT),
`RefetchFails` and `Leave` unmount: trivia stops its clock, the memory game's comparison
is not stopped. `App` shows an editor or a level at a time; a level is any content the
server accepts (`PlayedAssumption`), or any at all from the browser's store, and
`CatalogueIsPlayable` is about what the editors and the server let into the catalogue.

## 3. Runs

| Run | Instance | Checks |
|---|---|---|
| `races` | 2 sessions, 2 commits, 2 users, 2 levels, 3 events, 7 requests | all invariants of `Progress`, the wipe order, the refinement of `ProgressAbs`, the inductive invariant with its sums |
| `longday` | 2 sessions, 3 commits, 1 level of changing difficulty, batches of two | points along a day of up to six attempts, on both paths |
| `queue` | 2 plays, 1 cycle, first row rejected | a row is kept until recorded; rows are recorded in order; the inductive invariant of the order |
| `overlap` | 2 cycles, 1 play, a cancellation | type, no double credit, `isSyncing` not left set, the inductive invariant of the cycles |
| `drained` | 2 users, 1 device, badly signed row, fairness | no double credit, the queue empties |
| `accounts` | 1 account, 1 request beside the maintenance and resolutions, 2 refresh tokens, 2 links, 1 ARCO request, fairness | token check, consent, evidence, that an approved cancellation is done and is final, that nobody waits for ever |
| `app` | 19 contents over 7 templates, 2 levels in the catalogue, 1 draft, 1 refetch, fairness | what an editor saves can be played; all properties of the pages and of the seven games |
| `snakes_stuck` | one board of 9 cells | violated: an AI turn has something on its way that plays it |
| `rejected_then_confirmed` | | violated: a deleted row was credited |
| `wipe_missed` | | violated: every answer to a marked device orders the wipe |
| `failed_save` | | violated: a play that was not saved is in the queue |
| `consented_purged` | as `accounts`, without fairness | violated: only those without consent are cancelled for want of it |

`races` and `longday`: two sessions suffice for every conflict between two
requests, and a third committed transaction is seen through the log; write skew,
duplicate events, opposite lock orders, a wipe between two statements and
an abort at each statement all occur in `races`. `MaxCommits` bounds the log: no
transaction begins after so many commits, those that run may finish. Three
commits of two attempts reach the paid (1st), half-paid (2nd, 3rd) and unpaid
attempts. What the bound hides, more sessions and longer days, is what the
theorems cover.

`queue`, `overlap` and `drained` set `BatchLimit = 2` for the code's 50 and
`MaxAttempts = 2` for its 3 (one retry already brings a request that overtakes its
own retry); `drained` sets `MaxAttempts = 1`, which leaves every retry to the next
cycle. `MayCancel` bounds who asks for a cancellation. Each device
identifier can be registered once, so that later logins fail to register and go on
with a stale device. `CHECK_DEADLOCK FALSE`: the app may stop for good, with
everything played and nobody able to sign in with a new device.

`accounts` (about 240,000 states): one account meets itself through one request with a stale
read, the resolutions and a maintenance run, which is every conflict the code has: accounts
share no row. What they do share is the maintenance run, which stops at the first account whose
cancellation fails and leaves the others to the next tick: with one account nobody waits behind
another, and `Settled` is not claimed for more (two accounts take 12 million states without their
liveness). For safety `AccountProofs` covers any number. `MaxVersion = 2`
bounds logouts only (the other increments happen at most once each); `AgeUpLimit = 1` for
3 and `BatchSize = 1` for the code's batch reach the limit of each.

`app` (about 596,000 states): for each template one content that everybody accepts and
those on which the three readings might disagree: an index past the options, a blank
option, a pair without a text, one identifier twice, a word without letters, a board
too small, two words that are one for the pages, words that do not cross. The minima
of the editor (3 questions, 4 pairs, sides of 5, 8 questions of snakes and ladders) are 2, 2, 2 and
1; a word search has up to 3 by 2 cells, a crossword three words, a board nine cells (which
has a snake, a ladder and a bounce). `MaxReports`, `MaxMoves` and `MaxRefetches` bound how often a
player goes on, plays trivia again or loses the level; two reports suffice to submit twice.
`CHECK_DEADLOCK FALSE` in both: a page that was left, or an account that is cancelled, is at its end.

**Fairness** (`FairSpec`, used by `drained` alone). Weak fairness of `Start` and
`Load`: the interval of `main.tsx` fires every minute and the event loop goes on.
Strong fairness of `StartSending`: the player leaves the game at last (the status is
reset when the page is left). Strong fairness of `Post`, of the server's proper
answers, of their reception and of `DeleteRow`: signing, the network, the server
and SQLite may fail any number of times, but not for ever. Weak fairness of the
end of a wait: the post has a timeout of 30 seconds. `Drained` asks nothing of the
player and the environment but what it says: from some time on the app is
online, open and signed in with a device of its own.

`Account!FairSpec`, used by `accounts`: weak fairness of `GrowsOlder`, `Rests` and
`ListPendingTutorConsentUsers`, as time passes and the scheduler ticks every day; strong fairness
of the statements of a run (`CancelListed`, `SuspendInactive`, `ListSuspendedUsersForCancellation`,
`Purge`), any of which may fail, but not at every tick for ever. `Settled` asks nothing
of the account's owner.

`App!Fairness`, used by `app`: the timers of the mounted game fire, and a post is answered or
fails (its timeout). Nobody need write, play or leave, so `OverIsPosted` begins when the player
has done what there is to do and allows for a page that is taken off the screen.

### Findings

Five statements that documents, comments or pages make are violated
(`PROJECT.json`, "findings"):

1. *A rejected event is confirmed.* A batch answered 422 is posted again by
   `fetchWithRetry`; its row exists, with status `rejected`, and the answer is
   `already_processed`. The client deletes the row; the play is credited to nobody.
   A bad signature (401) takes the same way through the refresh.
2. *A wipe order is not repeated.* `already_processed` does not carry
   `wipe_local_data`; if the answer that did is lost, the retry does not order it.
   The order comes with the next *new* event, if there is one and the account still
   can sign in.
3. *A play is dropped after a 401,* although the page says it was queued.
4. *Who consented in time is cancelled all the same.* `RunOnce` lists the accounts that wait for a
   tutor past 48 hours and cancels them one by one, without another look
   (`maintenance/service.go:63-70`, `cancelUser`). A tutor who clicks in between sees the account
   active and, moments later, pseudonymised with the reason `pending_tutor_consent_expired`;
   `src/README.md:73-74` says that the run takes those who did *not*
   complete the consent. The list of suspended accounts is as stale.
5. *Snakes and ladders gets stuck.* A question may be asked while the AI's die still settles
   (`isAnimating` covers the tweens only). Answered wrongly while the token then moves, the engine
   goes to `ai_turn`, and the scene ignores the one event that would play it
   (`SnakeLadderScene.ts:61`).

Two more observations have no run. `src/README.md:75-76` promises to suspend "jugadores sin actividad
durante 1 año", but no statement writes `last_login_at`, so the query
(`maintenance_queries.go:47`) falls back to `created_at` and suspends every player a year after
registration; the model keeps the age of an account, as the query does, and no activity to
compare it with. And the queue sends the rows of every user as the one who is signed in
(`localSyncQueue.ts:65`); nothing says whose credit they are, so no property does.

`OnBoard` asks for six cells or more, because on smaller boards, which the schemas and the
server allow, the bounce of a six leaves the board (`SnakeLadderEngine.ts:61`); nothing in the
repository says otherwise, and the editor's generator draws two cells a side at least.

## 4. Theorems

`ProgressProofs`, for all values of the constants that satisfy `ConstantsAssumption` and
`RequestAssumption` (any sets of users, levels, days, devices, events and
sessions, any well-formed requests, any `MaxCommits`):

* `TypeCorrect`: `Spec => []TypeOK`.
* `NumberingInvariance`: `Spec => []NumberingInv`, the inductive invariant of what follows.
* `Numbering`: attempts of a user, level and day are numbered `1..n`.
* `Scoring`: every attempt has the points of its number.
* `Idempotence`: an event is credited by one transaction, all or nothing.
* `WipeDelivered`: an answer `synced` carries every wipe order committed before.
* `SameSchedule`: both scoring functions compute the schedule.

`AttemptsContiguous` is not inductive: a commit adds the numbers its session
computed long before. `NumberingInv` adds what a session knows meanwhile. `SessionShape`: what it has
done is consistent with its phase and request. `KeysExclusive`: two
sessions never hold the advisory lock of the same key. `EventsHeld`: a session past
`RecordEvent` holds the row of its event, alone, and the event is not recorded.
`OwnContinue`: the numbers a session took for a key continue the committed ones:
as it holds the lock, nobody else commits there, and as `RunAttempt` fails on the
UNIQUE constraint when its snapshot is stale, the count it used was right.
`OwnPoints`: its points are those of its numbers. `WipeSeen`: if the flag it read is
older than the device's, the device's row was committed after its snapshot, so that
`TouchDevice` can only abort. The proof takes each action in turn, with lemmas on
what an action moves.

`TotalsProofs` and `RefinementProofs`, from the same assumptions. Two of those are for them: levels
and dates are finitely many (their columns have a fixed width), so that the sums are over finite
sets, and a badge asks for more than nothing (`Threshold \in [Badge -> Nat \ {0}]`: migration
`0004_seed_badges.up.sql`, the only statement that fills the table, has no other).

* `Invariance`: `Spec => []IInv`, which is `NumberingInv` with what sums need.
* `Totals`: the total and count of a player at a level are those of its attempts, and of the ledger.
* `Badges`: a player has a badge exactly when the ledger reaches its threshold.
* `Refinement`: `Spec => AbsSpec`: under the mapping of `Progress!Abs` every commit is a `Credit`
  of the whole batch, a rejected event is one, and every other step is a stutter.

`TotalsAgree` is not inductive: a commit adds `gain`, which was put together attempt by attempt.
`GainIsOwn` says that it is the sum of the session's own attempts, `OwnInOrder` that these are
numbered in the order of the batch, so that `Credit` appends the same entries. `BadgesComplete` has
the other difficulty: each session decides on the sum of *its* snapshot. `LedgerLogged` says
that whoever writes a user's ledger has read it and stands in the log where its rows say; two
sessions that add to one ledger are then a conflict both ways, which `Dangerous` refuses, so that a
session that commits has seen all that was there.

The sums are `SumFunctionOnSet` of the community modules, which is defined by recursion over the
subsets of its domain, with a CHOOSE for the next element. `SumProofs` shows of it, by the
well-founded order of the subsets of a finite set, that the recursion has a solution, that
solutions agree, and `SumRemove`: any element may be taken out first.
Induction is stated with a set of good subsets (`SubsetInduction`) where the library's theorem
has an operator, which the provers cannot instantiate.

`OfflineQueueProofs`, for all values of the constants that satisfy
`ConstantsAssumption` (any finite set of plays, any players, devices and cycles, any
verdicts, any `BatchLimit` and `MaxAttempts` from 1 up, so the code's 50 and 3 too):

* `QueueInvariant`, `QueueTypes`: `Spec => []QueueInv`, and `TypeOK` as part of it.
* `RowsKept`: a row is deleted only after its event is recorded.
* `FlagReleased`: `isSyncing` is set only while some cycle sends.
* `HistoryInvariant`: `Spec => []HistoryInv`.
* `OrderPreserved`: events are recorded in the order of their rows.
* `OneCredit`: a row is credited at most once, a saved play exactly once.

`RowKept` is not inductive: `DeleteRow` trusts what the cycle confirmed long
before. `QueueInv` adds the chain that justifies it. `SentOldest`: a waiting cycle has
one request on the wire, for its oldest row, so that the answer it gets is about
that row. `CyclesOK`: a good answer tells of a recorded event, and so does a
confirmed row; a wipe is ordered by some device. `RowsQueued`: only rows of queued plays
are loaded, and the file is unlinked on order only.
`OrderKept` needs more, because a request that its cycle has given up may arrive
long after other cycles have gone on: `HistoryInv` says of every request on the wire,
whoever waits for it, that the rows before its row have their events
(`SentInOrder`), which stays true as events are never taken back; `BatchInOrder`
shows that a batch is closed downwards, and `RowKept` that a row which has left
the queue is recorded. `CreditsExplained` counts the credits of a play that is not
queued. The oldest row exists because the plays are finitely many: strict inclusion of
the sets of earlier plays is well-founded (`OldestIn`).

`AccountProofs`, for all values of the constants that satisfy `AccountAssumption` (any finite set
of users, any requests, tokens, links and ARCO requests, any limits from 1 up):

* `AccountInvariant`: `Spec => []IInv`; `AccountTypes`: `TypeOK` as part of it.
* `ActiveOnly`: a token the router accepts is an active account's.
* `MinorsHaveConsent`, `EvidenceStays`: a minor in use has a consent, and its link stays.
* `ArcoIsHonoured`: an approved request to be cancelled leaves a cancelled account, and none is
  cancelled in the name of a request that it has not.
* `CancellationFinal`: no step takes a cancelled account back.

`ActingMeansActive` is not inductive: `IssueTokens` hands out a version that was read when the
account was active. `IInv` adds `VersionsRead`: every version that a token or a request holds
is an older one, or the account is active. It is kept because every statement makes
a row `Evolve` (a row that stops being active has a greater version), and what was
behind stays behind. `Owned` says that requests, links and lists name registered accounts, `ListedOld` that a
listed account is as old as its list says (a cancellation by a stale list has that much
for a reason, `CancelledForCause`, and no more: see `ConsentedNotPurged`), `Sound` what each row is by itself.

`AppProofs`, for any contents, boards, identifiers and bounds that satisfy `PlayedAssumption`,
`BoundsAssumption` and `SnakesLevelsAssumption`:

* `OneAttempt`, `ShellIsReleased`: a visit posts at most once; a page that was left has told the
  shell so.
* `OneClockRuns`: in trivia the clock and the pause exclude each other.
* `AiInTurn`, `TokensOnBoard`: the AI moves in its turn; tokens stay on boards of six cells or
  more and are drawn where they stand.
* `RightLettersStay`: a crossword never loses a right letter.
* `GamesAreEarned`: the reports of snakes and ladders, the puzzle and true or false.

`VisitInv` and `ShellInv` are about the page alone. For the games, `PageSteps` says what any
step of `App` is to the mounted game: a move of it, a fresh mount, its removal, or nothing; an
invariant of a game is then shown of its own moves and of what is mounted. `SnakesEngine` adds to
the two properties that a roll is offered and a question asked in the player's turn only, and
that the goal is reached only by ending the game; a crossword's locked cells are right
(`CrosswordState`), through every operation of the engine and its composition.

`GamesProofs`, from these and from `ContentsAssumption`, `MinimaAssumption` and `LetterAssumption`:

* `EverythingIsEarned`: `ReportsAreEarned` for all seven games.
* `EveryWordIsFindable`: what is placed in a word search stays readable on a straight line.
* `TheCataloguePlays`: what the catalogue holds mounts its game, with all that its author wrote in
  six of the seven templates (a word search drops what finds no place).
* `Types`: `TypeOK` of the editors, the page and the games.
* `CrosswordsRead`: `ReadsAsWords`: in a crossword's grid every across and down of two cells or more
  is one of its words, whatever the words, and whatever is typed.

What the assumptions ask: contents have the shape of their template and their lists are lists
(`WellFormed`), which the code has from JSON and its schemas; a memory level has two pairs at least (`MinPairs >= 2`, the
code has 4), as the page asks for two; the mark of an empty cell is no letter; a word search that is played
has cells, and lists are lists also in the browser's store: this leaves out files that were written
by hand and imported there (`DashboardPage.tsx:65`), which nothing validates.

The score of trivia, memory, the crossword and the word search is a count, and its invariant relates the
counter to what is counted: `TriviaScored` to the tally of the present game (its questions are those
behind the current one, and the games reported are the earlier ones of the history), `MemoryScored` to
the matched pairs (as many matches as pairs means that every card is matched), `CrosswordCounted` to
the right letters, `SearchScored` to the words found. For `Findable` the grid is followed
while it is filled: `IsLaid` says that every word taken stands in it, over equal letters only; a word more
keeps it so (`OneMoreWord`), and so does filling the holes. The grid is a `MapThenFoldSet`
over words that are taken shortest last; `RecursionExists`, `RecursionsAgree` and `RecursionStays`
treat such a fold as `SumProofs` treats a sum. For the catalogue, `LevelsInv` says that what is stored
alive was accepted by the maker's form *and* the server, although the target of a save may
have changed since the form was filled, and a lemma for each template (`TriviaIsWhole` ..
`CrosswordIsWhole`) that the normalizer drops nothing of such a content; `WordSearchMounts` says of a word
search that it has words to begin with. Lists that the code filters or sorts are
`Filter` and `ByLength`, written with ranks of the indices kept: the lemmas about
ranks (`Ranks`, `SubsequenceElements`, `SubsequenceLength`) say what a filter returns, which a
recursive `SelectSeq` hides from the provers.

Both checks are needed for `TheCataloguePlays`. With `ServerAccepts` alone it is false: of the answers
AN, AA, BÑN the server, which keeps Ñ, connects all three, while the page, for which
Ñ is N, can place two (`service.go:1080` and `:937`, `CrosswordEngine.ts`); the editor's own layout refuses such a level, and only a client
that skips the editor could store it.

`CrosswordsRead` is about the layout engine first (`BuildReads`): a layout in the making is a set of places, and
`OneMorePlace` shows that `canPlaceWord` keeps it a crossword. Where the new word covers a cell the
letters agree; where it takes a new cell it has no neighbour on either side, so a run of cells in the other direction
is one that stood before, and the run in its own direction is itself, as the cells before
and after it are free. Only these three checks are used: which place of those
admitted `findBestPlacement` takes, how the words are sorted and which layout wins do not matter, and
the normalization moves all cells alike. Then the game: no operation
touches `letters` or `placed` (`CrosswordLaid`).

Model-checked only: `Drained`, `Settled` and `OverIsPosted`, as all liveness: the provers have no `ENABLED`.
Every invariant of a passing run is proved.

## 5. Not modelled, and the plan

`PROJECT.json` gives a reason for each component. In short:

* Rate limiters (rates of a wall clock), partitions (the database's catalogue), incidents
  (one transaction of two inserts), cryptography, configuration, mail, scripts: no shared state
  of the program to interleave.
* Sections and audit rows: written in the transaction of their change. That a level
  is created in a section which is being archived is refused by nothing, so there is
  no property to state.
* The streak (`levels/service.go:1309`): a pure function of a list of dates; its input is
  `Progress!NewDays`.
* A sync that passed the token check and commits after a cancellation writes progress
  of a cancelled account; nothing refuses it, see the hazard at `privacy.go:63`.
* Pages that only render or send one request.

What would pay next:

1. `Account` and `Progress` together, at the grain of `ProgressAbs`: what a cancellation removes and
   what later syncs put back.
2. `Account` with the app's session (`OfflineQueue`), which takes tokens to be refused at any
   time.
3. Sections, with keyset pagination of the lists while levels come and go.
