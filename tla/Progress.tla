------------------------------ MODULE Progress ------------------------------
(***************************************************************************)
(* How a player's progress is written (backend/internal/sync and the       *)
(* CompleteLevel operation of backend/internal/levels): every request is   *)
(* one SERIALIZABLE PostgreSQL transaction.  A session runs one request:   *)
(* its reads come from the snapshot of its first statement, which is older *)
(* than the advisory lock it takes before it counts attempts.              *)
(*                                                                         *)
(* The database is a multi-version store: a committed row carries the      *)
(* position, in the log of commits, of the transaction that wrote it, and  *)
(* a session sees the rows up to its snapshot and its own.  What a session *)
(* wrote and did not commit is in its record, with the locks that others   *)
(* wait for.                                                               *)
(***************************************************************************)
EXTENDS Integers, Sequences, FiniteSets, Functions, Xp

CONSTANTS
  User, Level, Date, Badge, Device, Event,
  Session,       \* concurrent requests the server works on
  Difficulties,  \* difficulties of a level
  NotAvailable,  \* what a session reads of a level that is not published
  Owner,         \* the user a device is registered to
  Threshold,     \* points a badge asks for
  Request,       \* what clients may send
  NoEvent,       \* sync_event_id of an online completion
  NoDevice,      \* device of an online completion
  NoRequest,     \* request of an idle session
  MaxCommits     \* bound: no transaction starts after this many commits

ASSUME ConstantsAssumption ==
  /\ Difficulties \subseteq Nat
  /\ NotAvailable \notin Difficulties
  /\ NoEvent \notin Event
  /\ NoRequest \notin Request
  /\ Owner \in [Device -> User]
  /\ Threshold \in [Badge -> Nat \ {0}]  \* migration 0004, the only one to fill badges
  /\ MaxCommits \in Nat
  /\ IsFiniteSet(Level) /\ IsFiniteSet(Date)  \* keys and dates have a fixed width

\* One request: "sync" is POST /sync with its batch of attempts, "online" is
\* POST /levels/{id}/complete, whose batch is a single attempt.  valid stands
\* for a signature that verifies, no date in the future and no negative score.
Item == [level : Level, date : Date, completed : BOOLEAN]
RequestType ==
  [kind : {"sync", "online"}, user : User, event : Event \union {NoEvent},
   device : Device \union {NoDevice}, items : Seq(Item), days : SUBSET Date,
   valid : BOOLEAN]

ASSUME RequestAssumption ==
  /\ Request \subseteq RequestType
  /\ \A r \in Request :
       /\ r.kind = "sync" => r.event \in Event /\ r.device \in Device
       /\ r.kind = "online" =>
            /\ r.event = NoEvent /\ r.device = NoDevice /\ r.valid
            /\ Len(r.items) = 1
            /\ r.days = IF r.items[1].completed THEN {r.items[1].date} ELSE {}

VARIABLES
  attempts,   \* level_attempts: per user, level and day, rows by attempt_number
  ledger,     \* experience_history
  progress,   \* player_progress, per user and level
  badges,     \* user_badges
  streak,     \* daily_streak
  events,     \* sync_events.status
  wipe,       \* devices.wipe_local_data
  catalogue,  \* levels: the difficulty of a published level, or NotAvailable
  log,        \* the committed transactions, in commit order
  session     \* the requests being processed

vars == <<attempts, ledger, progress, badges, streak, events, wipe, catalogue, log, session>>

Key == User \X Level \X Date
KeyOf(r, i) == <<r.user, r.items[i].level, r.items[i].date>>

NoProgress == [xp |-> 0, count |-> 0, done |-> FALSE]
NoGain == [l \in Level |-> NoProgress]

IdleSession(reply) ==
  [phase |-> "idle", req |-> NoRequest, snap |-> 0, wipe |-> FALSE, seen |-> <<>>,
   own |-> <<>>, gain |-> NoGain, keys |-> {}, rows |-> {}, reply |-> reply]

NoReply == [status |-> "none", wipe |-> FALSE]
Status(s) == [status |-> s, wipe |-> FALSE]

Init ==
  /\ attempts  = [k \in Key |-> <<>>]
  /\ ledger    = {}
  /\ progress  = [p \in User \X Level |-> NoProgress]
  /\ badges    = [u \in User |-> {}]
  /\ streak    = [u \in User |-> {}]
  /\ events    = [e \in Event |-> "none"]
  /\ wipe      = [d \in Device |-> FALSE]
  /\ catalogue \in [Level -> Difficulties \union {NotAvailable}]
  /\ log       = <<>>
  /\ session   = [s \in Session |-> IdleSession(NoReply)]
-----------------------------------------------------------------------------
(***************************************************************************)
(* PostgreSQL: row locks, first-updater-wins and serializable snapshots.   *)
(***************************************************************************)

\* A session may write a row that no other session has written and not yet
\* committed (it waits) and that nobody committed after its snapshot ("could
\* not serialize access due to concurrent update": it can only abort).
CanWrite(s, row) ==
  /\ \A t \in Session \ {s} : row \notin session[t].rows
  /\ \A c \in (session[s].snap + 1)..Len(log) : row \notin log[c].rows

\* a read data that the concurrent b wrote: a precedes b in any serial order.
Antidepends(a, b) == /\ a.reads \intersect b.writes # {}
                     /\ b.at > a.snap
                     /\ a.at > b.snap

Dangerous_Never(e) == FALSE

\* Committing e would complete a pair of consecutive antidependencies
\* in -> pivot -> out whose out committed first: one of the three must abort.
Dangerous(e) ==
  \E i \in 1..Len(log) :
    /\ Antidepends(e, log[i])
    /\ \/ \E j \in i..Len(log) : Antidepends(log[j], e)
       \/ \E j \in 1..(i - 1) : Antidepends(log[i], log[j])

Entry(snap, reads, writes, rows) ==
  [at |-> Len(log) + 1, snap |-> snap, reads |-> reads, writes |-> writes, rows |-> rows]
-----------------------------------------------------------------------------
(***************************************************************************)
(* Queries, as the session s sees the tables.                              *)
(***************************************************************************)

OwnIndices(s, k) ==
  {i \in DOMAIN session[s].own : KeyOf(session[s].req, i) = k}
OwnNumbers(s, k) == {session[s].own[i].number : i \in OwnIndices(s, k)}

SeenAttempts(s, k) ==
  {n \in DOMAIN attempts[k] : attempts[k][n].at <= session[s].snap}

CountLevelAttemptsByDate_AnyLevel(s, k) ==
  LET keys == {x \in Key : x[1] = k[1] /\ x[3] = k[3]} IN
  SumFunction([x \in keys |-> Cardinality(SeenAttempts(s, x)) + Cardinality(OwnIndices(s, x))])

CountLevelAttemptsByDate_StoredOnly(s, k) == Cardinality(SeenAttempts(s, k))

\* CountLevelAttemptsByDate: the snapshot's rows and the session's own.
CountLevelAttemptsByDate(s, k) ==
  Cardinality(SeenAttempts(s, k)) + Cardinality(OwnIndices(s, k))

\* SUM of the points of ledger rows, and of some of the session's own attempts.
XPOf(rows) == SumFunction([x \in rows |-> x.xp])
OwnXP(s, I) ==
  LET own == session[s].own IN SumFunctionOnSet([i \in DOMAIN own |-> own[i].xp], I)

\* GetUserProgressTotals: the sum over the ledger that the session sees.
TotalXP(s) ==
  XPOf({x \in ledger : x.user = session[s].req.user /\ x.at <= session[s].snap})
  + OwnXP(s, DOMAIN session[s].own)

AttemptXP(r, difficulty, number, completed) ==
  IF r.kind = "sync" THEN xpForAttempt(difficulty, number, completed)
                     ELSE CalculateXP(difficulty, number, completed)

Acceptable_Unsigned(s) ==
  \A i \in DOMAIN session[s].seen : session[s].seen[i] # NotAvailable

\* The first validation of validateAndPrepare that fails rejects the event.
Acceptable(s) ==
  /\ session[s].req.valid
  /\ \A i \in DOMAIN session[s].seen : session[s].seen[i] # NotAvailable
-----------------------------------------------------------------------------
(***************************************************************************)
(* One request, statement by statement.                                    *)
(***************************************************************************)

Open(s, r, phase) ==
  session' = [session EXCEPT ![s] =
    [phase |-> phase, req |-> r, snap |-> Len(log),
     wipe  |-> IF r.kind = "sync" THEN wipe[r.device] ELSE FALSE,
     seen  |-> [i \in DOMAIN r.items |-> catalogue[r.items[i].level]],
     own |-> <<>>, gain |-> NoGain, keys |-> {}, rows |-> {}, reply |-> NoReply]]

End(s, reply) == session' = [session EXCEPT ![s] = IdleSession(reply)]

tables == <<attempts, ledger, progress, badges, streak, events, wipe, catalogue, log>>

\* ProcessSync: GetActiveDevice is the first statement, it fixes the snapshot.
BeginSync(s, r) ==
  /\ session[s].phase = "idle"
  /\ r.kind = "sync"
  /\ Len(log) < MaxCommits
  /\ Owner[r.device] = r.user
  /\ Open(s, r, "opened")
  /\ UNCHANGED tables

\* The device is not one of the user: ErrInvalidPayload, nothing is recorded.
RefuseDevice(s, r) ==
  /\ session[s].phase = "idle"
  /\ r.kind = "sync"
  /\ Len(log) < MaxCommits
  /\ Owner[r.device] # r.user
  /\ End(s, Status("invalid"))
  /\ UNCHANGED tables

\* CompleteLevel: GetLevelByID is the first statement.
BeginOnline(s, r) ==
  /\ session[s].phase = "idle"
  /\ r.kind = "online"
  /\ Len(log) < MaxCommits
  /\ catalogue[r.items[1].level] # NotAvailable
  /\ Open(s, r, "running")
  /\ UNCHANGED tables

\* The level is not published: ErrNotFound.
RefuseLevel(s, r) ==
  /\ session[s].phase = "idle"
  /\ r.kind = "online"
  /\ Len(log) < MaxCommits
  /\ catalogue[r.items[1].level] = NotAvailable
  /\ End(s, Status("not_found"))
  /\ UNCHANGED tables

EventRow(s) == <<"event", session[s].req.event>>

RecordEvent_OnConflictDoNothing(s) ==
  /\ session[s].phase = "opened"
  /\ CanWrite(s, EventRow(s))
  /\ session' = [session EXCEPT ![s].phase = "running",
                                ![s].rows = @ \union {EventRow(s)}]
  /\ UNCHANGED tables

\* InsertSyncEventWithPayload: the event is pending, seen by nobody else yet.
RecordEvent(s) ==
  /\ session[s].phase = "opened"
  /\ events[session[s].req.event] = "none"
  /\ CanWrite(s, EventRow(s))
  /\ session' = [session EXCEPT ![s].phase = "running",
                                ![s].rows = @ \union {EventRow(s)}]
  /\ UNCHANGED tables

\* A committed row with the same sync_event_id: duplicate key, roll back.
AlreadyProcessed(s) ==
  /\ session[s].phase = "opened"
  /\ events[session[s].req.event] # "none"
  /\ End(s, Status("already_processed"))
  /\ UNCHANGED tables

\* rejectAndCommit: the row of the event stays, with status 'rejected'.
RejectEvent(s) ==
  /\ session[s].phase = "running"
  /\ ~Acceptable(s)
  /\ events' = [events EXCEPT ![session[s].req.event] = "rejected"]
  /\ log' = Append(log, Entry(session[s].snap, {}, {}, session[s].rows))
  /\ End(s, Status("rejected"))
  /\ UNCHANGED <<attempts, ledger, progress, badges, streak, wipe, catalogue>>

\* rejectAndCommit fails: its error is dropped and the client is told the same.
RejectionLost(s) ==
  /\ session[s].phase = "running"
  /\ ~Acceptable(s)
  /\ End(s, Status("rejected"))
  /\ UNCHANGED tables

NextKey(s) == KeyOf(session[s].req, Len(session[s].own) + 1)
MoreAttempts(s) ==
  /\ session[s].phase = "running"
  /\ Acceptable(s)
  /\ Len(session[s].own) < Len(session[s].req.items)

LockLevelAttempt_Shared(s) ==
  /\ MoreAttempts(s)
  /\ NextKey(s) \notin session[s].keys
  /\ session' = [session EXCEPT ![s].keys = @ \union {NextKey(s)}]
  /\ UNCHANGED tables

\* LockLevelAttempt: an advisory lock on user, level and day, held to the end.
LockLevelAttempt(s) ==
  /\ MoreAttempts(s)
  /\ NextKey(s) \notin session[s].keys
  /\ \A t \in Session \ {s} : NextKey(s) \notin session[t].keys
  /\ session' = [session EXCEPT ![s].keys = @ \union {NextKey(s)}]
  /\ UNCHANGED tables

Plus_Overwrites(p, q) == IF q.count = 0 THEN p ELSE q

\* UpsertPlayerProgressForAttempt adds to the row, whatever it holds.
Plus(p, q) ==
  [xp |-> p.xp + q.xp, count |-> p.count + q.count, done |-> p.done \/ q.done]

\* What the next attempt becomes: its number, its points, the pending change of
\* player_progress and the row of it that the session then holds.
NextNumber(s) == CountLevelAttemptsByDate(s, NextKey(s)) + 1
NextItem(s) == session[s].req.items[Len(session[s].own) + 1]
NextXP(s) ==
  AttemptXP(session[s].req, session[s].seen[Len(session[s].own) + 1], NextNumber(s),
            NextItem(s).completed)
NextGain(s) ==
  [session[s].gain EXCEPT ![NextItem(s).level] =
     Plus(@, [xp |-> NextXP(s), count |-> 1, done |-> NextItem(s).completed])]
NextRow(s) == <<"progress", session[s].req.user, NextItem(s).level>>

\* Count, InsertLevelAttempt under UNIQUE(user, level, date, number), upsert of
\* player_progress, InsertExperienceHistory.
RunAttempt(s) ==
  /\ MoreAttempts(s)
  /\ NextKey(s) \in session[s].keys
  /\ NextNumber(s) \notin DOMAIN attempts[NextKey(s)]
  /\ CanWrite(s, NextRow(s))
  /\ session' = [session EXCEPT
       ![s].own = Append(@, [number |-> NextNumber(s), xp |-> NextXP(s)]),
       ![s].gain = NextGain(s),
       ![s].rows = @ \union {NextRow(s)}]
  /\ UNCHANGED tables

NewRow(s, k, n) ==
  LET i == CHOOSE j \in OwnIndices(s, k) : session[s].own[j].number = n IN
  [xp |-> session[s].own[i].xp, completed |-> session[s].req.items[i].completed,
   difficulty |-> session[s].seen[i], at |-> Len(log) + 1]

WithNewAttempts(s) ==
  [k \in Key |-> [n \in DOMAIN attempts[k] \union OwnNumbers(s, k) |->
     IF n \in DOMAIN attempts[k] THEN attempts[k][n] ELSE NewRow(s, k, n)]]

NewLedgerRows(s) ==
  LET r == session[s].req IN
  {[user |-> r.user, level |-> r.items[i].level, xp |-> session[s].own[i].xp,
    event |-> r.event, item |-> i, at |-> Len(log) + 1] : i \in DOMAIN session[s].own}

WithNewProgress(s) ==
  [p \in User \X Level |->
     IF p[1] = session[s].req.user THEN Plus(progress[p], session[s].gain[p[2]])
                                   ELSE progress[p]]

NewBadges(s) ==
  {b \in Badge : Threshold[b] <= TotalXP(s)} \ badges[session[s].req.user]
NewDays(s) == session[s].req.days \ streak[session[s].req.user]

LastRows_NoTouchDevice(s) ==
  LET r == session[s].req IN
  {<<"day", r.user, d>> : d \in r.days}
  \union {<<"badge", r.user, b>> : b \in {x \in Badge : Threshold[x] <= TotalXP(s)}}

\* The rows the last statements write: daily_streak, devices (TouchDevice) and
\* user_badges.
LastRows(s) ==
  LET r == session[s].req IN
  {<<"day", r.user, d>> : d \in r.days}
  \union {<<"badge", r.user, b>> : b \in {x \in Badge : Threshold[x] <= TotalXP(s)}}
  \union (IF r.kind = "sync" THEN {<<"device", r.device>>} ELSE {})

\* ON CONFLICT DO NOTHING leaves rows that were there as they are.
WrittenRows(s) ==
  session[s].rows \union
  (LastRows(s) \ ({<<"day", session[s].req.user, d>> : d \in streak[session[s].req.user]}
                  \union {<<"badge", session[s].req.user, b>> : b \in badges[session[s].req.user]}))

\* What serializability tracks: each session reads the ledger of its user, an
\* online one also lists the days of activity.  Attempts need no entry of their
\* own: a session that counts them also reads and extends the ledger.
CommitEntry(s) ==
  LET r == session[s].req IN
  Entry(session[s].snap,
        {<<"ledger", r.user>>}
          \union (IF r.kind = "online" THEN {<<"streak", r.user>>} ELSE {}),
        (IF r.items # <<>> THEN {<<"ledger", r.user>>} ELSE {})
          \union (IF NewDays(s) # {} THEN {<<"streak", r.user>>} ELSE {}),
        WrittenRows(s))

\* The end of both handlers: streak, event status, device, totals, badges and
\* the COMMIT, which the serializable check may refuse.
Commit(s) ==
  LET r == session[s].req IN
  /\ session[s].phase = "running"
  /\ Acceptable(s)
  /\ Len(session[s].own) = Len(r.items)
  /\ \A row \in LastRows(s) : CanWrite(s, row)
  /\ ~Dangerous(CommitEntry(s))
  /\ attempts' = WithNewAttempts(s)
  /\ ledger' = ledger \union NewLedgerRows(s)
  /\ progress' = WithNewProgress(s)
  /\ streak' = [streak EXCEPT ![r.user] = @ \union NewDays(s)]
  /\ events' = IF r.kind = "sync" THEN [events EXCEPT ![r.event] = "processed"] ELSE events
  /\ badges' = [badges EXCEPT ![r.user] = @ \union NewBadges(s)]
  /\ log' = Append(log, CommitEntry(s))
  /\ End(s, [status |-> IF r.kind = "sync" THEN "synced" ELSE "completed",
             wipe |-> session[s].wipe])
  /\ UNCHANGED <<wipe, catalogue>>

\* Any statement may fail: serialization failure, deadlock, unique violation,
\* request timeout, lost connection.  The transaction rolls back: 500.
Abort(s) ==
  /\ session[s].phase # "idle"
  /\ End(s, Status("error"))
  /\ UNCHANGED tables
-----------------------------------------------------------------------------
(***************************************************************************)
(* Other writers.                                                          *)
(***************************************************************************)

\* An administrator publishes, withdraws, archives or edits a level.
EditCatalogue(l, v) ==
  /\ v # catalogue[l]
  /\ catalogue' = [catalogue EXCEPT ![l] = v]
  /\ UNCHANGED <<attempts, ledger, progress, badges, streak, events, wipe, log, session>>

\* MarkUserDevicesForWipe, when the user asks for the cancellation of the account.
MarkUserDevicesForWipe(u) ==
  LET owned == {d \in Device : Owner[d] = u} IN
  /\ Len(log) < MaxCommits
  /\ wipe' = [d \in Device |-> d \in owned \/ wipe[d]]
  /\ log' = Append(log, Entry(Len(log), {}, {}, {<<"device", d>> : d \in owned}))
  /\ UNCHANGED <<attempts, ledger, progress, badges, streak, events, catalogue, session>>

Next ==
  \/ \E s \in Session :
       \/ \E r \in Request :
            \/ BeginSync(s, r)
            \/ RefuseDevice(s, r)
            \/ BeginOnline(s, r)
            \/ RefuseLevel(s, r)
       \/ RecordEvent(s)
       \/ AlreadyProcessed(s)
       \/ RejectEvent(s)
       \/ RejectionLost(s)
       \/ LockLevelAttempt(s)
       \/ RunAttempt(s)
       \/ Commit(s)
       \/ Abort(s)
  \/ \E l \in Level, v \in Difficulties \union {NotAvailable} : EditCatalogue(l, v)
  \/ \E u \in User : MarkUserDevicesForWipe(u)

Spec == Init /\ [][Next]_vars
-----------------------------------------------------------------------------
(***************************************************************************)
(* Correctness.                                                            *)
(***************************************************************************)

AttemptRow == [xp : Nat, completed : BOOLEAN, difficulty : Difficulties, at : Nat]
LedgerRow == [user : User, level : Level, xp : Nat, event : Event \union {NoEvent},
              item : Nat, at : Nat]
ProgressRow == [xp : Nat, count : Nat, done : BOOLEAN]
\* Rows that sessions wait for or conflict on, and data whose reads are tracked.
RowName == ({"event"} \X Event) \union ({"device"} \X Device)
           \union ({"progress"} \X User \X Level)
           \union ({"day"} \X User \X Date) \union ({"badge"} \X User \X Badge)
Tracked == {"ledger", "streak"} \X User
LogEntry == [at : Nat, snap : Nat, reads : SUBSET Tracked, writes : SUBSET Tracked,
             rows : SUBSET RowName]
Statuses == {"none", "invalid", "not_found", "already_processed", "rejected", "error",
             "synced", "completed"}

SessionRecord ==
  [phase : {"idle", "opened", "running"}, req : Request \union {NoRequest}, snap : Nat,
   wipe : BOOLEAN, seen : Seq(Difficulties \union {NotAvailable}),
   own : Seq([number : Nat \ {0}, xp : Nat]), gain : [Level -> ProgressRow], keys : SUBSET Key, rows : SUBSET RowName,
   reply : [status : Statuses, wipe : BOOLEAN]]

\* Every table holds rows of its type and every session record is well formed.
TypeOK ==
  /\ DOMAIN attempts = Key
  /\ \A k \in Key : /\ DOMAIN attempts[k] \subseteq Nat \ {0}
                    /\ IsFiniteSet(DOMAIN attempts[k])
                    /\ attempts[k] \in [DOMAIN attempts[k] -> AttemptRow]
  /\ ledger \subseteq LedgerRow
  /\ progress \in [User \X Level -> ProgressRow]
  /\ badges \in [User -> SUBSET Badge]
  /\ streak \in [User -> SUBSET Date]
  /\ events \in [Event -> {"none", "processed", "rejected"}]
  /\ wipe \in [Device -> BOOLEAN]
  /\ catalogue \in [Level -> Difficulties \union {NotAvailable}]
  /\ log \in Seq(LogEntry)
  /\ session \in [Session -> SessionRecord]

\* RF15: whatever sessions ran at once, the attempts of a user at a level on a
\* day are numbered 1, 2, 3 ... with no gap and no number given twice.
AttemptsContiguous ==
  \A k \in Key : DOMAIN attempts[k] = 1..Cardinality(DOMAIN attempts[k])

\* The points of a stored attempt are those of its number: the first of the day
\* earns the full award and only the second and the third half of it.
PointsFollowNumber ==
  \A k \in Key : \A n \in DOMAIN attempts[k] :
    LET a == attempts[k][n] IN a.xp = ScheduledXP(a.difficulty, n, a.completed)

\* An offline event credits points only once and as a whole: its ledger rows
\* were committed together, and a rejected or unseen event has none.
EventCreditedOnce ==
  /\ \A x \in ledger : x.event # NoEvent => events[x.event] = "processed"
  /\ \A x, y \in ledger : x.event # NoEvent /\ x.event = y.event =>
       x.at = y.at /\ (x.item = y.item => x = y)

UserLedger(u) == {x \in ledger : x.user = u}
LedgerOf(u, l) == {x \in ledger : x.user = u /\ x.level = l}
KeysOf(u, l) == {<<u, l, d>> : d \in Date}
StoredXP(k) == SumFunction([n \in DOMAIN attempts[k] |-> attempts[k][n].xp])
StoredCount(k) == Cardinality(DOMAIN attempts[k])

\* The running totals of player_progress, which sessions update in place, agree
\* with the attempts and with the append-only ledger.
TotalsAgree ==
  \A u \in User, l \in Level :
    LET p == progress[<<u, l>>] IN
    /\ p.xp = SumFunction([k \in KeysOf(u, l) |-> StoredXP(k)])
    /\ p.xp = XPOf(LedgerOf(u, l))
    /\ p.count = SumFunction([k \in KeysOf(u, l) |-> StoredCount(k)])
    /\ p.count = Cardinality(LedgerOf(u, l))

\* No badge is missed or given early, although each session decides on the sum
\* it sees in its snapshot while others add to the same ledger.
BadgesComplete ==
  \A u \in User : badges[u] = {b \in Badge : Threshold[b] <= XPOf(UserLedger(u))}

\* A "synced" answer carries the wipe order as it stands when the transaction
\* commits, although the flag was read at its first statement.
SyncedCarriesWipe ==
  [][\A s \in Session :
       session[s].phase = "running" /\ session'[s].reply.status = "synced"
         => session'[s].reply.wipe = wipe'[session[s].req.device]]_vars

\* The transactions implement the promise of ProgressAbs, one batch at a time.
Abs == INSTANCE ProgressAbs WITH
  board  <- [k \in Key |-> [n \in DOMAIN attempts[k] |->
               [completed |-> attempts[k][n].completed,
                difficulty |-> attempts[k][n].difficulty]]],
  total  <- [u \in User |-> XPOf(UserLedger(u))],
  earned <- badges,
  days   <- streak,
  event  <- events
AbsSpec == Abs!Spec
-----------------------------------------------------------------------------
(***************************************************************************)
(* The inductive invariant behind AttemptsContiguous, PointsFollowNumber,  *)
(* EventCreditedOnce and SyncedCarriesWipe: what a session has done so far *)
(* and how the advisory locks and the row of its event keep others away.   *)
(***************************************************************************)

SessionShape ==
  \A s \in Session :
    LET x == session[s] IN
    /\ x.phase # "idle" =>
         /\ x.req \in Request
         /\ x.snap <= Len(log)
         /\ Len(x.seen) = Len(x.req.items)
         /\ Len(x.own) <= Len(x.req.items)
    /\ x.phase = "opened" => x.req.kind = "sync"
    /\ x.own # <<>> => x.phase = "running" /\ Acceptable(s)

KeysExclusive ==
  \A s, t \in Session : s # t => session[s].keys \intersect session[t].keys = {}

\* A running sync session holds the pending row of its event, alone.
EventsHeld ==
  /\ \A s \in Session :
       session[s].phase = "running" /\ session[s].req.kind = "sync" =>
         EventRow(s) \in session[s].rows /\ events[session[s].req.event] = "none"
  /\ \A s, t \in Session, e \in Event :
       s # t => ~(<<"event", e>> \in session[s].rows /\ <<"event", e>> \in session[t].rows)

\* The attempts a session has inserted at k continue the stored ones, and its
\* snapshot still shows all of these, because it holds the lock on k.
OwnContinue ==
  \A s \in Session, k \in Key :
    LET stored == Cardinality(DOMAIN attempts[k])
        mine   == Cardinality(OwnIndices(s, k))
    IN  OwnIndices(s, k) # {} =>
          /\ k \in session[s].keys
          /\ SeenAttempts(s, k) = DOMAIN attempts[k]
          /\ OwnNumbers(s, k) = (stored + 1)..(stored + mine)

OwnPoints ==
  \A s \in Session : \A i \in DOMAIN session[s].own :
    session[s].own[i].xp = ScheduledXP(session[s].seen[i], session[s].own[i].number,
                                       session[s].req.items[i].completed)

\* The wipe flag a session read is the current one, or a transaction committed
\* after its snapshot changed the row of the device.
WipeSeen ==
  \A s \in Session : session[s].phase # "idle" =>
    /\ session[s].reply = NoReply
    /\ session[s].req.kind = "sync" =>
         LET d == session[s].req.device IN
         \/ session[s].wipe = wipe[d]
         \/ \E c \in (session[s].snap + 1)..Len(log) : <<"device", d>> \in log[c].rows

NumberingInv ==
  /\ TypeOK
  /\ SessionShape
  /\ KeysExclusive
  /\ EventsHeld
  /\ OwnContinue
  /\ OwnPoints
  /\ AttemptsContiguous
  /\ PointsFollowNumber
  /\ EventCreditedOnce
  /\ WipeSeen
-----------------------------------------------------------------------------
(***************************************************************************)
(* What TotalsAgree, BadgesComplete and AbsSpec need on top of it.         *)
(***************************************************************************)

\* Whoever adds to the ledger of a user has read it, and is in the log of commits
\* where its rows say: what the serializable check of a later session relies on.
LedgerLogged ==
  /\ \A i \in DOMAIN log :
       /\ log[i].at = i
       /\ log[i].snap < i
       /\ \A u \in User : <<"ledger", u>> \in log[i].writes => <<"ledger", u>> \in log[i].reads
  /\ \A x \in ledger : x.at \in DOMAIN log /\ <<"ledger", x.user>> \in log[x.at].writes
  /\ IsFiniteSet(ledger)

\* The attempts of a batch at one key are numbered in the order of the batch.
OwnInOrder ==
  \A s \in Session : \A i \in DOMAIN session[s].own :
    LET k == KeyOf(session[s].req, i) IN
    session[s].own[i].number = StoredCount(k) + Cardinality({j \in OwnIndices(s, k) : j <= i})

\* The pending change of player_progress is the sum of the session's own attempts.
OwnAt(s, l) == {i \in DOMAIN session[s].own : session[s].req.items[i].level = l}
GainIsOwn ==
  \A s \in Session, l \in Level :
    /\ session[s].gain[l].xp = OwnXP(s, OwnAt(s, l))
    /\ session[s].gain[l].count = Cardinality(OwnAt(s, l))

IInv ==
  /\ NumberingInv
  /\ LedgerLogged
  /\ OwnInOrder
  /\ GainIsOwn
  /\ TotalsAgree
  /\ BadgesComplete
=============================================================================
