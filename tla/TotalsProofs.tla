---------------------------- MODULE TotalsProofs ----------------------------
(***************************************************************************)
(* Theorems about the sums of Progress: the totals of player_progress, the *)
(* ledger and the badges, for any number of users, levels and sessions.    *)
(***************************************************************************)
EXTENDS ProgressProofs, SumProofs

(***************************************************************************)
(* The log of commits and the ledger.                                      *)
(***************************************************************************)

\* The steps that touch the ledger, the totals or the log of commits.
LEMMA TableSteps ==
  ASSUME [Next]_vars
  PROVE  \/ UNCHANGED <<attempts, ledger, progress, badges, log>>
         \/ \E s \in Session : RejectEvent(s)
         \/ \E s \in Session : Commit(s)
         \/ \E u \in User : MarkUserDevicesForWipe(u)
<1>1. CASE UNCHANGED vars
  BY <1>1 DEF vars
<1>2. ASSUME UNCHANGED tables
      PROVE  UNCHANGED <<attempts, ledger, progress, badges, log>>
  BY <1>2 DEF tables
<1>3. ASSUME NEW l \in Level, NEW v \in Difficulties \union {NotAvailable}, EditCatalogue(l, v)
      PROVE  UNCHANGED <<attempts, ledger, progress, badges, log>>
  BY <1>3 DEF EditCatalogue
<1> QED BY <1>1, <1>2, <1>3
      DEF Next, BeginSync, RefuseDevice, BeginOnline, RefuseLevel, RecordEvent,
          AlreadyProcessed, RejectionLost, LockLevelAttempt, RunAttempt, Abort

\* LedgerLogged for one position of the log.
Logged(i) ==
  /\ log[i].at = i
  /\ log[i].snap < i
  /\ \A u \in User : <<"ledger", u>> \in log[i].writes => <<"ledger", u>> \in log[i].reads

LEMMA LogExtended ==
  ASSUME TypeInv, LedgerLogged, NEW snap \in Nat, snap <= Len(log), NEW reads, NEW writes, NEW rows,
         log' = Append(log, Entry(snap, reads, writes, rows)),
         \A u \in User : <<"ledger", u>> \in writes => <<"ledger", u>> \in reads
  PROVE  /\ DOMAIN log' = (DOMAIN log) \union {Len(log) + 1}
         /\ \A i \in DOMAIN log' : Logged(i)'
         /\ \A i \in DOMAIN log : log'[i] = log[i]
         /\ log'[Len(log) + 1].writes = writes
<1> DEFINE n == Len(log)
           e == Entry(snap, reads, writes, rows)
<1>1. log \in Seq(LogEntry) /\ n \in Nat /\ DOMAIN log = 1..n
  BY DEF TypeInv, TypeOK
<1>2. e.at = n + 1 /\ e.snap = snap /\ e.reads = reads /\ e.writes = writes
  BY DEF Entry
<1>3. DOMAIN Append(log, e) = 1..(n + 1) /\ Append(log, e)[n + 1] = e
  <2> HIDE DEF e
  <2> QED BY <1>1
<1>4. \A i \in 1..n : Append(log, e)[i] = log[i]
  <2> HIDE DEF e
  <2> QED BY <1>1
<1>5. log' = Append(log, e)
  OBVIOUS
<1> HIDE DEF e, n
<1>6. DOMAIN log' = (DOMAIN log) \union {n + 1}
  BY <1>1, <1>3, <1>5
<1>7. \A i \in DOMAIN log : Logged(i)'
  BY <1>1, <1>4, <1>5 DEF LedgerLogged, Logged
<1>8. log'[n + 1] = e
  BY <1>3, <1>5
<1>9. snap < n + 1
  BY <1>1 DEF n
<1>10. ASSUME NEW i, i = n + 1 PROVE Logged(i)'
  BY <1>2, <1>8, <1>9, <1>10 DEF Logged
<1>11. \A i \in DOMAIN log : log'[i] = log[i]
  BY <1>1, <1>4, <1>5
<1> QED BY <1>2, <1>6, <1>7, <1>8, <1>10, <1>11 DEF n

\* The rows a session adds to the ledger, one for each of the attempts in I.
RowOf(s, i) ==
  [user |-> session[s].req.user, level |-> session[s].req.items[i].level,
   xp |-> session[s].own[i].xp, event |-> session[s].req.event, item |-> i, at |-> Len(log) + 1]
RowsOf(s, I) == {RowOf(s, i) : i \in I}

LEMMA NewRowsAreRows == \A s : NewLedgerRows(s) = RowsOf(s, DOMAIN session[s].own)
BY DEF NewLedgerRows, RowsOf, RowOf

\* The attempts of a session: finitely many, each with points of its own.
LEMMA OwnRecords ==
  ASSUME TypeInv, NEW s \in Session
  PROVE  /\ session[s].own \in Seq([number : Nat \ {0}, xp : Nat])
         /\ DOMAIN session[s].own = 1..Len(session[s].own)
         /\ Len(session[s].own) \in Nat
         /\ IsFiniteSet(DOMAIN session[s].own)
         /\ \A i \in DOMAIN session[s].own :
              i \in Nat /\ session[s].own[i].xp \in Nat /\ session[s].own[i].number \in Nat \ {0}
<1> DEFINE Rec == [number : Nat \ {0}, xp : Nat]
           q == session[s].own
<1>1. q \in Seq(Rec)
  BY SessionFields DEF TypeInv, TypeOK
<1>2. \A x \in Rec : x.xp \in Nat /\ x.number \in Nat \ {0}
  OBVIOUS
<1> HIDE DEF Rec, q
<1>3. DOMAIN q = 1..Len(q) /\ Len(q) \in Nat /\ \A i \in DOMAIN q : q[i] \in Rec /\ i \in Nat
  BY <1>1
<1>4. IsFiniteSet(DOMAIN q)
  BY <1>3, FS_Interval
<1> QED BY <1>1, <1>2, <1>3, <1>4 DEF q, Rec

LEMMA RowsFinite ==
  ASSUME TypeInv, NEW s \in Session, NEW I, I \subseteq DOMAIN session[s].own
  PROVE  /\ IsFiniteSet(I) /\ IsFiniteSet(RowsOf(s, I))
         /\ Cardinality(RowsOf(s, I)) = Cardinality(I)
<1>1. IsFiniteSet(I)
  BY OwnRecords, FS_Subset
<1> DEFINE f == [i \in I |-> RowOf(s, i)]
<1>2. f \in Surjection(I, RowsOf(s, I))
  BY DEF Surjection, RowsOf
<1>3. \A i, j \in I : f[i] = f[j] => i = j
  BY DEF RowOf
<1>4. f \in Injection(I, RowsOf(s, I))
  <2>1. f \in [I -> RowsOf(s, I)]
    BY DEF RowsOf
  <2> HIDE DEF f
  <2> QED BY <1>3, <2>1 DEF Injection, IsInjective
<1> HIDE DEF f
<1> QED BY <1>1, <1>2, <1>4, FS_Surjection

\* How a commit moves the log and the ledger.
LEMMA CommitMoves ==
  ASSUME TypeInv, LedgerLogged, NEW s \in Session, Commit(s)
  PROVE  LET r == session[s].req
             n == Len(log) + 1
         IN  /\ r \in Request /\ r.user \in User
             /\ Len(session[s].own) = Len(r.items)
             /\ session[s].snap \in Nat /\ session[s].snap <= Len(log)
             /\ DOMAIN log' = (DOMAIN log) \union {n}
             /\ \A i \in DOMAIN log' : Logged(i)'
             /\ \A i \in DOMAIN log : log'[i] = log[i]
             /\ session[s].own # <<>> => <<"ledger", r.user>> \in log'[n].writes
             /\ ledger' = ledger \union RowsOf(s, DOMAIN session[s].own)
<1> DEFINE r == session[s].req
           reads == {<<"ledger", r.user>>}
                      \union (IF r.kind = "online" THEN {<<"streak", r.user>>} ELSE {})
           writes == (IF r.items # <<>> THEN {<<"ledger", r.user>>} ELSE {})
                       \union (IF NewDays(s) # {} THEN {<<"streak", r.user>>} ELSE {})
<1>1. r \in Request /\ session[s] \in SessionRecord /\ Len(session[s].own) = Len(r.items)
  BY DEF Commit, TypeInv, TypeOK, SessionShape
<1>2. session[s].snap \in Nat /\ session[s].snap <= Len(log)
  BY <1>1, SessionFields DEF Commit, TypeInv, SessionShape
<1>3. log' = Append(log, Entry(session[s].snap, reads, writes, WrittenRows(s)))
  BY DEF Commit, CommitEntry
<1>4. \A u \in User : <<"ledger", u>> \in writes => <<"ledger", u>> \in reads
  OBVIOUS
<1>5. session[s].own # <<>> => <<"ledger", r.user>> \in writes
  <2>1. session[s].own # <<>> => r.items # <<>>
    BY <1>1, OwnRecords, RequestShape
  <2> QED BY <2>1
<1>6. ledger' = ledger \union RowsOf(s, DOMAIN session[s].own)
  BY NewRowsAreRows DEF Commit
<1>7. r.user \in User
  BY <1>1, RequestShape
<1> HIDE DEF r, reads, writes
<1>8. /\ DOMAIN log' = (DOMAIN log) \union {Len(log) + 1}
      /\ \A i \in DOMAIN log' : Logged(i)'
      /\ \A i \in DOMAIN log : log'[i] = log[i]
      /\ log'[Len(log) + 1].writes = writes
  BY <1>2, <1>3, <1>4, LogExtended
<1> QED BY <1>1, <1>2, <1>5, <1>6, <1>7, <1>8 DEF r

LEMMA LedgerLoggedStep ==
  ASSUME TypeInv, LedgerLogged, [Next]_vars
  PROVE  LedgerLogged'
<1>a. ASSUME ledger' = ledger, \A i \in DOMAIN log : i \in DOMAIN log' /\ log'[i] = log[i],
             \A i \in DOMAIN log' : Logged(i)'
      PROVE  LedgerLogged'
  BY <1>a DEF LedgerLogged, Logged
<1>1. CASE UNCHANGED <<attempts, ledger, progress, badges, log>>
  BY <1>1 DEF LedgerLogged
<1>2. ASSUME NEW s \in Session, RejectEvent(s) PROVE LedgerLogged'
  <2>1. session[s].snap \in Nat /\ session[s].snap <= Len(log)
    BY <1>2, SessionFields DEF RejectEvent, TypeInv, TypeOK, SessionShape
  <2>2. log' = Append(log, Entry(session[s].snap, {}, {}, session[s].rows)) /\ ledger' = ledger
    BY <1>2 DEF RejectEvent
  <2> QED BY <1>a, <2>1, <2>2, LogExtended
<1>3. ASSUME NEW s \in Session, Commit(s) PROVE LedgerLogged'
  <2>1. IsFiniteSet(ledger')
    <3>1. ledger' = ledger \union RowsOf(s, DOMAIN session[s].own)
      BY <1>3, CommitMoves
    <3>2. IsFiniteSet(RowsOf(s, DOMAIN session[s].own)) /\ IsFiniteSet(ledger)
      BY RowsFinite DEF LedgerLogged
    <3>3. IsFiniteSet(ledger \union RowsOf(s, DOMAIN session[s].own))
      BY <3>2, FS_Union
    <3> QED BY <3>1, <3>3
  <2>2. ASSUME NEW x \in ledger PROVE x.at \in DOMAIN log' /\ <<"ledger", x.user>> \in log'[x.at].writes
    BY <1>3, CommitMoves DEF LedgerLogged
  <2>3. ASSUME NEW x \in RowsOf(s, DOMAIN session[s].own)
        PROVE  x.at \in DOMAIN log' /\ <<"ledger", x.user>> \in log'[x.at].writes
    <3>1. x.at = Len(log) + 1 /\ x.user = session[s].req.user /\ session[s].own # <<>>
      BY DEF RowsOf, RowOf
    <3> QED BY <1>3, <3>1, CommitMoves
  <2> QED BY <1>3, <2>1, <2>2, <2>3, CommitMoves DEF LedgerLogged, Logged
<1>4. ASSUME NEW u \in User, MarkUserDevicesForWipe(u) PROVE LedgerLogged'
  <2> DEFINE rows == {<<"device", d>> : d \in {x \in Device : Owner[x] = u}}
  <2>1. log' = Append(log, Entry(Len(log), {}, {}, rows)) /\ ledger' = ledger
    BY <1>4 DEF MarkUserDevicesForWipe
  <2>2. Len(log) \in Nat
    BY DEF TypeInv, TypeOK
  <2> HIDE DEF rows
  <2> QED BY <1>a, <2>1, <2>2, LogExtended
<1> QED BY <1>1, <1>2, <1>3, <1>4, TableSteps

(***************************************************************************)
(* What a session has done so far.                                         *)
(***************************************************************************)

\* No step but RunAttempt changes the attempts or the gains of a session, unless
\* the session begins or ends.
Emptied(t) == session'[t].own = <<>> /\ session'[t].gain = NoGain
SameWork(t) == /\ session'[t].own = session[t].own
               /\ session'[t].gain = session[t].gain
               /\ (session'[t].req = session[t].req \/ session[t].own = <<>>)

LEMMA WorkSteps ==
  ASSUME TypeInv, [Next]_vars, NEW t \in Session
  PROVE  Emptied(t) \/ SameWork(t) \/ RunAttempt(t)
<1>0. session \in [Session -> SessionRecord] /\ session[t] \in SessionRecord
  BY DEF TypeInv, TypeOK
<1>1. ASSUME NEW s \in Session, NEW r, NEW phase, Open(s, r, phase)
      PROVE  Emptied(t) \/ SameWork(t)
  BY <1>0, <1>1 DEF Open, Emptied, SameWork
<1>2. ASSUME NEW s \in Session, NEW reply, End(s, reply)
      PROVE  Emptied(t) \/ SameWork(t)
  BY <1>0, <1>2 DEF End, IdleSession, Emptied, SameWork
<1>3. ASSUME NEW s \in Session, RecordEvent(s) PROVE SameWork(t)
  BY <1>0, <1>3 DEF RecordEvent, SameWork, SessionRecord
<1>4. ASSUME NEW s \in Session, LockLevelAttempt(s) PROVE SameWork(t)
  BY <1>0, <1>4 DEF LockLevelAttempt, SameWork, SessionRecord
<1>5. ASSUME NEW s \in Session, RunAttempt(s) PROVE SameWork(t) \/ RunAttempt(t)
  BY <1>5, RunAttemptFields DEF SameWork
<1>6. session' = session => SameWork(t)
  BY DEF SameWork
<1>7. CASE UNCHANGED vars
  BY <1>6, <1>7 DEF vars
<1>8. ASSUME NEW s \in Session, NEW r \in Request, BeginSync(s, r) \/ BeginOnline(s, r)
      PROVE  Emptied(t) \/ SameWork(t)
  BY <1>1, <1>8 DEF BeginSync, BeginOnline
<1>9. ASSUME NEW s \in Session, NEW r \in Request, RefuseDevice(s, r) \/ RefuseLevel(s, r)
      PROVE  Emptied(t) \/ SameWork(t)
  BY <1>2, <1>9 DEF RefuseDevice, RefuseLevel
<1>10. ASSUME NEW s \in Session,
              AlreadyProcessed(s) \/ RejectEvent(s) \/ RejectionLost(s) \/ Commit(s) \/ Abort(s)
       PROVE  Emptied(t) \/ SameWork(t)
  BY <1>2, <1>10 DEF AlreadyProcessed, RejectEvent, RejectionLost, Commit, Abort
<1>11. ASSUME NEW l \in Level, NEW v \in Difficulties \union {NotAvailable}, EditCatalogue(l, v)
       PROVE  SameWork(t)
  BY <1>6, <1>11 DEF EditCatalogue
<1>12. ASSUME NEW u \in User, MarkUserDevicesForWipe(u) PROVE SameWork(t)
  BY <1>6, <1>12 DEF MarkUserDevicesForWipe
<1> QED BY <1>3, <1>4, <1>5, <1>7, <1>8, <1>9, <1>10, <1>11, <1>12 DEF Next

\* The index of the attempt that RunAttempt adds.
LEMMA RunIndex ==
  ASSUME TypeInv, NEW s \in Session, RunAttempt(s)
  PROVE  LET n == Len(session[s].own) + 1
             q == session'[s].own
         IN  /\ DOMAIN q = (DOMAIN session[s].own) \union {n}
             /\ n \notin DOMAIN session[s].own
             /\ \A i \in DOMAIN session[s].own : q[i] = session[s].own[i] /\ i < n
             /\ q[n].number = NextNumber(s) /\ q[n].xp = NextXP(s)
             /\ n \in Nat /\ NextXP(s) \in Nat
             /\ session'[s].req = session[s].req
             /\ KeyOf(session[s].req, n) = NextKey(s) /\ NextKey(s) \in Key
             /\ session[s].req.items[n] = NextItem(s) /\ NextItem(s).level \in Level
<1> DEFINE new == [number |-> NextNumber(s), xp |-> NextXP(s)]
           p == session[s].own
           Rec == [number : Nat \ {0}, xp : Nat]
<1>1. session'[s].own = Append(p, new) /\ session'[s].req = session[s].req
  BY RunAttemptFields
<1>2. NextNumber(s) \in Nat \ {0} /\ NextXP(s) \in Nat /\ NextKey(s) \in Key /\ NextItem(s).level \in Level
  BY NextAttempt DEF RunAttempt
<1>3. new.number = NextNumber(s) /\ new.xp = NextXP(s) /\ new \in Rec
  BY <1>2
<1>4. p \in Seq(Rec) /\ DOMAIN p = 1..Len(p) /\ Len(p) \in Nat
  BY OwnRecords
<1> HIDE DEF new, p, Rec
<1>5. /\ DOMAIN Append(p, new) = (DOMAIN p) \union {Len(p) + 1}
      /\ Len(p) + 1 \notin DOMAIN p
      /\ \A i \in DOMAIN p : Append(p, new)[i] = p[i] /\ i < Len(p) + 1
      /\ Append(p, new)[Len(p) + 1] = new
  BY <1>3, <1>4
<1> QED BY <1>1, <1>2, <1>3, <1>4, <1>5 DEF NextKey, NextItem, p

\* The stored attempts of a key stay as they are while a session that has attempts
\* of its own there runs, because it holds the lock of the key.
LEMMA LockedStay ==
  ASSUME TypeInv, KeysExclusive, OwnContinue, [Next]_vars,
         NEW t \in Session, NEW k \in Key, OwnIndices(t, k) # {}, ~Emptied(t)
  PROVE  attempts'[k] = attempts[k]
<1>1. CASE attempts' = attempts
  BY <1>1
<1>2. ASSUME NEW s \in Session, Commit(s) PROVE attempts'[k] = attempts[k]
  <2>1. s # t
    BY <1>2 DEF Commit, End, IdleSession, Emptied, TypeInv, TypeOK
  <2>2. k \in session[t].keys /\ k \notin session[s].keys
    BY <2>1, ContinueByCase DEF ContinueAt, KeysExclusive
  <2>3. OwnIndices(s, k) = {}
    BY <2>2, ContinueByCase DEF ContinueAt
  <2>4. OwnNumbers(s, k) = {}
    BY <2>3 DEF OwnNumbers
  <2>5. attempts'[k] = [n \in DOMAIN attempts[k] |-> attempts[k][n]]
    BY <1>2, <2>4 DEF Commit, WithNewAttempts
  <2> QED BY <2>5 DEF TypeInv, TypeOK
<1>3. ASSUME NEW u \in User, MarkUserDevicesForWipe(u) PROVE attempts' = attempts
  BY <1>3 DEF MarkUserDevicesForWipe
<1>4. ASSUME NEW s \in Session, RejectEvent(s) PROVE attempts' = attempts
  BY <1>4 DEF RejectEvent
<1> QED BY <1>1, <1>2, <1>3, <1>4, TableSteps

\* OwnInOrder of one attempt.
InOrder(s, i) ==
  LET k == KeyOf(session[s].req, i) IN
  session[s].own[i].number = StoredCount(k) + Cardinality({j \in OwnIndices(s, k) : j <= i})

LEMMA OwnInOrderStep ==
  ASSUME TypeInv, TypeInv', KeysExclusive, OwnContinue, AttemptsContiguous, OwnInOrder, [Next]_vars
  PROVE  OwnInOrder'
<1> SUFFICES ASSUME NEW t \in Session, NEW i \in DOMAIN session'[t].own PROVE InOrder(t, i)'
  BY DEF OwnInOrder, InOrder
<1> DEFINE k == KeyOf(session[t].req, i)
<1>0. \A j \in DOMAIN session[t].own : InOrder(t, j)
  BY DEF OwnInOrder, InOrder
<1>a. ~Emptied(t)
  BY DEF Emptied
<1>b. ASSUME i \in DOMAIN session[t].own PROVE i \in OwnIndices(t, k) /\ k \in Key
  <2>1. session[t].own # <<>>
    BY <1>b
  <2>2. session[t].req \in Request /\ Len(session[t].own) <= Len(session[t].req.items)
    BY <2>1 DEF TypeInv, SessionShape
  <2>3. i \in DOMAIN session[t].req.items
    BY <1>b, <2>2, OwnRecords, RequestShape
  <2> QED BY <1>b, <2>2, <2>3, RequestShape DEF OwnIndices
<1>c. ASSUME i \in DOMAIN session[t].own PROVE attempts'[k] = attempts[k]
  <2> HIDE DEF k
  <2> QED BY <1>a, <1>b, <1>c, LockedStay
<1>1. CASE SameWork(t)
  <2>1. session'[t].own = session[t].own /\ session'[t].req = session[t].req
    BY <1>1 DEF SameWork
  <2>2. InOrder(t, i) /\ attempts'[k] = attempts[k]
    BY <1>0, <1>c, <2>1
  <2>3. OwnIndices(t, k)' = OwnIndices(t, k)
    BY <2>1 DEF OwnIndices
  <2> QED BY <2>1, <2>2, <2>3 DEF InOrder, StoredCount
<1>2. CASE RunAttempt(t)
  <2> DEFINE n == Len(session[t].own) + 1
  <2>1. session'[t].req = session[t].req /\ attempts' = attempts /\ n \in Nat
    BY <1>2, RunIndex DEF RunAttempt, tables
  <2>2. /\ KeyOf(session[t].req, n) = k => OwnIndices(t, k)' = OwnIndices(t, k) \union {n}
        /\ KeyOf(session[t].req, n) # k => OwnIndices(t, k)' = OwnIndices(t, k)
    <3>1. OwnIndices(t, k) = {j \in DOMAIN session[t].own : KeyOf(session[t].req, j) = k}
      BY DEF OwnIndices
    <3>2. OwnIndices(t, k)' = {j \in DOMAIN session'[t].own : KeyOf(session'[t].req, j) = KeyOf(session'[t].req, i)}
      BY DEF OwnIndices
    <3>3. DOMAIN session'[t].own = (DOMAIN session[t].own) \union {n}
      BY <1>2, RunIndex
    <3> QED BY <2>1, <3>1, <3>2, <3>3
  <2>3. \A j \in OwnIndices(t, k) : j \in Nat /\ j < n
    BY <1>2, RunIndex, OwnRecords DEF OwnIndices
  <2>4. CASE i \in DOMAIN session[t].own
    <3>1. session'[t].own[i] = session[t].own[i] /\ i < n /\ i \in Nat
      BY <1>2, <2>4, RunIndex, OwnRecords
    <3>2. {j \in OwnIndices(t, k)' : j <= i} = {j \in OwnIndices(t, k) : j <= i}
      <4> HIDE DEF n, k
      <4> QED BY <2>1, <2>2, <2>3, <3>1
    <3>3. InOrder(t, i)
      BY <1>0, <2>4
    <3> QED BY <2>1, <3>1, <3>2, <3>3 DEF InOrder, StoredCount
  <2>5. CASE i = n
    <3>1. k = NextKey(t) /\ session'[t].own[i].number = NextNumber(t) /\ k \in Key
      BY <1>2, <2>5, RunIndex
    <3>2. {j \in OwnIndices(t, k)' : j <= i} = OwnIndices(t, k) \union {n} /\ n \notin OwnIndices(t, k)
      <4>1. KeyOf(session[t].req, n) = k
        BY <2>5
      <4> HIDE DEF n, k
      <4> QED BY <2>1, <2>2, <2>3, <2>5, <4>1
    <3>3. Cardinality(OwnIndices(t, k) \union {n}) = Cardinality(OwnIndices(t, k)) + 1
      <4> HIDE DEF k, n
      <4> QED BY <3>2, OwnFinite, FS_AddElement
    <3>4. NextNumber(t) = StoredCount(k) + Cardinality(OwnIndices(t, k)) + 1
      BY <1>2, <3>1, NumberContinues DEF StoredCount
    <3>5. StoredCount(k) \in Nat /\ Cardinality(OwnIndices(t, k)) \in Nat
      BY <3>1, OwnFinite, FS_CardinalityType DEF StoredCount, TypeInv, TypeOK
    <3>6. Cardinality({j \in OwnIndices(t, k)' : j <= i}) = Cardinality(OwnIndices(t, k)) + 1
      BY <3>2, <3>3
    <3> DEFINE a == StoredCount(k)
               b == Cardinality(OwnIndices(t, k))
    <3>7. session'[t].own[i].number = a + (b + 1)
      <4>1. session'[t].own[i].number = a + b + 1 /\ a \in Nat /\ b \in Nat
        BY <3>1, <3>4, <3>5
      <4> HIDE DEF a, b
      <4> QED BY <4>1
    <3> QED BY <2>1, <3>6, <3>7 DEF InOrder, StoredCount
  <2> QED BY <1>2, <2>4, <2>5, RunIndex
<1> QED BY <1>1, <1>2, <1>a, WorkSteps

(***************************************************************************)
(* The points a session has earned so far.                                 *)
(***************************************************************************)

\* The points of a sequence of attempts.
PointsOf(q) == [i \in DOMAIN q |-> q[i].xp]

LEMMA OwnXPIsSum == \A s, I : OwnXP(s, I) = SumFunctionOnSet(PointsOf(session[s].own), I)
BY DEF OwnXP, PointsOf

LEMMA OwnXPNat ==
  ASSUME TypeInv, NEW s \in Session, NEW I, I \subseteq DOMAIN session[s].own
  PROVE  /\ IsFiniteSet(I) /\ OwnXP(s, I) \in Nat /\ Cardinality(I) \in Nat
         /\ \A i \in I : PointsOf(session[s].own)[i] = session[s].own[i].xp
         /\ \A i \in I : PointsOf(session[s].own)[i] \in Nat
<1>1. IsFiniteSet(I) /\ Cardinality(I) \in Nat
  BY OwnRecords, FS_Subset, FS_CardinalityType
<1>2. \A i \in I : /\ PointsOf(session[s].own)[i] = session[s].own[i].xp
                    /\ PointsOf(session[s].own)[i] \in Nat
  BY OwnRecords DEF PointsOf
<1> QED BY <1>1, <1>2, SumNat, OwnXPIsSum

\* GainIsOwn of one session and level.
GainAt(s, l) ==
  /\ session[s].gain[l].xp = OwnXP(s, OwnAt(s, l))
  /\ session[s].gain[l].count = Cardinality(OwnAt(s, l))

LEMMA EmptyGain ==
  ASSUME NEW s \in Session, NEW l \in Level, session[s].own = <<>>, session[s].gain = NoGain
  PROVE  GainAt(s, l)
<1>1. OwnAt(s, l) = {}
  BY DEF OwnAt
<1>2. NoGain[l].xp = 0 /\ NoGain[l].count = 0
  BY DEF NoGain, NoProgress
<1> QED BY <1>1, <1>2, SumEmpty, OwnXPIsSum, FS_EmptySet DEF GainAt

LEMMA GainIsOwnStep ==
  ASSUME TypeInv, TypeInv', GainIsOwn, [Next]_vars
  PROVE  GainIsOwn'
<1> SUFFICES ASSUME NEW t \in Session, NEW l \in Level PROVE GainAt(t, l)'
  BY DEF GainIsOwn, GainAt
<1>0. GainAt(t, l)
  BY DEF GainIsOwn, GainAt
<1>1. CASE Emptied(t)
  <2>1. OwnAt(t, l)' = {}
    BY <1>1 DEF Emptied, OwnAt
  <2>2. NoGain[l].xp = 0 /\ NoGain[l].count = 0
    BY DEF NoGain, NoProgress
  <2>3. OwnXP(t, {})' = 0
    BY SumEmpty DEF OwnXP
  <2>4. OwnXP(t, OwnAt(t, l))' = 0
    BY <2>1, <2>3 DEF OwnXP
  <2> QED BY <1>1, <2>1, <2>2, <2>4, FS_EmptySet DEF GainAt, Emptied
<1>2. CASE SameWork(t)
  <2>1. OwnAt(t, l)' = OwnAt(t, l)
    BY <1>2 DEF SameWork, OwnAt
  <2> QED BY <1>0, <1>2, <2>1 DEF SameWork, GainAt, OwnXP
<1>3. CASE RunAttempt(t)
  <2> DEFINE n == Len(session[t].own) + 1
             I == OwnAt(t, l)
             p == PointsOf(session[t].own)
             q == PointsOf(session'[t].own)
             g == session[t].gain[l]
             new == [xp |-> NextXP(t), count |-> 1, done |-> NextItem(t).completed]
  <2>1. I \subseteq DOMAIN session[t].own /\ n \notin I
    BY <1>3, RunIndex DEF OwnAt
  <2>2. IsFiniteSet(I) /\ \A i \in I : p[i] \in Nat /\ q[i] = p[i]
    <3>1. IsFiniteSet(I) /\ \A i \in I : p[i] = session[t].own[i].xp /\ p[i] \in Nat
      BY <2>1, OwnXPNat
    <3>2. \A i \in I : q[i] = session[t].own[i].xp
      BY <1>3, <2>1, RunIndex DEF PointsOf
    <3> QED BY <3>1, <3>2
  <2>3. session'[t].gain = [session[t].gain EXCEPT ![NextItem(t).level] = Plus(@, new)]
    BY <1>3 DEF RunAttempt, NextGain, TypeInv, TypeOK, SessionRecord
  <2>4. session[t].gain \in [Level -> ProgressRow]
    BY SessionFields DEF TypeInv, TypeOK
  <2>5. OwnAt(t, l)' = IF l = NextItem(t).level THEN I \union {n} ELSE I
    <3>1. OwnAt(t, l)' = {i \in DOMAIN session'[t].own : session'[t].req.items[i].level = l}
      BY DEF OwnAt
    <3>2. I = {i \in DOMAIN session[t].own : session[t].req.items[i].level = l}
      BY DEF OwnAt
    <3>3. /\ DOMAIN session'[t].own = (DOMAIN session[t].own) \union {n}
          /\ session'[t].req = session[t].req /\ session[t].req.items[n].level = NextItem(t).level
      BY <1>3, RunIndex
    <3> HIDE DEF I, n
    <3> QED BY <3>1, <3>2, <3>3
  <2>6. OwnXP(t, OwnAt(t, l))' = SumFunctionOnSet(q, OwnAt(t, l)')
    BY DEF OwnXP, PointsOf
  <2>7. OwnXP(t, I) = SumFunctionOnSet(p, I) /\ OwnXP(t, I) \in Nat
    BY <2>1, OwnXPIsSum, OwnXPNat
  <2>8. SumFunctionOnSet(q, I) = OwnXP(t, I)
    <3>1. SumFunctionOnSet(p, I) = SumFunctionOnSet(q, I)
      <4> HIDE DEF p, q, I
      <4> QED BY <2>2, SumCongruence
    <3> QED BY <2>7, <3>1
  <2>9. CASE l = NextItem(t).level
    <3>1. q[n] = NextXP(t) /\ q[n] \in Nat
      BY <1>3, RunIndex DEF PointsOf
    <3>2. SumFunctionOnSet(q, I \union {n}) = q[n] + SumFunctionOnSet(q, I)
      <4> HIDE DEF p, q, I, n
      <4>1. IsFiniteSet(I \union {n}) /\ (I \union {n}) \ {n} = I
        BY <2>1, <2>2, FS_AddElement
      <4>2. \A i \in I \union {n} : q[i] \in Int
        BY <2>2, <3>1
      <4> QED BY <4>1, <4>2, SumTake
    <3>3. Cardinality(I \union {n}) = Cardinality(I) + 1 /\ Cardinality(I) \in Nat
      BY <2>1, <2>2, FS_AddElement, FS_CardinalityType
    <3>4. session'[t].gain[l].xp = g.xp + NextXP(t) /\ session'[t].gain[l].count = g.count + 1
      BY <2>3, <2>4, <2>9 DEF Plus
    <3>5. g.xp = OwnXP(t, I) /\ g.count = Cardinality(I)
      BY <1>0 DEF GainAt
    <3>6. session'[t].gain[l].xp = SumFunctionOnSet(q, I \union {n})
      <4>1. g.xp + NextXP(t) = NextXP(t) + OwnXP(t, I)
        <5>1. NextXP(t) \in Nat /\ OwnXP(t, I) \in Nat
          BY <2>7, <3>1
        <5> HIDE DEF I, g
        <5> QED BY <3>5, <5>1
      <4> QED BY <3>1, <3>2, <3>4, <2>8, <4>1
    <3> QED BY <2>5, <2>6, <2>9, <3>3, <3>4, <3>5, <3>6 DEF GainAt
  <2>10. CASE l # NextItem(t).level
    <3>1. session'[t].gain[l] = g
      BY <2>3, <2>4, <2>10
    <3> QED BY <1>0, <2>5, <2>6, <2>8, <2>10, <3>1 DEF GainAt
  <2> QED BY <2>9, <2>10
<1> QED BY <1>1, <1>2, <1>3, WorkSteps

(***************************************************************************)
(* What a commit adds to the attempts of a key.                            *)
(***************************************************************************)

\* The rank of an element among natural numbers.
LEMMA RankGrows ==
  ASSUME NEW I, I \subseteq Nat, IsFiniteSet(I), NEW i \in I, NEW j \in I, i < j
  PROVE  Cardinality({x \in I : x <= i}) < Cardinality({x \in I : x <= j})
<1> DEFINE A == {x \in I : x <= i}
           B == {x \in I : x <= j}
<1>1. A \subseteq B /\ j \in B /\ j \notin A
  <2>1. i \in Nat /\ j \in Nat /\ \A x \in I : x \in Nat
    OBVIOUS
  <2>2. (\A x \in I : x <= i => x <= j) /\ j <= j /\ ~(j <= i)
    BY <2>1
  <2> QED BY <2>2
<1>2. IsFiniteSet(A) /\ IsFiniteSet(B)
  BY FS_Subset
<1> HIDE DEF A, B
<1>3. Cardinality(A) <= Cardinality(B) /\ Cardinality(A) # Cardinality(B)
  BY <1>1, <1>2, FS_Subset
<1>4. Cardinality(A) \in Nat /\ Cardinality(B) \in Nat
  BY <1>2, FS_CardinalityType
<1>5. Cardinality(A) < Cardinality(B)
  BY <1>3, <1>4
<1> QED BY <1>5 DEF A, B

\* No two attempts of a session at a key have the same number.
LEMMA NumbersDiffer ==
  ASSUME TypeInv, OwnInOrder, NEW s \in Session, NEW k \in Key,
         NEW i \in OwnIndices(s, k), NEW j \in OwnIndices(s, k),
         session[s].own[i].number = session[s].own[j].number
  PROVE  i = j
<1> DEFINE I == OwnIndices(s, k)
           rank(a) == Cardinality({x \in I : x <= a})
<1>1. I \subseteq Nat /\ IsFiniteSet(I)
  BY OwnFinite
<1>2. \A a \in I : session[s].own[a].number = StoredCount(k) + rank(a)
  BY DEF OwnInOrder, OwnIndices
<1>3. StoredCount(k) \in Nat
  BY FS_CardinalityType DEF StoredCount, TypeInv, TypeOK
<1>4. \A a \in I : rank(a) \in Nat
  <2> SUFFICES ASSUME NEW a \in I PROVE rank(a) \in Nat
    OBVIOUS
  <2>1. IsFiniteSet({x \in I : x <= a})
    BY <1>1, FS_Subset
  <2> QED BY <2>1, FS_CardinalityType
<1>5. \A a, b \in I : a < b => rank(a) < rank(b)
  <2> HIDE DEF I
  <2> QED BY <1>1, RankGrows
<1>6. i \in I /\ j \in I
  OBVIOUS
<1> HIDE DEF I, rank
<1>7. rank(i) = rank(j)
  BY <1>2, <1>3, <1>4, <1>6
<1> QED BY <1>1, <1>4, <1>5, <1>6, <1>7

\* The committed row of the attempt i.
LEMMA RowOfNumber ==
  ASSUME TypeInv, OwnInOrder, NEW s \in Session, NEW k \in Key, NEW i \in OwnIndices(s, k)
  PROVE  LET row == NewRow(s, k, session[s].own[i].number)
         IN  /\ row.xp = session[s].own[i].xp
             /\ row.completed = session[s].req.items[i].completed
             /\ row.difficulty = session[s].seen[i]
<1> DEFINE n == session[s].own[i].number
           j == CHOOSE a \in OwnIndices(s, k) : session[s].own[a].number = n
<1>1. j \in OwnIndices(s, k) /\ session[s].own[j].number = n
  OBVIOUS
<1>2. j = i
  <2> HIDE DEF j
  <2> QED BY <1>1, NumbersDiffer
<1>3. NewRow(s, k, n) = [xp |-> session[s].own[j].xp, completed |-> session[s].req.items[j].completed,
                         difficulty |-> session[s].seen[j], at |-> Len(log) + 1]
  BY DEF NewRow
<1> HIDE DEF j
<1> QED BY <1>2, <1>3

LEMMA StoredAfterCommit ==
  ASSUME TypeInv, OwnContinue, OwnInOrder, AttemptsContiguous, NEW s \in Session, Commit(s), NEW k \in Key
  PROVE  /\ StoredXP(k) \in Nat /\ StoredCount(k) \in Nat
         /\ StoredXP(k)' = StoredXP(k) + OwnXP(s, OwnIndices(s, k))
         /\ StoredCount(k)' = StoredCount(k) + Cardinality(OwnIndices(s, k))
<1> DEFINE D == DOMAIN attempts[k]
           N == OwnNumbers(s, k)
           I == OwnIndices(s, k)
           own == session[s].own
           old == [n \in D |-> attempts[k][n].xp]
           new == [n \in DOMAIN attempts'[k] |-> attempts'[k][n].xp]
           number == [i \in I |-> own[i].number]
<1>1. IsFiniteSet(D) /\ \A n \in D : attempts[k][n] \in AttemptRow
  BY DEF TypeInv, TypeOK
<1>2. /\ DOMAIN attempts'[k] = D \union N
      /\ \A n \in D : attempts'[k][n] = attempts[k][n]
      /\ \A n \in N \ D : attempts'[k][n] = NewRow(s, k, n)
  BY CommitTables
<1>3. D \intersect N = {}
  <2>1. CASE I = {}
    BY <2>1 DEF OwnNumbers
  <2>2. CASE I # {}
    <3>1. N = (StoredCount(k) + 1)..(StoredCount(k) + Cardinality(I))
      BY <2>2, ContinueByCase DEF ContinueAt, StoredCount
    <3>2. D = 1..StoredCount(k)
      BY DEF AttemptsContiguous, StoredCount
    <3>3. StoredCount(k) \in Nat
      BY <1>1, FS_CardinalityType DEF StoredCount
    <3> HIDE DEF D, N, I
    <3> QED BY <3>1, <3>2, <3>3
  <2> QED BY <2>1, <2>2
<1>4. IsFiniteSet(I) /\ I \subseteq DOMAIN own
  BY OwnFinite DEF OwnIndices
<1>5. \A n \in D : old[n] \in Nat /\ new[n] = old[n]
  BY <1>1, <1>2 DEF AttemptRow
<1>6. \A i \in I : /\ number[i] \in N
                    /\ PointsOf(own)[i] \in Nat
                    /\ new[number[i]] = PointsOf(own)[i]
  <2> SUFFICES ASSUME NEW i \in I
               PROVE  /\ number[i] \in N
                      /\ PointsOf(own)[i] \in Nat
                      /\ new[number[i]] = PointsOf(own)[i]
    OBVIOUS
  <2>1. number[i] \in N /\ number[i] = own[i].number
    BY DEF OwnNumbers
  <2>2. PointsOf(own)[i] = own[i].xp /\ PointsOf(own)[i] \in Nat
    BY <1>4, OwnXPNat
  <2>3. NewRow(s, k, number[i]).xp = own[i].xp
    BY <2>1, RowOfNumber
  <2>4. attempts'[k][number[i]] = NewRow(s, k, number[i])
    BY <1>2, <1>3, <2>1
  <2> QED BY <1>2, <2>1, <2>2, <2>3, <2>4
<1>7. \A i, j \in I : number[i] = number[j] => i = j
  BY NumbersDiffer
<1>8. (\A i \in I : number[i] \in N) /\ \A n \in N : \E i \in I : n = number[i]
  BY DEF OwnNumbers
<1>9. StoredXP(k) = SumFunctionOnSet(old, D) /\ StoredXP(k)' = SumFunctionOnSet(new, D \union N)
  BY <1>2 DEF StoredXP, SumFunction
<1>10. OwnXP(s, I) = SumFunctionOnSet(PointsOf(own), I)
  BY OwnXPIsSum
<1>11. StoredCount(k) = Cardinality(D) /\ StoredCount(k)' = Cardinality(D \union N)
  BY <1>2 DEF StoredCount
<1>12. Cardinality(N) = Cardinality(I) /\ IsFiniteSet(N)
  <2>1. number \in Surjection(I, N)
    BY <1>8 DEF Surjection
  <2>2. number \in Injection(I, N)
    <3>1. number \in [I -> N] /\ DOMAIN number = I
      BY <1>8
    <3> HIDE DEF number, I, N
    <3> QED BY <1>7, <3>1 DEF Injection, IsInjective
  <2> HIDE DEF number, I, N
  <2> QED BY <1>4, <2>1, <2>2, FS_Surjection
<1> HIDE DEF D, N, I, own, old, new, number
<1>13. SumFunctionOnSet(old, D) \in Nat
  BY <1>1, <1>5, SumNat
<1>14. SumFunctionOnSet(new, D) = SumFunctionOnSet(old, D)
  BY <1>1, <1>5, SumCongruence
<1>15. SumFunctionOnSet(new, N) = SumFunctionOnSet(PointsOf(own), I)
  BY <1>4, <1>6, <1>7, <1>8, SumImage
<1>16. \A n \in N : new[n] \in Nat
  BY <1>6, <1>8
<1>17. SumFunctionOnSet(new, D \union N) = SumFunctionOnSet(new, D) + SumFunctionOnSet(new, N)
  BY <1>1, <1>3, <1>5, <1>12, <1>16, SumUnion
<1>18. Cardinality(D \union N) = Cardinality(D) + Cardinality(I) /\ Cardinality(D) \in Nat
  <2>1. Cardinality(D \union N) = Cardinality(D) + Cardinality(N) - Cardinality(D \intersect N)
    BY <1>1, <1>12, FS_Union
  <2>2. Cardinality(D \intersect N) = 0
    BY <1>3, FS_EmptySet
  <2>3. Cardinality(D) \in Nat /\ Cardinality(N) \in Nat
    BY <1>1, <1>12, FS_CardinalityType
  <2> QED BY <1>12, <2>1, <2>2, <2>3
<1> QED BY <1>9, <1>10, <1>11, <1>13, <1>14, <1>15, <1>17, <1>18 DEF I

\* A session leaves the keys of other users alone.
LEMMA OthersKeys ==
  ASSUME NEW s \in Session, NEW u, u # session[s].req.user, NEW l, NEW k \in KeysOf(u, l)
  PROVE  OwnIndices(s, k) = {}
BY DEF OwnIndices, KeysOf, KeyOf

(***************************************************************************)
(* What a commit adds to the ledger.                                       *)
(***************************************************************************)

LEMMA XPUnion ==
  ASSUME NEW A, NEW B, IsFiniteSet(A), IsFiniteSet(B), A \intersect B = {},
         \A x \in A \union B : x.xp \in Nat
  PROVE  XPOf(A \union B) = XPOf(A) + XPOf(B) /\ XPOf(A) \in Nat /\ XPOf(B) \in Nat
<1> DEFINE f == [x \in A \union B |-> x.xp]
           fA == [x \in A |-> x.xp]
           fB == [x \in B |-> x.xp]
<1>1. /\ XPOf(A \union B) = SumFunctionOnSet(f, A \union B)
      /\ XPOf(A) = SumFunctionOnSet(fA, A)
      /\ XPOf(B) = SumFunctionOnSet(fB, B)
  BY DEF XPOf, SumFunction
<1>2. /\ \A x \in A : fA[x] = f[x] /\ fA[x] \in Nat
      /\ \A x \in B : fB[x] = f[x] /\ fB[x] \in Nat
      /\ \A x \in A \union B : f[x] \in Nat
  OBVIOUS
<1> HIDE DEF f, fA, fB
<1>3. SumFunctionOnSet(fA, A) = SumFunctionOnSet(f, A)
  BY <1>2, SumCongruence
<1>4. SumFunctionOnSet(fB, B) = SumFunctionOnSet(f, B)
  BY <1>2, SumCongruence
<1>5. SumFunctionOnSet(f, A \union B) = SumFunctionOnSet(f, A) + SumFunctionOnSet(f, B)
  BY <1>2, SumUnion
<1>6. SumFunctionOnSet(fA, A) \in Nat
  BY <1>2, SumNat
<1>7. SumFunctionOnSet(fB, B) \in Nat
  BY <1>2, SumNat
<1> QED BY <1>1, <1>3, <1>4, <1>5, <1>6, <1>7

LEMMA XPOfRows ==
  ASSUME TypeInv, NEW s \in Session, NEW I, I \subseteq DOMAIN session[s].own
  PROVE  /\ XPOf(RowsOf(s, I)) = OwnXP(s, I)
         /\ \A x \in RowsOf(s, I) : x.xp \in Nat
<1> DEFINE p == PointsOf(session[s].own)
           row == [i \in I |-> RowOf(s, i)]
           g == [x \in RowsOf(s, I) |-> x.xp]
<1>1. IsFiniteSet(I) /\ \A i \in I : p[i] = session[s].own[i].xp /\ p[i] \in Nat
  BY OwnXPNat
<1>2. \A i \in I : p[i] \in Int /\ g[row[i]] = p[i]
  BY <1>1 DEF RowsOf, RowOf
<1>3. \A i, j \in I : row[i] = row[j] => i = j
  BY DEF RowOf
<1>4. (\A i \in I : row[i] \in RowsOf(s, I)) /\ \A x \in RowsOf(s, I) : \E i \in I : x = row[i]
  BY DEF RowsOf
<1>5. XPOf(RowsOf(s, I)) = SumFunctionOnSet(g, RowsOf(s, I))
  BY DEF XPOf, SumFunction
<1>6. \A x \in RowsOf(s, I) : x.xp \in Nat
  BY <1>1 DEF RowsOf, RowOf
<1> HIDE DEF p, row, g
<1>7. SumFunctionOnSet(g, RowsOf(s, I)) = SumFunctionOnSet(p, I)
  BY <1>1, <1>2, <1>3, <1>4, SumImage
<1> QED BY <1>5, <1>6, <1>7, OwnXPIsSum DEF p

\* New rows beside any rows of the ledger.
LEMMA LedgerAfterCommit ==
  ASSUME TypeInv, LedgerLogged, NEW s \in Session, NEW I, I \subseteq DOMAIN session[s].own,
         NEW A, A \subseteq ledger
  PROVE  /\ XPOf(A) \in Nat /\ Cardinality(A) \in Nat
         /\ XPOf(A \union RowsOf(s, I)) = XPOf(A) + OwnXP(s, I)
         /\ Cardinality(A \union RowsOf(s, I)) = Cardinality(A) + Cardinality(I)
<1> DEFINE B == RowsOf(s, I)
<1>1. IsFiniteSet(A) /\ Cardinality(A) \in Nat
  BY FS_Subset, FS_CardinalityType DEF LedgerLogged
<1>2. IsFiniteSet(I) /\ IsFiniteSet(B) /\ Cardinality(B) = Cardinality(I)
  BY RowsFinite
<1>3. A \intersect B = {}
  <2>1. \A x \in B : x.at = Len(log) + 1
    BY DEF RowsOf, RowOf
  <2>2. \A x \in A : x.at \in DOMAIN log
    BY DEF LedgerLogged
  <2>3. Len(log) + 1 \notin DOMAIN log
    BY DEF TypeInv, TypeOK
  <2> QED BY <2>1, <2>2, <2>3
<1>4. \A x \in A : x.xp \in Nat
  BY DEF TypeInv, TypeOK, LedgerRow
<1>5. XPOf(B) = OwnXP(s, I) /\ \A x \in B : x.xp \in Nat
  BY XPOfRows
<1> HIDE DEF B
<1>6. XPOf(A \union B) = XPOf(A) + XPOf(B) /\ XPOf(A) \in Nat
  BY <1>1, <1>2, <1>3, <1>4, <1>5, XPUnion
<1>7. Cardinality(A \union B) = Cardinality(A) + Cardinality(B)
  <2>1. Cardinality(A \union B) = Cardinality(A) + Cardinality(B) - Cardinality(A \intersect B)
    BY <1>1, <1>2, FS_Union
  <2>2. Cardinality(A \intersect B) = 0 /\ Cardinality(B) \in Nat
    BY <1>2, <1>3, FS_EmptySet, FS_CardinalityType
  <2> QED BY <1>1, <2>1, <2>2
<1> QED BY <1>1, <1>2, <1>5, <1>6, <1>7 DEF B

(***************************************************************************)
(* The totals.                                                             *)
(***************************************************************************)

LEMMA KeysFinite ==
  ASSUME NEW u \in User, NEW l \in Level
  PROVE  IsFiniteSet(KeysOf(u, l)) /\ KeysOf(u, l) \subseteq Key
<1> DEFINE f == [d \in Date |-> <<u, l, d>>]
<1>1. f \in Surjection(Date, KeysOf(u, l))
  BY DEF KeysOf, Surjection
<1> QED BY <1>1, FS_Surjection, ConstantsAssumption DEF KeysOf, Key

\* The attempts of a session at a level, grouped by day.
LEMMA OwnByKey ==
  ASSUME TypeInv, NEW s \in Session, Len(session[s].own) = Len(session[s].req.items),
         session[s].req \in Request, NEW l \in Level,
         NEW f, NEW g, \A i \in OwnAt(s, l) : f[i] \in Nat,
         \A k \in KeysOf(session[s].req.user, l) : g[k] = SumFunctionOnSet(f, OwnIndices(s, k))
  PROVE  SumFunctionOnSet(g, KeysOf(session[s].req.user, l)) = SumFunctionOnSet(f, OwnAt(s, l))
<1> DEFINE r == session[s].req
           K == KeysOf(r.user, l)
           S == OwnAt(s, l)
           h == [i \in S |-> KeyOf(r, i)]
           G == [k \in K |-> OwnIndices(s, k)]
<1>1. S \subseteq DOMAIN session[s].own /\ IsFiniteSet(S)
  BY OwnXPNat DEF OwnAt
<1>2. IsFiniteSet(K)
  BY KeysFinite, RequestShape
<1>3. \A i \in S : h[i] \in K
  <2> SUFFICES ASSUME NEW i \in S PROVE h[i] \in K
    OBVIOUS
  <2>1. i \in DOMAIN r.items
    BY <1>1, OwnRecords, RequestShape
  <2>2. r.items[i].date \in Date /\ r.items[i].level = l
    BY <2>1, RequestShape DEF OwnAt
  <2> QED BY <2>2 DEF KeysOf, KeyOf
<1>4. GroupedBy(G, h, S, K)
  <2>1. \A k \in K : \A i : i \in G[k] <=> i \in S /\ h[i] = k
    BY DEF OwnIndices, OwnAt, KeysOf, KeyOf
  <2> HIDE DEF h, S, K, G, r
  <2> QED BY <1>3, <2>1 DEF GroupedBy
<1>5. \A k \in K : g[k] = SumFunctionOnSet(f, G[k])
  OBVIOUS
<1>6. \A i \in S : f[i] \in Int
  OBVIOUS
<1> HIDE DEF h, S, K, G, r
<1>7. SumFunctionOnSet(g, K) = SumFunctionOnSet(f, S)
  BY <1>1, <1>2, <1>4, <1>5, <1>6, SumGroups
<1> QED BY <1>7 DEF S, K, r

\* TotalsAgree of one user and level.
AgreeAt(u, l) ==
  /\ progress[<<u, l>>].xp = SumFunction([k \in KeysOf(u, l) |-> StoredXP(k)])
  /\ progress[<<u, l>>].xp = XPOf(LedgerOf(u, l))
  /\ progress[<<u, l>>].count = SumFunction([k \in KeysOf(u, l) |-> StoredCount(k)])
  /\ progress[<<u, l>>].count = Cardinality(LedgerOf(u, l))

LEMMA AgreeByCase == TotalsAgree <=> \A u \in User, l \in Level : AgreeAt(u, l)
BY DEF TotalsAgree, AgreeAt

\* The attempts of a committing session that count for a user at a level.
Added(s, u, l) == IF u = session[s].req.user THEN OwnAt(s, l) ELSE {}

LEMMA CommitLevel ==
  ASSUME TypeInv, LedgerLogged, GainIsOwn, NEW s \in Session, Commit(s),
         NEW u \in User, NEW l \in Level
  PROVE  /\ Added(s, u, l) \subseteq DOMAIN session[s].own
         /\ progress'[<<u, l>>].xp = progress[<<u, l>>].xp + OwnXP(s, Added(s, u, l))
         /\ progress'[<<u, l>>].count = progress[<<u, l>>].count + Cardinality(Added(s, u, l))
         /\ LedgerOf(u, l)' = LedgerOf(u, l) \union RowsOf(s, Added(s, u, l))
<1> DEFINE I == Added(s, u, l)
           p == progress[<<u, l>>]
<1>1. I \subseteq DOMAIN session[s].own
  BY DEF Added, OwnAt
<1>2. p.xp \in Nat /\ p.count \in Nat
  <2>1. p \in ProgressRow
    BY DEF TypeInv, TypeOK
  <2> QED BY <2>1 DEF ProgressRow
<1>3. progress'[<<u, l>>] = IF u = session[s].req.user THEN Plus(p, session[s].gain[l]) ELSE p
  BY DEF Commit, WithNewProgress
<1>4. p.xp + 0 = p.xp /\ p.count + 0 = p.count
  BY <1>2
<1>5. OwnXP(s, {}) = 0 /\ Cardinality({}) = 0
  BY SumEmpty, OwnXPIsSum, FS_EmptySet
<1>6. GainAt(s, l)
  BY DEF GainIsOwn, GainAt
<1>7. /\ progress'[<<u, l>>].xp = p.xp + OwnXP(s, I)
      /\ progress'[<<u, l>>].count = p.count + Cardinality(I)
  BY <1>3, <1>4, <1>5, <1>6 DEF GainAt, Plus, Added
<1>8. LedgerOf(u, l)' = LedgerOf(u, l) \union RowsOf(s, I)
  <2>1. ledger' = ledger \union RowsOf(s, DOMAIN session[s].own)
    BY CommitMoves
  <2>2. \A x \in RowsOf(s, DOMAIN session[s].own) :
          x.user = u /\ x.level = l <=> x \in RowsOf(s, I)
    <3> SUFFICES ASSUME NEW x \in RowsOf(s, DOMAIN session[s].own)
                 PROVE  x.user = u /\ x.level = l <=> x \in RowsOf(s, I)
      OBVIOUS
    <3>1. PICK i \in DOMAIN session[s].own : x = RowOf(s, i)
      BY DEF RowsOf
    <3>2. x.user = session[s].req.user /\ x.level = session[s].req.items[i].level /\ x.item = i
      BY <3>1 DEF RowOf
    <3>3. x \in RowsOf(s, I) <=> i \in I
      <4>1. \A j : RowOf(s, j).item = j
        BY DEF RowOf
      <4> HIDE DEF I
      <4> QED BY <3>1, <4>1 DEF RowsOf
    <3> QED BY <3>2, <3>3 DEF Added, OwnAt
  <2>3. RowsOf(s, I) \subseteq RowsOf(s, DOMAIN session[s].own)
    BY <1>1 DEF RowsOf
  <2> HIDE DEF I
  <2> QED BY <2>1, <2>2, <2>3 DEF LedgerOf
<1> QED BY <1>1, <1>7, <1>8

\* The rows of a ledger at a level, counted and summed, move as player_progress does.
LEMMA LedgerKeepsUp ==
  ASSUME TypeInv, LedgerLogged, GainIsOwn, NEW s \in Session, Commit(s),
         NEW u \in User, NEW l \in Level, AgreeAt(u, l)
  PROVE  /\ progress'[<<u, l>>].xp = XPOf(LedgerOf(u, l)')
         /\ progress'[<<u, l>>].count = Cardinality(LedgerOf(u, l)')
<1>1. LedgerOf(u, l) \subseteq ledger
  BY DEF LedgerOf
<1>2. /\ XPOf(LedgerOf(u, l) \union RowsOf(s, Added(s, u, l)))
           = XPOf(LedgerOf(u, l)) + OwnXP(s, Added(s, u, l))
      /\ Cardinality(LedgerOf(u, l) \union RowsOf(s, Added(s, u, l)))
           = Cardinality(LedgerOf(u, l)) + Cardinality(Added(s, u, l))
  <2>1. Added(s, u, l) \subseteq DOMAIN session[s].own
    BY DEF Added, OwnAt
  <2> QED BY <1>1, <2>1, LedgerAfterCommit
<1> QED BY <1>2, CommitLevel DEF AgreeAt

\* A sum over the keys of a level, when each key gains a part of the session's attempts.
LEMMA KeysKeepUp ==
  ASSUME TypeInv, NEW s \in Session, Len(session[s].own) = Len(session[s].req.items),
         session[s].req \in Request, NEW u \in User, NEW l \in Level,
         NEW f, \A i \in DOMAIN session[s].own : f[i] \in Nat,
         NEW old, NEW new,
         \A k \in KeysOf(u, l) :
           /\ old[k] \in Nat
           /\ new[k] = old[k] + SumFunctionOnSet(f, OwnIndices(s, k))
  PROVE  SumFunctionOnSet(new, KeysOf(u, l))
           = SumFunctionOnSet(old, KeysOf(u, l)) + SumFunctionOnSet(f, Added(s, u, l))
<1> DEFINE K == KeysOf(u, l)
           g == [k \in K |-> SumFunctionOnSet(f, OwnIndices(s, k))]
<1>1. IsFiniteSet(K)
  BY KeysFinite
<1>2. \A k \in K : g[k] \in Nat
  <2> SUFFICES ASSUME NEW k \in K PROVE g[k] \in Nat
    OBVIOUS
  <2>1. IsFiniteSet(OwnIndices(s, k)) /\ OwnIndices(s, k) \subseteq DOMAIN session[s].own
    BY OwnRecords, FS_Subset DEF OwnIndices
  <2> QED BY <2>1, SumNat
<1>3. SumFunctionOnSet(new, K) = SumFunctionOnSet(old, K) + SumFunctionOnSet(g, K)
  <2>1. \A k \in K : old[k] \in Int /\ g[k] \in Int /\ new[k] = old[k] + g[k]
    BY <1>2
  <2> HIDE DEF K, g
  <2> QED BY <1>1, <2>1, SumPlus
<1>4. CASE u = session[s].req.user
  <2>1. Added(s, u, l) = OwnAt(s, l)
    BY <1>4 DEF Added
  <2>2. \A i \in OwnAt(s, l) : f[i] \in Nat
    BY DEF OwnAt
  <2>3. \A k \in KeysOf(session[s].req.user, l) : g[k] = SumFunctionOnSet(f, OwnIndices(s, k))
    BY <1>4
  <2> HIDE DEF g
  <2>4. SumFunctionOnSet(g, KeysOf(session[s].req.user, l)) = SumFunctionOnSet(f, OwnAt(s, l))
    BY <2>2, <2>3, OwnByKey
  <2> QED BY <1>3, <1>4, <2>1, <2>4
<1>5. CASE u # session[s].req.user
  <2>1. Added(s, u, l) = {}
    BY <1>5 DEF Added
  <2>2. \A k \in K : SumFunctionOnSet(f, OwnIndices(s, k)) = 0
    BY <1>5, OthersKeys, SumEmpty
  <2>3. \A k \in K : new[k] = old[k] /\ new[k] \in Int /\ old[k] \in Nat
    BY <2>2
  <2>4. SumFunctionOnSet(new, K) = SumFunctionOnSet(old, K)
    <3> HIDE DEF K
    <3> QED BY <1>1, <2>3, SumCongruence
  <2>5. SumFunctionOnSet(old, K) \in Nat
    <3> HIDE DEF K
    <3> QED BY <1>1, <2>3, SumNat
  <2>6. SumFunctionOnSet(f, {}) = 0
    BY SumEmpty
  <2> QED BY <2>1, <2>4, <2>5, <2>6
<1> QED BY <1>4, <1>5

\* The stored attempts of a level move as player_progress does.
LEMMA AttemptsKeepUp ==
  ASSUME TypeInv, LedgerLogged, GainIsOwn, OwnContinue, OwnInOrder, AttemptsContiguous,
         NEW s \in Session, Commit(s), NEW u \in User, NEW l \in Level, AgreeAt(u, l)
  PROVE  /\ progress'[<<u, l>>].xp = SumFunction([k \in KeysOf(u, l) |-> StoredXP(k)'])
         /\ progress'[<<u, l>>].count = SumFunction([k \in KeysOf(u, l) |-> StoredCount(k)'])
<1> DEFINE K == KeysOf(u, l)
           I == Added(s, u, l)
           points == PointsOf(session[s].own)
           ones == [i \in DOMAIN session[s].own |-> 1]
           oldXP == [k \in K |-> StoredXP(k)]
           newXP == [k \in K |-> StoredXP(k)']
           oldCount == [k \in K |-> StoredCount(k)]
           newCount == [k \in K |-> StoredCount(k)']
<1>1. Len(session[s].own) = Len(session[s].req.items) /\ session[s].req \in Request
  BY CommitMoves
<1>2. K \subseteq Key
  BY KeysFinite
<1>3. \A k \in K : oldXP[k] \in Nat /\ newXP[k] = oldXP[k] + SumFunctionOnSet(points, OwnIndices(s, k))
  BY <1>2, StoredAfterCommit, OwnXPIsSum
<1>4. \A k \in K : oldCount[k] \in Nat /\ newCount[k] = oldCount[k] + SumFunctionOnSet(ones, OwnIndices(s, k))
  <2> SUFFICES ASSUME NEW k \in K
               PROVE  oldCount[k] \in Nat /\ newCount[k] = oldCount[k] + SumFunctionOnSet(ones, OwnIndices(s, k))
    OBVIOUS
  <2>1. IsFiniteSet(OwnIndices(s, k)) /\ OwnIndices(s, k) \subseteq DOMAIN session[s].own
    BY OwnRecords, FS_Subset DEF OwnIndices
  <2>2. SumFunctionOnSet(ones, OwnIndices(s, k)) = Cardinality(OwnIndices(s, k))
    <3>1. \A i \in OwnIndices(s, k) : ones[i] = 1
      BY <2>1
    <3> HIDE DEF ones
    <3> QED BY <2>1, <3>1, SumOfOnes
  <2> QED BY <1>2, <2>2, StoredAfterCommit
<1>5. I \subseteq DOMAIN session[s].own /\ IsFiniteSet(I)
  BY CommitLevel, OwnXPNat
<1>6. SumFunctionOnSet(points, I) = OwnXP(s, I)
  BY OwnXPIsSum
<1>7. SumFunctionOnSet(ones, I) = Cardinality(I)
  <2>1. \A i \in I : ones[i] = 1
    BY <1>5
  <2> HIDE DEF ones, I
  <2> QED BY <1>5, <2>1, SumOfOnes
<1>8. \A i \in DOMAIN session[s].own : points[i] \in Nat /\ ones[i] \in Nat
  BY OwnXPNat
<1>9. /\ progress[<<u, l>>].xp = SumFunctionOnSet(oldXP, K)
      /\ progress[<<u, l>>].count = SumFunctionOnSet(oldCount, K)
  BY DEF AgreeAt, SumFunction
<1>10. /\ SumFunction(newXP) = SumFunctionOnSet(newXP, K)
       /\ SumFunction(newCount) = SumFunctionOnSet(newCount, K)
  BY DEF SumFunction
<1> HIDE DEF points, ones, oldXP, newXP, oldCount, newCount
<1>11. SumFunctionOnSet(newXP, K) = SumFunctionOnSet(oldXP, K) + SumFunctionOnSet(points, I)
  BY <1>1, <1>3, <1>8, KeysKeepUp
<1>12. SumFunctionOnSet(newCount, K) = SumFunctionOnSet(oldCount, K) + SumFunctionOnSet(ones, I)
  BY <1>1, <1>4, <1>8, KeysKeepUp
<1>13. progress'[<<u, l>>].xp = SumFunction(newXP) /\ progress'[<<u, l>>].count = SumFunction(newCount)
  BY <1>6, <1>7, <1>9, <1>10, <1>11, <1>12, CommitLevel
<1> QED BY <1>13 DEF newXP, newCount

LEMMA TotalsAgreeStep ==
  ASSUME TypeInv, LedgerLogged, GainIsOwn, OwnContinue, OwnInOrder, AttemptsContiguous,
         TotalsAgree, [Next]_vars
  PROVE  TotalsAgree'
<1> SUFFICES ASSUME NEW u \in User, NEW l \in Level PROVE AgreeAt(u, l)'
  BY DEF TotalsAgree, AgreeAt
<1>0. AgreeAt(u, l)
  BY AgreeByCase
<1>1. CASE attempts' = attempts /\ ledger' = ledger /\ progress' = progress
  <2>1. (\A k : StoredXP(k)' = StoredXP(k)) /\ (\A k : StoredCount(k)' = StoredCount(k))
    BY <1>1 DEF StoredXP, StoredCount
  <2>2. LedgerOf(u, l)' = LedgerOf(u, l)
    BY <1>1 DEF LedgerOf
  <2> QED BY <1>0, <1>1, <2>1, <2>2 DEF AgreeAt
<1>2. ASSUME NEW s \in Session, Commit(s) PROVE AgreeAt(u, l)'
  BY <1>0, <1>2, AttemptsKeepUp, LedgerKeepsUp DEF AgreeAt
<1>3. ASSUME NEW s \in Session, RejectEvent(s) PROVE AgreeAt(u, l)'
  BY <1>1, <1>3 DEF RejectEvent
<1>4. ASSUME NEW v \in User, MarkUserDevicesForWipe(v) PROVE AgreeAt(u, l)'
  BY <1>1, <1>4 DEF MarkUserDevicesForWipe
<1> QED BY <1>1, <1>2, <1>3, <1>4, TableSteps

(***************************************************************************)
(* The badges: what the serializable check guarantees about stale sums.    *)
(***************************************************************************)

\* A session that adds to the ledger cannot commit if a row of its user was committed
\* after its snapshot: that commit and its own each read what the other wrote.
LEMMA NothingMissed ==
  ASSUME TypeInv, LedgerLogged, NEW s \in Session, Commit(s), session[s].own # <<>>,
         NEW x \in ledger, x.user = session[s].req.user
  PROVE  x.at <= session[s].snap
<1> DEFINE e == CommitEntry(s)
           row == <<"ledger", x.user>>
           i == x.at
<1>1. x.user \in User /\ session[s].snap \in Nat /\ session[s].snap <= Len(log) /\ session[s].req \in Request
      /\ Len(session[s].own) = Len(session[s].req.items)
  BY CommitMoves
<1>2. i \in 1..Len(log) /\ Len(log) \in Nat /\ row \in log[i].writes
  <2>1. i \in DOMAIN log /\ row \in log[i].writes
    BY DEF LedgerLogged
  <2>2. DOMAIN log = 1..Len(log) /\ Len(log) \in Nat
    BY DEF TypeInv, TypeOK
  <2> QED BY <2>1, <2>2
<1>3. log[i].at = i /\ log[i].snap < i /\ row \in log[i].reads
  BY <1>1, <1>2 DEF LedgerLogged
<1>4. log[i].snap \in Nat
  <2>1. log[i] \in LogEntry
    BY <1>2 DEF TypeInv, TypeOK
  <2> QED BY <2>1 DEF LogEntry
<1>5. session[s].req.items # <<>>
  BY <1>1, OwnRecords, RequestShape
<1>6. e.at = Len(log) + 1 /\ e.snap = session[s].snap
  BY DEF CommitEntry, Entry
<1>7. row \in e.reads /\ row \in e.writes
  BY <1>5 DEF CommitEntry, Entry
<1>8. ~Dangerous(e)
  BY DEF Commit
<1> HIDE DEF e, row
<1>9. ASSUME i > session[s].snap PROVE FALSE
  <2>1. Antidepends(e, log[i])
    <3>1. e.reads \intersect log[i].writes # {}
      BY <1>2, <1>7
    <3>2. e.at > log[i].snap /\ log[i].at > e.snap
      BY <1>2, <1>3, <1>4, <1>6, <1>9
    <3> QED BY <3>1, <3>2 DEF Antidepends
  <2>2. Antidepends(log[i], e)
    <3>1. log[i].reads \intersect e.writes # {}
      BY <1>3, <1>7
    <3>2. e.at > log[i].snap /\ log[i].at > e.snap
      BY <1>2, <1>3, <1>4, <1>6, <1>9
    <3> QED BY <3>1, <3>2 DEF Antidepends
  <2>3. i \in i..Len(log)
    BY <1>2
  <2> HIDE DEF i
  <2> QED BY <1>2, <1>8, <2>1, <2>2, <2>3 DEF Dangerous
<1> QED BY <1>1, <1>2, <1>9

LEMMA XPMonotone ==
  ASSUME TypeInv, LedgerLogged, NEW A, NEW B, A \subseteq B, B \subseteq ledger
  PROVE  XPOf(A) <= XPOf(B) /\ XPOf(A) \in Nat /\ XPOf(B) \in Nat
<1>1. IsFiniteSet(A) /\ IsFiniteSet(B \ A) /\ A \intersect (B \ A) = {}
  BY FS_Subset DEF LedgerLogged
<1>2. \A x \in A \union (B \ A) : x.xp \in Nat
  BY DEF TypeInv, TypeOK, LedgerRow
<1>3. XPOf(A \union (B \ A)) = XPOf(A) + XPOf(B \ A) /\ XPOf(A) \in Nat /\ XPOf(B \ A) \in Nat
  BY <1>1, <1>2, XPUnion
<1>4. A \union (B \ A) = B
  OBVIOUS
<1>5. XPOf(B) = XPOf(A) + XPOf(B \ A)
  BY <1>3, <1>4
<1> QED BY <1>3, <1>5

\* The ledger of each user after a commit.
LEMMA UserLedgerAfter ==
  ASSUME TypeInv, LedgerLogged, NEW s \in Session, Commit(s), NEW u \in User
  PROVE  UserLedger(u)' = IF u = session[s].req.user
                            THEN UserLedger(u) \union RowsOf(s, DOMAIN session[s].own)
                            ELSE UserLedger(u)
<1>1. ledger' = ledger \union RowsOf(s, DOMAIN session[s].own)
  BY CommitMoves
<1>2. \A x \in RowsOf(s, DOMAIN session[s].own) : x.user = session[s].req.user
  BY DEF RowsOf, RowOf
<1> QED BY <1>1, <1>2 DEF UserLedger

\* The sum a committing session decides on: the whole ledger, its own rows included, or
\* less when it adds nothing.
LEMMA TotalSeen ==
  ASSUME TypeInv, LedgerLogged, NEW s \in Session, Commit(s), NEW u, u = session[s].req.user
  PROVE  /\ XPOf(UserLedger(u)) \in Nat /\ XPOf(UserLedger(u)') \in Nat /\ TotalXP(s) \in Nat
         /\ XPOf(UserLedger(u)) <= XPOf(UserLedger(u)')
         /\ TotalXP(s) <= XPOf(UserLedger(u)')
         /\ TotalXP(s) = XPOf(UserLedger(u)') \/ XPOf(UserLedger(u)') = XPOf(UserLedger(u))
<1> DEFINE own == session[s].own
           seen == {x \in ledger : x.user = u /\ x.at <= session[s].snap}
           U == UserLedger(u)
           total == OwnXP(s, DOMAIN own)
<1>1. seen \subseteq U /\ U \subseteq ledger
  BY DEF UserLedger
<1>2. u \in User
  BY CommitMoves
<1>3. UserLedger(u)' = U \union RowsOf(s, DOMAIN own)
  BY <1>2, UserLedgerAfter
<1>4. total \in Nat
  BY OwnXPNat
<1>5. TotalXP(s) = XPOf(seen) + total
  BY DEF TotalXP
<1>6. own # <<>> => seen = U
  BY NothingMissed DEF UserLedger
<1>7. own = <<>> => total = 0
  BY SumEmpty, OwnXPIsSum
<1> HIDE DEF own, seen, U, total
<1>8. XPOf(seen) <= XPOf(U) /\ XPOf(seen) \in Nat /\ XPOf(U) \in Nat
  BY <1>1, XPMonotone
<1>9. XPOf(UserLedger(u)') = XPOf(U) + total
  <2>1. XPOf(U \union RowsOf(s, DOMAIN own)) = XPOf(U) + total
    BY <1>1, LedgerAfterCommit DEF own, total
  <2> QED BY <1>3, <2>1
<1>10. CASE own # <<>>
  <2>1. TotalXP(s) = XPOf(UserLedger(u)')
    BY <1>5, <1>6, <1>9, <1>10
  <2> QED BY <1>4, <1>8, <1>9, <2>1 DEF U
<1>11. CASE own = <<>>
  <2>1. XPOf(UserLedger(u)') = XPOf(U) /\ TotalXP(s) = XPOf(seen)
    BY <1>5, <1>7, <1>8, <1>9, <1>11
  <2> QED BY <1>8, <2>1 DEF U
<1> QED BY <1>10, <1>11

LEMMA BadgesCompleteStep ==
  ASSUME TypeInv, LedgerLogged, BadgesComplete, [Next]_vars
  PROVE  BadgesComplete'
<1> DEFINE Earned(xp) == {b \in Badge : Threshold[b] <= xp}
<1> SUFFICES ASSUME NEW u \in User PROVE badges'[u] = Earned(XPOf(UserLedger(u)'))
  BY DEF BadgesComplete
<1>0. badges[u] = Earned(XPOf(UserLedger(u)))
  BY DEF BadgesComplete
<1>1. CASE badges' = badges /\ ledger' = ledger
  BY <1>0, <1>1 DEF UserLedger
<1>2. ASSUME NEW s \in Session, Commit(s) PROVE badges'[u] = Earned(XPOf(UserLedger(u)'))
  <2>1. badges' = [badges EXCEPT ![session[s].req.user] = @ \union NewBadges(s)]
    BY <1>2 DEF Commit
  <2>2. badges \in [User -> SUBSET Badge]
    BY DEF TypeInv, TypeOK
  <2>3. CASE u # session[s].req.user
    <3>1. badges'[u] = badges[u]
      BY <2>1, <2>2, <2>3
    <3>2. UserLedger(u)' = UserLedger(u)
      BY <1>2, <2>3, UserLedgerAfter
    <3> QED BY <1>0, <3>1, <3>2
  <2>4. CASE u = session[s].req.user
    <3> DEFINE before == XPOf(UserLedger(u))
               after == XPOf(UserLedger(u)')
               seen == TotalXP(s)
    <3>1. badges'[u] = Earned(before) \union Earned(seen)
      BY <1>0, <2>1, <2>2, <2>4 DEF NewBadges
    <3>2. /\ before \in Nat /\ after \in Nat /\ seen \in Nat
          /\ before <= after /\ seen <= after
          /\ seen = after \/ after = before
      BY <1>2, <2>4, TotalSeen
    <3>3. \A b \in Badge : Threshold[b] \in Nat
      BY ConstantsAssumption
    <3> HIDE DEF before, after, seen
    <3>4. Earned(before) \union Earned(seen) = Earned(after)
      BY <3>2, <3>3
    <3> QED BY <3>1, <3>4 DEF after
  <2> QED BY <2>3, <2>4
<1>3. ASSUME NEW s \in Session, RejectEvent(s) PROVE badges' = badges /\ ledger' = ledger
  BY <1>3 DEF RejectEvent
<1>4. ASSUME NEW v \in User, MarkUserDevicesForWipe(v) PROVE badges' = badges /\ ledger' = ledger
  BY <1>4 DEF MarkUserDevicesForWipe
<1> QED BY <1>1, <1>2, <1>3, <1>4, TableSteps

(***************************************************************************)
(* The inductive invariant and what follows from it.                       *)
(***************************************************************************)

LEMMA IInvInit == Init => IInv
<1> SUFFICES ASSUME Init PROVE IInv
  OBVIOUS
<1>1. NumberingInv
  BY NumberingInvInit
<1>2. ledger = {} /\ log = <<>>
  BY DEF Init
<1>3. LedgerLogged
  BY <1>2, FS_EmptySet DEF LedgerLogged
<1>4. \A s \in Session : session[s].own = <<>> /\ session[s].gain = NoGain
  BY DEF Init, IdleSession
<1>5. OwnInOrder
  BY <1>4 DEF OwnInOrder
<1>6. GainIsOwn
  BY <1>4, EmptyGain DEF GainIsOwn, GainAt
<1>7. XPOf({}) = 0 /\ Cardinality({}) = 0
  <2>1. SumFunctionOnSet([x \in {} |-> x.xp], {}) = 0
    BY SumEmpty
  <2> QED BY <2>1, FS_EmptySet DEF XPOf, SumFunction
<1>8. ASSUME NEW u \in User, NEW l \in Level PROVE AgreeAt(u, l)
  <2> DEFINE K == KeysOf(u, l)
             xp == [k \in K |-> StoredXP(k)]
             count == [k \in K |-> StoredCount(k)]
  <2>1. \A k \in Key : DOMAIN attempts[k] = {}
    BY DEF Init
  <2>2. ASSUME NEW k \in K PROVE xp[k] = 0 /\ count[k] = 0
    <3>1. DOMAIN attempts[k] = {}
      BY <2>1, KeysFinite
    <3>2. SumFunctionOnSet([n \in {} |-> attempts[k][n].xp], {}) = 0
      BY SumEmpty
    <3> QED BY <3>1, <3>2, FS_EmptySet DEF StoredXP, StoredCount, SumFunction
  <2>3. IsFiniteSet(K)
    BY KeysFinite
  <2>4. SumFunction(xp) = SumFunctionOnSet(xp, K) /\ SumFunction(count) = SumFunctionOnSet(count, K)
    BY DEF SumFunction
  <2>5. SumFunctionOnSet(xp, K) = 0 /\ SumFunctionOnSet(count, K) = 0
    <3> HIDE DEF K, xp, count
    <3> QED BY <2>2, <2>3, SumZero
  <2>6. progress[<<u, l>>].xp = 0 /\ progress[<<u, l>>].count = 0
    BY DEF Init, NoProgress
  <2>7. LedgerOf(u, l) = {}
    BY <1>2 DEF LedgerOf
  <2> QED BY <1>7, <2>4, <2>5, <2>6, <2>7 DEF AgreeAt
<1>9. TotalsAgree
  BY <1>8, AgreeByCase
<1>10. ASSUME NEW u \in User
       PROVE  badges[u] = {b \in Badge : Threshold[b] <= XPOf(UserLedger(u))}
  <2>1. UserLedger(u) = {} /\ badges[u] = {}
    BY <1>2 DEF UserLedger, Init
  <2>2. \A b \in Badge : Threshold[b] \in Nat \ {0}
    BY ConstantsAssumption
  <2>3. \A b \in Badge : ~(Threshold[b] <= 0)
    BY <2>2
  <2> QED BY <1>7, <2>1, <2>3
<1>11. BadgesComplete
  BY <1>10 DEF BadgesComplete
<1> QED BY <1>1, <1>3, <1>5, <1>6, <1>9, <1>11 DEF IInv

LEMMA IInvStep == IInv /\ [Next]_vars => IInv'
<1> SUFFICES ASSUME IInv, [Next]_vars PROVE IInv'
  OBVIOUS
<1>1. TypeInv /\ KeysExclusive /\ OwnContinue /\ AttemptsContiguous
  BY DEF IInv, NumberingInv, TypeInv
<1>2. TypeInv'
  BY <1>1, TypeStep
<1>3. NumberingInv'
  BY NumberingInvStep DEF IInv
<1>4. LedgerLogged'
  BY <1>1, LedgerLoggedStep DEF IInv
<1>5. OwnInOrder' /\ GainIsOwn'
  BY <1>1, <1>2, OwnInOrderStep, GainIsOwnStep DEF IInv
<1>6. TotalsAgree'
  BY <1>1, TotalsAgreeStep DEF IInv
<1>7. BadgesComplete'
  BY <1>1, BadgesCompleteStep DEF IInv
<1> QED BY <1>3, <1>4, <1>5, <1>6, <1>7 DEF IInv

\* The invariant that carries the two results below: the work in progress of every
\* session against the tables, the ledger against the log of commits, and both
\* results themselves, since a stale total would corrupt the next one.
THEOREM Invariance == Spec => []IInv
BY IInvInit, IInvStep, PTL DEF Spec

\* player_progress, which concurrent requests update in place, always
\* equals what a recount of level_attempts and of experience_history would give.
THEOREM Totals == Spec => []TotalsAgree
<1>1. IInv => TotalsAgree
  BY DEF IInv
<1> QED BY <1>1, Invariance, PTL

\* Every user has exactly the badges that the points in the ledger deserve, although
\* each request decides on the sum that its snapshot shows: SERIALIZABLE aborts the
\* requests that would decide on a stale one.
THEOREM Badges == Spec => []BadgesComplete
<1>1. IInv => BadgesComplete
  BY DEF IInv
<1> QED BY <1>1, Invariance, PTL
=============================================================================
