--------------------------- MODULE ProgressProofs ---------------------------
(***************************************************************************)
(* Theorems about Progress, for any number of users, levels, sessions and  *)
(* requests.                                                               *)
(***************************************************************************)
EXTENDS Progress, FiniteSetTheorems, TLAPS

(***************************************************************************)
(* Points.                                                                 *)
(***************************************************************************)

\* RF15: xpForAttempt (offline batches) and CalculateXP (online) award the same
\* points for the same attempt, those of the schedule.
THEOREM SameSchedule ==
  ASSUME NEW d \in Nat, NEW n \in Nat \ {0}, NEW c \in BOOLEAN
  PROVE  /\ xpForAttempt(d, n, c) = ScheduledXP(d, n, c)
         /\ CalculateXP(d, n, c) = ScheduledXP(d, n, c)
         /\ ScheduledXP(d, n, c) \in Nat
<1>1. CASE ~c
  BY <1>1 DEF xpForAttempt, CalculateXP, ScheduledXP
<1>2. CASE c /\ n = 1
  <2>1. Percent(n) = 100 /\ (4 * d * 100) \div 100 = 4 * d
    BY <1>2 DEF Percent
  <2> QED BY <1>2, <2>1 DEF xpForAttempt, CalculateXP, ScheduledXP
<1>3. CASE c /\ n \in 2..3
  <2>1. /\ Percent(n) = 50
        /\ (4 * d * 50) \div 100 = (4 * d) \div 2 /\ (4 * d) \div 2 \in Nat
    BY <1>3 DEF Percent
  <2> QED BY <1>3, <2>1 DEF xpForAttempt, CalculateXP, ScheduledXP
<1>4. CASE c /\ n > 3
  <2>1. Percent(n) = 0 /\ (4 * d * 0) \div 100 = 0
    BY <1>4 DEF Percent
  <2> QED BY <1>4, <2>1 DEF xpForAttempt, CalculateXP, ScheduledXP
<1> QED BY <1>1, <1>2, <1>3, <1>4

LEMMA AttemptPoints ==
  ASSUME NEW r \in Request, NEW d \in Nat, NEW n \in Nat \ {0}, NEW c \in BOOLEAN
  PROVE  /\ AttemptXP(r, d, n, c) = ScheduledXP(d, n, c)
         /\ AttemptXP(r, d, n, c) \in Nat
BY SameSchedule DEF AttemptXP

(***************************************************************************)
(* What the constants give.                                                *)
(***************************************************************************)

LEMMA RequestShape ==
  ASSUME NEW r \in Request
  PROVE  /\ r.kind \in {"sync", "online"}
         /\ r.user \in User
         /\ r.event \in Event \union {NoEvent}
         /\ r.items \in Seq(Item)
         /\ DOMAIN r.items = 1..Len(r.items)
         /\ Len(r.items) \in Nat
         /\ \A i \in DOMAIN r.items :
              /\ r.items[i].level \in Level
              /\ r.items[i].date \in Date
              /\ r.items[i].completed \in BOOLEAN
              /\ KeyOf(r, i) \in Key
         /\ r.days \subseteq Date
         /\ r.valid \in BOOLEAN
         /\ r.kind = "sync" => r.event \in Event /\ r.device \in Device
         /\ r.kind = "online" => r.event = NoEvent
<1>1. r \in RequestType
  BY RequestAssumption
<1>2. r.items \in Seq(Item)
  BY <1>1 DEF RequestType
<1>3. \A i \in DOMAIN r.items : r.items[i] \in Item
  BY <1>2
<1>4. \A i \in DOMAIN r.items :
        /\ r.items[i].level \in Level
        /\ r.items[i].date \in Date
        /\ r.items[i].completed \in BOOLEAN
        /\ KeyOf(r, i) \in Key
  BY <1>1, <1>3 DEF RequestType, Item, KeyOf, Key
<1>5. /\ r.kind \in {"sync", "online"}
      /\ r.user \in User
      /\ r.event \in Event \union {NoEvent}
      /\ r.days \subseteq Date
      /\ r.valid \in BOOLEAN
  BY <1>1 DEF RequestType
<1>6. DOMAIN r.items = 1..Len(r.items) /\ Len(r.items) \in Nat
  BY <1>2
<1>7. /\ r.kind = "sync" => r.event \in Event /\ r.device \in Device
      /\ r.kind = "online" => r.event = NoEvent
  BY RequestAssumption
<1> QED BY <1>2, <1>4, <1>5, <1>6, <1>7

\* The fields of a session record.
LEMMA SessionFields ==
  ASSUME NEW x \in SessionRecord
  PROVE  /\ x.phase \in {"idle", "opened", "running"}
         /\ x.req \in Request \union {NoRequest}
         /\ x.snap \in Nat
         /\ x.wipe \in BOOLEAN
         /\ x.seen \in Seq(Difficulties \union {NotAvailable})
         /\ x.own \in Seq([number : Nat \ {0}, xp : Nat])
         /\ x.gain \in [Level -> ProgressRow]
         /\ x.keys \subseteq Key
         /\ x.rows \subseteq RowName
         /\ x.reply \in [status : Statuses, wipe : BOOLEAN]
BY DEF SessionRecord

LEMMA IdleRecord ==
  ASSUME NEW reply \in [status : Statuses, wipe : BOOLEAN]
  PROVE  IdleSession(reply) \in SessionRecord
<1>1. NoGain \in [Level -> ProgressRow]
  BY DEF NoGain, NoProgress, ProgressRow
<1> QED BY <1>1 DEF IdleSession, SessionRecord

(***************************************************************************)
(* Type correctness, with the shape of session records it needs.           *)
(***************************************************************************)

TypeInv == TypeOK /\ SessionShape

\* SessionShape of one session.
ShapeOf(s) ==
  LET x == session[s] IN
  /\ x.phase # "idle" =>
       /\ x.req \in Request
       /\ x.snap <= Len(log)
       /\ Len(x.seen) = Len(x.req.items)
       /\ Len(x.own) <= Len(x.req.items)
  /\ x.phase = "opened" => x.req.kind = "sync"
  /\ x.own # <<>> => x.phase = "running" /\ Acceptable(s)

LEMMA ShapeByCase == SessionShape <=> \A s \in Session : ShapeOf(s)
BY DEF SessionShape, ShapeOf

\* A session that a step leaves alone keeps its shape while the log grows.
LEMMA ShapeKept ==
  ASSUME NEW s \in Session, ShapeOf(s), TypeOK, TypeOK',
         session'[s] = session[s], Len(log) <= Len(log')
  PROVE  ShapeOf(s)'
<1>1. session[s].snap \in Nat /\ Len(log) \in Nat /\ Len(log') \in Nat
  BY SessionFields DEF TypeOK
<1>2. Acceptable(s) => Acceptable(s)'
  BY DEF Acceptable
<1> QED BY <1>1, <1>2 DEF ShapeOf

LEMMA EndShape ==
  ASSUME TypeOK, NEW s \in Session, NEW reply \in [status : Statuses, wipe : BOOLEAN],
         End(s, reply)
  PROVE  /\ session' \in [Session -> SessionRecord]
         /\ ShapeOf(s)'
         /\ \A t \in Session \ {s} : session'[t] = session[t]
<1>1. session'[s] = IdleSession(reply) /\ session' \in [Session -> SessionRecord]
  BY IdleRecord DEF End, TypeOK
<1>2. ShapeOf(s)'
  BY <1>1 DEF ShapeOf, IdleSession
<1> QED BY <1>1, <1>2 DEF End, TypeOK

\* What a request sees of its levels at its first statement.
LEMMA SeenShape ==
  ASSUME catalogue \in [Level -> Difficulties \union {NotAvailable}], NEW r \in Request
  PROVE  LET seen == [i \in DOMAIN r.items |-> catalogue[r.items[i].level]]
         IN  /\ seen \in Seq(Difficulties \union {NotAvailable})
             /\ Len(seen) = Len(r.items)
<1> DEFINE n == Len(r.items)
           val(i) == catalogue[r.items[i].level]
<1>1. n \in Nat /\ DOMAIN r.items = 1..n
  BY RequestShape
<1>2. \A i \in 1..n : val(i) \in Difficulties \union {NotAvailable}
  BY <1>1, RequestShape
<1> HIDE DEF n, val
<1>3. /\ [i \in 1..n |-> val(i)] \in Seq(Difficulties \union {NotAvailable})
      /\ Len([i \in 1..n |-> val(i)]) = n
  BY <1>1, <1>2
<1> QED BY <1>1, <1>3 DEF n, val

LEMMA OpenShape ==
  ASSUME TypeInv, NEW s \in Session, NEW r \in Request, NEW phase \in {"opened", "running"},
         phase = "opened" => r.kind = "sync",
         Open(s, r, phase), UNCHANGED tables
  PROVE  TypeInv'
<1> DEFINE rec == [phase |-> phase, req |-> r, snap |-> Len(log),
                   wipe  |-> IF r.kind = "sync" THEN wipe[r.device] ELSE FALSE,
                   seen  |-> [i \in DOMAIN r.items |-> catalogue[r.items[i].level]],
                   own |-> <<>>, gain |-> NoGain, keys |-> {}, rows |-> {}, reply |-> NoReply]
<1>1. /\ rec.seen \in Seq(Difficulties \union {NotAvailable})
      /\ Len(rec.seen) = Len(r.items)
  BY SeenShape DEF TypeInv, TypeOK
<1>2. rec.wipe \in BOOLEAN /\ rec.snap \in Nat /\ rec.reply \in [status : Statuses, wipe : BOOLEAN]
  <2>1. rec.wipe \in BOOLEAN
    <3>1. CASE r.kind = "sync"
      BY <3>1, RequestShape DEF TypeInv, TypeOK
    <3>2. CASE r.kind # "sync"
      BY <3>2
    <3> QED BY <3>1, <3>2
  <2>2. rec.snap \in Nat
    BY DEF TypeInv, TypeOK
  <2>3. rec.reply \in [status : Statuses, wipe : BOOLEAN]
    BY DEF NoReply, Statuses
  <2> QED BY <2>1, <2>2, <2>3
<1>3. rec \in SessionRecord
  <2>1. rec.own \in Seq([number : Nat \ {0}, xp : Nat])
    OBVIOUS
  <2>2. rec.gain \in [Level -> ProgressRow]
    BY DEF NoGain, NoProgress, ProgressRow
  <2> HIDE DEF rec
  <2> QED BY <1>1, <1>2, <2>1, <2>2 DEF SessionRecord, rec
<1>4. session' = [session EXCEPT ![s] = rec]
  BY DEF Open
<1> HIDE DEF rec
<1>5. session' \in [Session -> SessionRecord] /\ session'[s] = rec
  BY <1>3, <1>4 DEF TypeInv, TypeOK
<1>6. TypeOK'
  BY <1>5 DEF TypeInv, TypeOK, tables
<1>7. ShapeOf(s)'
  BY <1>1, <1>5 DEF ShapeOf, rec, tables, TypeInv, TypeOK
<1>8. ASSUME NEW t \in Session \ {s} PROVE ShapeOf(t)'
  <2>1. session'[t] = session[t]
    BY <1>4 DEF TypeInv, TypeOK
  <2> QED BY <1>6, <2>1, ShapeKept, ShapeByCase DEF TypeInv, TypeOK, tables
<1> QED BY <1>6, <1>7, <1>8, ShapeByCase DEF TypeInv, SessionShape, ShapeOf

\* A step that ends the session s and lets the log grow keeps every shape.
LEMMA EndKeepsShape ==
  ASSUME TypeInv, TypeOK', NEW s \in Session,
         NEW reply \in [status : Statuses, wipe : BOOLEAN],
         End(s, reply), Len(log) <= Len(log')
  PROVE  SessionShape'
<1>1. ShapeOf(s)' /\ \A t \in Session \ {s} : session'[t] = session[t]
  BY EndShape DEF TypeInv
<1>2. ASSUME NEW t \in Session \ {s} PROVE ShapeOf(t)'
  BY <1>1, <1>2, ShapeKept, ShapeByCase DEF TypeInv
<1> QED BY <1>1, <1>2 DEF SessionShape, ShapeOf

\* A rolled-back transaction leaves nothing but its reply.
LEMMA RollbackType ==
  ASSUME TypeInv, NEW s \in Session, NEW reply \in [status : Statuses, wipe : BOOLEAN],
         End(s, reply), UNCHANGED tables
  PROVE  TypeInv'
<1>1. TypeOK'
  BY EndShape DEF TypeInv, TypeOK, tables
<1>2. Len(log) <= Len(log')
  BY DEF TypeInv, TypeOK, tables
<1> QED BY <1>1, <1>2, EndKeepsShape DEF TypeInv

LEMMA StatusType ==
  ASSUME NEW x \in Statuses
  PROVE  Status(x) \in [status : Statuses, wipe : BOOLEAN]
BY DEF Status

LEMMA RecordEventType ==
  ASSUME TypeInv, NEW s \in Session, RecordEvent(s)
  PROVE  TypeInv'
<1>1. session[s] \in SessionRecord /\ session[s].req \in Request /\ session[s].req.kind = "sync"
  BY DEF TypeInv, TypeOK, RecordEvent, SessionShape
<1>2. EventRow(s) \in RowName
  BY <1>1, RequestShape DEF EventRow, RowName
<1>3. /\ session'[s] = [session[s] EXCEPT !.phase = "running",
                                          !.rows = @ \union {EventRow(s)}]
      /\ \A t \in Session \ {s} : session'[t] = session[t]
      /\ session' = [session EXCEPT ![s] = session'[s]]
  BY DEF RecordEvent, TypeInv, TypeOK
<1>4. session'[s] \in SessionRecord
  <2>1. session[s].rows \union {EventRow(s)} \in SUBSET RowName
    BY <1>1, <1>2, SessionFields
  <2> QED BY <1>1, <1>3, <2>1 DEF SessionRecord
<1>5. TypeOK'
  BY <1>3, <1>4 DEF RecordEvent, TypeInv, TypeOK, tables
<1>6. ShapeOf(s)'
  <2>1. session[s].own = <<>> /\ ShapeOf(s) /\ session[s].phase = "opened"
    BY ShapeByCase DEF TypeInv, ShapeOf, RecordEvent
  <2>2. /\ session'[s].phase = "running"
        /\ session'[s].req = session[s].req
        /\ session'[s].snap = session[s].snap
        /\ session'[s].seen = session[s].seen
        /\ session'[s].own = session[s].own
    BY <1>1, <1>3 DEF SessionRecord
  <2>3. log' = log
    BY DEF RecordEvent, tables
  <2> QED BY <1>1, <2>1, <2>2, <2>3 DEF ShapeOf
<1>7. ASSUME NEW t \in Session \ {s} PROVE ShapeOf(t)'
  <2>1. ShapeOf(t) /\ TypeOK /\ session'[t] = session[t]
    BY <1>3, ShapeByCase DEF TypeInv
  <2>2. Len(log) <= Len(log')
    BY DEF RecordEvent, tables, TypeInv, TypeOK
  <2> QED BY <1>5, <2>1, <2>2, ShapeKept
<1> QED BY <1>5, <1>6, <1>7 DEF TypeInv, SessionShape, ShapeOf

LEMMA LockType ==
  ASSUME TypeInv, NEW s \in Session, LockLevelAttempt(s)
  PROVE  TypeInv'
<1>1. session[s] \in SessionRecord /\ session[s].req \in Request
  BY DEF TypeInv, TypeOK, LockLevelAttempt, MoreAttempts, SessionShape
<1>2. NextKey(s) \in Key
  <2>1. Len(session[s].own) + 1 \in DOMAIN session[s].req.items
    BY <1>1, RequestShape, SessionFields DEF LockLevelAttempt, MoreAttempts
  <2> QED BY <1>1, <2>1, RequestShape DEF NextKey
<1>3. /\ session'[s] = [session[s] EXCEPT !.keys = @ \union {NextKey(s)}]
      /\ \A t \in Session \ {s} : session'[t] = session[t]
      /\ session' = [session EXCEPT ![s] = session'[s]]
  BY DEF LockLevelAttempt, TypeInv, TypeOK
<1>4. session'[s] \in SessionRecord
  <2>1. session[s].keys \union {NextKey(s)} \in SUBSET Key
    BY <1>1, <1>2, SessionFields
  <2> QED BY <1>1, <1>3, <2>1 DEF SessionRecord
<1>5. TypeOK'
  BY <1>3, <1>4 DEF LockLevelAttempt, TypeInv, TypeOK, tables
<1>6. ShapeOf(s)'
  <2>1. ShapeOf(s)
    BY ShapeByCase DEF TypeInv
  <2> QED BY <1>1, <1>3, <2>1 DEF ShapeOf, SessionRecord, LockLevelAttempt, tables, Acceptable
<1>7. ASSUME NEW t \in Session \ {s} PROVE ShapeOf(t)'
  <2>1. ShapeOf(t) /\ TypeOK /\ session'[t] = session[t]
    BY <1>3, ShapeByCase DEF TypeInv
  <2>2. Len(log) <= Len(log')
    BY DEF LockLevelAttempt, tables, TypeInv, TypeOK
  <2> QED BY <1>5, <2>1, <2>2, ShapeKept
<1> QED BY <1>5, <1>6, <1>7 DEF TypeInv, SessionShape, ShapeOf

(***************************************************************************)
(* The number an attempt gets, and the row it becomes.                     *)
(***************************************************************************)

LEMMA OwnFinite ==
  ASSUME TypeInv, NEW s \in Session, NEW k
  PROVE  /\ IsFiniteSet(OwnIndices(s, k)) /\ Cardinality(OwnIndices(s, k)) \in Nat
         /\ OwnIndices(s, k) \subseteq 1..Len(session[s].own)
         /\ IsFiniteSet(OwnNumbers(s, k)) /\ OwnNumbers(s, k) \subseteq Nat \ {0}
<1>1. session[s].own \in Seq([number : Nat \ {0}, xp : Nat])
  BY SessionFields DEF TypeInv, TypeOK
<1>2. OwnIndices(s, k) \subseteq 1..Len(session[s].own)
  BY <1>1 DEF OwnIndices
<1>3. IsFiniteSet(1..Len(session[s].own))
  BY <1>1, FS_Interval
<1>4. IsFiniteSet(OwnIndices(s, k)) /\ Cardinality(OwnIndices(s, k)) \in Nat
  BY <1>2, <1>3, FS_Subset, FS_CardinalityType
<1>5. IsFiniteSet(OwnNumbers(s, k))
  <2> DEFINE f == [i \in OwnIndices(s, k) |-> session[s].own[i].number]
  <2>1. f \in Surjection(OwnIndices(s, k), OwnNumbers(s, k))
    BY DEF OwnNumbers, Surjection
  <2> QED BY <1>4, <2>1, FS_Surjection
<1>6. OwnNumbers(s, k) \subseteq Nat \ {0}
  <2> DEFINE Rec == [number : Nat \ {0}, xp : Nat]
             q == session[s].own
  <2>1. \A i \in OwnIndices(s, k) : q[i] \in Rec
    <3> SUFFICES ASSUME NEW i \in 1..Len(q) PROVE q[i] \in Rec
      BY <1>2
    <3>1. q \in Seq(Rec)
      BY <1>1
    <3> HIDE DEF q, Rec
    <3> QED BY <3>1
  <2>2. \A i \in OwnIndices(s, k) : session[s].own[i].number \in Nat \ {0}
    BY <2>1
  <2> QED BY <2>2 DEF OwnNumbers
<1> QED BY <1>2, <1>4, <1>5, <1>6

LEMMA SeenFinite ==
  ASSUME TypeInv, NEW s \in Session, NEW k \in Key
  PROVE  /\ IsFiniteSet(SeenAttempts(s, k)) /\ Cardinality(SeenAttempts(s, k)) \in Nat
         /\ SeenAttempts(s, k) \subseteq DOMAIN attempts[k]
         /\ Cardinality(SeenAttempts(s, k)) <= Cardinality(DOMAIN attempts[k])
<1>1. SeenAttempts(s, k) \subseteq DOMAIN attempts[k]
  BY DEF SeenAttempts
<1> QED BY <1>1, FS_Subset, FS_CardinalityType DEF TypeInv, TypeOK

\* What a session inserts next: an item of its request, with a positive number
\* and the points of that number.
LEMMA NextAttempt ==
  ASSUME TypeInv, NEW s \in Session, MoreAttempts(s)
  PROVE  LET r == session[s].req
             i == Len(session[s].own) + 1
         IN  /\ r \in Request
             /\ i \in DOMAIN r.items
             /\ NextItem(s) = r.items[i]
             /\ NextItem(s).level \in Level
             /\ NextItem(s).completed \in BOOLEAN
             /\ NextKey(s) = KeyOf(r, i)
             /\ NextKey(s) \in Key
             /\ session[s].seen[i] \in Difficulties
             /\ NextNumber(s) \in Nat \ {0}
             /\ NextXP(s) \in Nat
             /\ NextXP(s) = ScheduledXP(session[s].seen[i], NextNumber(s), r.items[i].completed)
<1> DEFINE r == session[s].req
           i == Len(session[s].own) + 1
           number == NextNumber(s)
<1>1. session[s] \in SessionRecord /\ r \in Request /\ Len(session[s].seen) = Len(r.items)
  BY DEF TypeInv, TypeOK, MoreAttempts, SessionShape
<1>2. Len(session[s].own) \in Nat /\ Len(r.items) \in Nat
  BY <1>1, SessionFields, RequestShape
<1>3. i \in DOMAIN r.items
  BY <1>1, <1>2, RequestShape DEF MoreAttempts
<1>4. NextKey(s) = KeyOf(r, i) /\ NextKey(s) \in Key
  BY <1>1, <1>3, RequestShape DEF NextKey
<1>5. session[s].seen[i] \in Difficulties
  <2>1. session[s].seen \in Seq(Difficulties \union {NotAvailable})
    BY <1>1, SessionFields
  <2>2. i \in DOMAIN session[s].seen
    BY <1>1, <1>2, <1>3, <2>1, RequestShape
  <2> QED BY <2>1, <2>2 DEF MoreAttempts, Acceptable
<1>6. number \in Nat \ {0}
  BY <1>4, OwnFinite, SeenFinite DEF NextNumber, CountLevelAttemptsByDate
<1>7. NextItem(s) = r.items[i] /\ NextItem(s).level \in Level /\ NextItem(s).completed \in BOOLEAN
  BY <1>1, <1>3, RequestShape DEF NextItem
<1>8. session[s].seen[i] \in Nat
  BY <1>5, ConstantsAssumption
<1>9. NextXP(s) = AttemptXP(r, session[s].seen[i], number, NextItem(s).completed)
  BY DEF NextXP
<1> HIDE DEF r, i, number
<1>10. NextXP(s) \in Nat /\ NextXP(s) = ScheduledXP(session[s].seen[i], number, NextItem(s).completed)
  BY <1>1, <1>6, <1>7, <1>8, <1>9, AttemptPoints
<1> QED BY <1>1, <1>3, <1>4, <1>5, <1>6, <1>7, <1>10 DEF r, i, number

LEMMA PlusType ==
  ASSUME NEW p \in ProgressRow, NEW q \in ProgressRow
  PROVE  Plus(p, q) \in ProgressRow
<1>1. /\ p.xp \in Nat /\ q.xp \in Nat /\ p.count \in Nat /\ q.count \in Nat
      /\ p.done \in BOOLEAN /\ q.done \in BOOLEAN
  BY DEF ProgressRow
<1>2. p.xp + q.xp \in Nat /\ p.count + q.count \in Nat
  BY <1>1
<1>3. (p.done \/ q.done) \in BOOLEAN
  OBVIOUS
<1> QED BY <1>2, <1>3 DEF Plus, ProgressRow

LEMMA RunAttemptType ==
  ASSUME TypeInv, NEW s \in Session, RunAttempt(s)
  PROVE  TypeInv'
<1> DEFINE r == session[s].req
           i == Len(session[s].own) + 1
           own == Append(session[s].own, [number |-> NextNumber(s), xp |-> NextXP(s)])
           rows == session[s].rows \union {NextRow(s)}
<1>1. MoreAttempts(s) /\ session[s] \in SessionRecord
  BY DEF RunAttempt, TypeInv, TypeOK
<1>2. /\ r \in Request /\ i \in DOMAIN r.items /\ NextNumber(s) \in Nat \ {0} /\ NextXP(s) \in Nat
      /\ NextItem(s).level \in Level /\ r.user \in User /\ NextItem(s).completed \in BOOLEAN
  BY <1>1, NextAttempt, RequestShape
<1>3. own \in Seq([number : Nat \ {0}, xp : Nat]) /\ Len(own) = i
  BY <1>1, <1>2, SessionFields
<1>4. NextGain(s) \in [Level -> ProgressRow]
  <2>1. [xp |-> NextXP(s), count |-> 1, done |-> NextItem(s).completed] \in ProgressRow
    BY <1>2 DEF ProgressRow
  <2>2. session[s].gain \in [Level -> ProgressRow]
    BY <1>1, SessionFields
  <2>3. Plus(session[s].gain[NextItem(s).level],
             [xp |-> NextXP(s), count |-> 1, done |-> NextItem(s).completed]) \in ProgressRow
    BY <1>2, <2>1, <2>2, PlusType
  <2> QED BY <2>2, <2>3 DEF NextGain
<1>5. rows \in SUBSET RowName
  BY <1>1, <1>2, SessionFields DEF RowName, NextRow
<1>6. session' = [session EXCEPT ![s].own = own, ![s].gain = NextGain(s), ![s].rows = rows]
  BY DEF RunAttempt
<1>t. UNCHANGED tables
  BY DEF RunAttempt
<1> HIDE DEF own, rows
<1>7. /\ session'[s] = [session[s] EXCEPT !.own = own, !.gain = NextGain(s), !.rows = rows]
      /\ \A t \in Session \ {s} : session'[t] = session[t]
      /\ session' = [session EXCEPT ![s] = session'[s]]
  BY <1>6 DEF TypeInv, TypeOK
<1>8. session'[s] \in SessionRecord
  BY <1>1, <1>3, <1>4, <1>5, <1>7 DEF SessionRecord
<1>9. TypeOK'
  BY <1>7, <1>8, <1>t DEF TypeInv, TypeOK, tables
<1>10. ShapeOf(s)'
  <2>1. ShapeOf(s) /\ session[s].phase = "running" /\ Acceptable(s)
    BY <1>1, ShapeByCase DEF TypeInv, MoreAttempts
  <2>2. /\ session'[s].phase = session[s].phase
        /\ session'[s].req = session[s].req
        /\ session'[s].snap = session[s].snap
        /\ session'[s].seen = session[s].seen
        /\ session'[s].own = own
    BY <1>1, <1>7 DEF SessionRecord
  <2>3. log' = log /\ i <= Len(r.items)
    BY <1>2, <1>t, RequestShape DEF tables
  <2> QED BY <1>3, <2>1, <2>2, <2>3 DEF ShapeOf, Acceptable
<1>11. ASSUME NEW t \in Session \ {s} PROVE ShapeOf(t)'
  <2>1. ShapeOf(t) /\ TypeOK /\ session'[t] = session[t]
    BY <1>7, ShapeByCase DEF TypeInv
  <2>2. Len(log) <= Len(log')
    BY <1>t DEF tables, TypeInv, TypeOK
  <2> QED BY <1>9, <2>1, <2>2, ShapeKept
<1> QED BY <1>9, <1>10, <1>11 DEF TypeInv, SessionShape, ShapeOf

LEMMA EntryType ==
  ASSUME TypeOK, NEW snap \in Nat, NEW reads \in SUBSET Tracked, NEW writes \in SUBSET Tracked,
         NEW rows \in SUBSET RowName, log' = Append(log, Entry(snap, reads, writes, rows))
  PROVE  log' \in Seq(LogEntry) /\ Len(log') = Len(log) + 1 /\ Len(log) <= Len(log')
<1>1. log \in Seq(LogEntry) /\ Len(log) \in Nat
  BY DEF TypeOK
<1>2. Entry(snap, reads, writes, rows) \in LogEntry
  BY <1>1 DEF Entry, LogEntry
<1> QED BY <1>1, <1>2

LEMMA RejectEventType ==
  ASSUME TypeInv, NEW s \in Session, RejectEvent(s)
  PROVE  TypeInv'
<1>1. session[s] \in SessionRecord
  BY DEF TypeInv, TypeOK
<1>2. log' = Append(log, Entry(session[s].snap, {}, {}, session[s].rows)) /\ End(s, Status("rejected"))
  BY DEF RejectEvent
<1>3. log' \in Seq(LogEntry) /\ Len(log) <= Len(log')
  BY <1>1, <1>2, EntryType, SessionFields DEF TypeInv
<1>4. Status("rejected") \in [status : Statuses, wipe : BOOLEAN]
  BY StatusType DEF Statuses
<1>5. session' \in [Session -> SessionRecord]
  BY <1>2, <1>4, EndShape DEF TypeInv
<1>6. events' \in [Event -> {"none", "processed", "rejected"}]
  BY DEF RejectEvent, TypeInv, TypeOK
<1>7. TypeOK'
  BY <1>3, <1>5, <1>6 DEF RejectEvent, TypeInv, TypeOK
<1> QED BY <1>2, <1>3, <1>4, <1>7, EndKeepsShape DEF TypeInv

\* The attempt of a session that carries the number n, and the row it becomes.
LEMMA NewRowType ==
  ASSUME TypeInv, NEW s \in Session, NEW k, NEW n \in OwnNumbers(s, k)
  PROVE  \E i \in OwnIndices(s, k) :
           /\ session[s].own[i].number = n
           /\ session[s].own[i].xp \in Nat
           /\ session[s].req.items[i].completed \in BOOLEAN
           /\ session[s].seen[i] \in Difficulties
           /\ NewRow(s, k, n) =
                [xp |-> session[s].own[i].xp, completed |-> session[s].req.items[i].completed,
                 difficulty |-> session[s].seen[i], at |-> Len(log) + 1]
<1> DEFINE i == CHOOSE j \in OwnIndices(s, k) : session[s].own[j].number = n
           q == session[s].own
           Rec == [number : Nat \ {0}, xp : Nat]
<1>1. i \in OwnIndices(s, k) /\ session[s].own[i].number = n
  BY DEF OwnNumbers
<1>2. session[s] \in SessionRecord
  BY DEF TypeInv, TypeOK
<1>3. q \in Seq(Rec) /\ Len(q) \in Nat
  BY <1>2, SessionFields
<1>4. i \in 1..Len(q)
  BY <1>1, OwnFinite
<1>5. session[s].own # <<>>
  BY <1>3, <1>4
<1>6. /\ session[s].phase = "running" /\ Acceptable(s) /\ session[s].req \in Request
      /\ Len(session[s].seen) = Len(session[s].req.items)
      /\ Len(session[s].own) <= Len(session[s].req.items)
  <2>1. session[s].phase = "running" /\ Acceptable(s)
    BY <1>5 DEF TypeInv, SessionShape
  <2> QED BY <2>1 DEF TypeInv, SessionShape
<1>7. q[i] \in Rec
  <2> HIDE DEF q, Rec, i
  <2> QED BY <1>3, <1>4
<1>8. i \in DOMAIN session[s].req.items /\ i \in 1..Len(session[s].seen)
  <2>1. DOMAIN session[s].req.items = 1..Len(session[s].req.items) /\ Len(session[s].req.items) \in Nat
    BY <1>6, RequestShape
  <2> HIDE DEF i
  <2> QED BY <1>3, <1>4, <1>6, <2>1
<1>9. session[s].req.items[i].completed \in BOOLEAN
  BY <1>6, <1>8, RequestShape
<1>10. session[s].seen[i] \in Difficulties
  <2>1. session[s].seen \in Seq(Difficulties \union {NotAvailable})
    BY <1>2, SessionFields
  <2>2. session[s].seen[i] # NotAvailable
    <3>1. DOMAIN session[s].seen = 1..Len(session[s].seen)
      BY <2>1
    <3>2. \A j \in DOMAIN session[s].seen : session[s].seen[j] # NotAvailable
      BY <1>6 DEF Acceptable
    <3> HIDE DEF i
    <3> QED BY <1>8, <3>1, <3>2
  <2> HIDE DEF i
  <2> QED BY <1>8, <2>1, <2>2
<1>11. NewRow(s, k, n) =
         [xp |-> session[s].own[i].xp, completed |-> session[s].req.items[i].completed,
          difficulty |-> session[s].seen[i], at |-> Len(log) + 1]
  BY DEF NewRow
<1>12. session[s].own[i].xp \in Nat
  BY <1>7
<1> HIDE DEF i
<1> QED BY <1>1, <1>9, <1>10, <1>11, <1>12

LEMMA CommitTables ==
  ASSUME TypeInv, NEW s \in Session, Commit(s)
  PROVE  /\ DOMAIN attempts' = Key
         /\ \A k \in Key :
              /\ DOMAIN attempts'[k] = DOMAIN attempts[k] \union OwnNumbers(s, k)
              /\ DOMAIN attempts'[k] \subseteq Nat \ {0}
              /\ IsFiniteSet(DOMAIN attempts'[k])
              /\ attempts'[k] \in [DOMAIN attempts'[k] -> AttemptRow]
              /\ \A n \in DOMAIN attempts[k] : attempts'[k][n] = attempts[k][n]
              /\ \A n \in DOMAIN attempts'[k] \ DOMAIN attempts[k] :
                   attempts'[k][n] = NewRow(s, k, n)
<1>1. attempts' = WithNewAttempts(s)
  BY DEF Commit
<1>2. DOMAIN attempts' = Key
  BY <1>1 DEF WithNewAttempts
<1> SUFFICES ASSUME NEW k \in Key
             PROVE  /\ DOMAIN attempts'[k] = DOMAIN attempts[k] \union OwnNumbers(s, k)
                    /\ DOMAIN attempts'[k] \subseteq Nat \ {0}
                    /\ IsFiniteSet(DOMAIN attempts'[k])
                    /\ attempts'[k] \in [DOMAIN attempts'[k] -> AttemptRow]
                    /\ \A n \in DOMAIN attempts[k] : attempts'[k][n] = attempts[k][n]
                    /\ \A n \in DOMAIN attempts'[k] \ DOMAIN attempts[k] :
                         attempts'[k][n] = NewRow(s, k, n)
  BY <1>2
<1>3. attempts'[k] = [n \in DOMAIN attempts[k] \union OwnNumbers(s, k) |->
                        IF n \in DOMAIN attempts[k] THEN attempts[k][n] ELSE NewRow(s, k, n)]
  BY <1>1 DEF WithNewAttempts
<1>4. /\ DOMAIN attempts[k] \subseteq Nat \ {0} /\ IsFiniteSet(DOMAIN attempts[k])
      /\ \A n \in DOMAIN attempts[k] : attempts[k][n] \in AttemptRow
  BY DEF TypeInv, TypeOK
<1>5. IsFiniteSet(OwnNumbers(s, k)) /\ OwnNumbers(s, k) \subseteq Nat \ {0}
  BY OwnFinite
<1>6. \A n \in OwnNumbers(s, k) : NewRow(s, k, n) \in AttemptRow
  <2> SUFFICES ASSUME NEW n \in OwnNumbers(s, k) PROVE NewRow(s, k, n) \in AttemptRow
    OBVIOUS
  <2>1. Len(log) + 1 \in Nat
    BY DEF TypeInv, TypeOK
  <2> QED BY <2>1, NewRowType DEF AttemptRow
<1>7. IsFiniteSet(DOMAIN attempts[k] \union OwnNumbers(s, k))
  BY <1>4, <1>5, FS_Union
<1> QED BY <1>3, <1>4, <1>5, <1>6, <1>7

LEMMA CommitLedger ==
  ASSUME TypeInv, NEW s \in Session, Commit(s)
  PROVE  NewLedgerRows(s) \subseteq LedgerRow
<1> DEFINE r == session[s].req
           q == session[s].own
           Rec == [number : Nat \ {0}, xp : Nat]
<1>1. r \in Request /\ Len(q) = Len(r.items) /\ Len(log) + 1 \in Nat
  BY DEF Commit, TypeInv, TypeOK, SessionShape
<1>2. q \in Seq(Rec)
  BY SessionFields DEF TypeInv, TypeOK
<1> HIDE DEF Rec
<1>3. DOMAIN q = 1..Len(r.items) /\ \A i \in DOMAIN q : q[i] \in Rec /\ i \in Nat
  BY <1>1, <1>2
<1>4. \A i \in DOMAIN q : r.items[i].level \in Level
  BY <1>1, <1>3, RequestShape
<1>5. \A i \in DOMAIN q : q[i].xp \in Nat
  BY <1>3 DEF Rec
<1>6. r.user \in User /\ r.event \in Event \union {NoEvent}
  BY <1>1, RequestShape
<1> HIDE DEF q, r
<1>7. \A i \in DOMAIN q :
        [user |-> r.user, level |-> r.items[i].level, xp |-> q[i].xp,
         event |-> r.event, item |-> i, at |-> Len(log) + 1] \in LedgerRow
  BY <1>1, <1>3, <1>4, <1>5, <1>6 DEF LedgerRow
<1> QED BY <1>7 DEF NewLedgerRows, q, r

LEMMA CommitLog ==
  ASSUME TypeInv, NEW s \in Session, Commit(s)
  PROVE  log' \in Seq(LogEntry) /\ Len(log') = Len(log) + 1 /\ Len(log) <= Len(log')
<1> DEFINE r == session[s].req
           reads == {<<"ledger", r.user>>}
                      \union (IF r.kind = "online" THEN {<<"streak", r.user>>} ELSE {})
           writes == (IF r.items # <<>> THEN {<<"ledger", r.user>>} ELSE {})
                       \union (IF NewDays(s) # {} THEN {<<"streak", r.user>>} ELSE {})
<1>1. r \in Request /\ session[s] \in SessionRecord
  BY DEF Commit, TypeInv, TypeOK, SessionShape
<1>2. r.user \in User /\ r.days \subseteq Date /\ (r.kind = "sync" => r.device \in Device)
  BY <1>1, RequestShape
<1>3. reads \in SUBSET Tracked /\ writes \in SUBSET Tracked
  BY <1>2 DEF Tracked
<1>4. LastRows(s) \subseteq RowName
  BY <1>2 DEF LastRows, RowName
<1>5. WrittenRows(s) \in SUBSET RowName
  BY <1>1, <1>4, SessionFields DEF WrittenRows
<1>6. log' = Append(log, Entry(session[s].snap, reads, writes, WrittenRows(s)))
  BY DEF Commit, CommitEntry
<1>7. session[s].snap \in Nat
  BY <1>1, SessionFields
<1> HIDE DEF r, reads, writes
<1> QED BY <1>3, <1>5, <1>6, <1>7, EntryType DEF TypeInv

LEMMA CommitType ==
  ASSUME TypeInv, NEW s \in Session, Commit(s)
  PROVE  TypeInv'
<1> DEFINE r == session[s].req
           reply == [status |-> IF r.kind = "sync" THEN "synced" ELSE "completed",
                     wipe |-> session[s].wipe]
<1>1. r \in Request /\ session[s] \in SessionRecord
  BY DEF Commit, TypeInv, TypeOK, SessionShape
<1>2. reply \in [status : Statuses, wipe : BOOLEAN] /\ End(s, reply)
  BY <1>1, SessionFields DEF Commit, Statuses
<1> HIDE DEF reply
<1>3. session' \in [Session -> SessionRecord]
  BY <1>2, EndShape DEF TypeInv
<1>4. ledger' \subseteq LedgerRow
  BY CommitLedger DEF Commit, TypeInv, TypeOK
<1>5. progress' \in [User \X Level -> ProgressRow]
  <2>1. \A p \in User \X Level : progress[p] \in ProgressRow /\ session[s].gain[p[2]] \in ProgressRow
    BY <1>1, SessionFields DEF TypeInv, TypeOK
  <2>2. \A p \in User \X Level : Plus(progress[p], session[s].gain[p[2]]) \in ProgressRow
    BY <2>1, PlusType
  <2>3. progress' = WithNewProgress(s)
    BY DEF Commit
  <2> QED BY <2>1, <2>2, <2>3 DEF WithNewProgress
<1>6. streak' \in [User -> SUBSET Date] /\ badges' \in [User -> SUBSET Badge]
  <2>1. NewDays(s) \subseteq Date /\ NewBadges(s) \subseteq Badge
    BY <1>1, RequestShape DEF NewDays, NewBadges
  <2> QED BY <2>1 DEF Commit, TypeInv, TypeOK
<1>7. events' \in [Event -> {"none", "processed", "rejected"}]
  BY DEF Commit, TypeInv, TypeOK
<1>8. wipe' = wipe /\ catalogue' = catalogue
  BY DEF Commit
<1>9. TypeOK'
  BY <1>3, <1>4, <1>5, <1>6, <1>7, <1>8, CommitTables, CommitLog DEF TypeInv, TypeOK
<1> QED BY <1>2, <1>9, CommitLog, EndKeepsShape DEF TypeInv

LEMMA MarkWipeType ==
  ASSUME TypeInv, NEW u \in User, MarkUserDevicesForWipe(u)
  PROVE  TypeInv'
<1> DEFINE rows == {<<"device", d>> : d \in {x \in Device : Owner[x] = u}}
<1>1. rows \in SUBSET RowName
  BY DEF RowName
<1>2. log' = Append(log, Entry(Len(log), {}, {}, rows)) /\ Len(log) \in Nat
  BY DEF MarkUserDevicesForWipe, TypeInv, TypeOK
<1> HIDE DEF rows
<1>3. log' \in Seq(LogEntry) /\ Len(log) <= Len(log')
  BY <1>1, <1>2, EntryType DEF TypeInv
<1>4. session' = session /\ UNCHANGED <<attempts, ledger, progress, badges, streak, events, catalogue>>
  BY DEF MarkUserDevicesForWipe
<1>5. wipe' \in [Device -> BOOLEAN]
  <2>1. \A d \in Device : (d \in {x \in Device : Owner[x] = u} \/ wipe[d]) \in BOOLEAN
    OBVIOUS
  <2> QED BY <2>1 DEF MarkUserDevicesForWipe
<1>6. TypeOK'
  BY <1>3, <1>4, <1>5 DEF TypeInv, TypeOK
<1>7. ASSUME NEW t \in Session PROVE ShapeOf(t)'
  BY <1>3, <1>4, <1>6, ShapeKept, ShapeByCase DEF TypeInv
<1> QED BY <1>6, <1>7 DEF TypeInv, SessionShape, ShapeOf

LEMMA EditCatalogueType ==
  ASSUME TypeInv, NEW l \in Level, NEW v \in Difficulties \union {NotAvailable}, EditCatalogue(l, v)
  PROVE  TypeInv'
<1>1. catalogue' \in [Level -> Difficulties \union {NotAvailable}]
  BY DEF EditCatalogue, TypeInv, TypeOK
<1>2. UNCHANGED <<attempts, ledger, progress, badges, streak, events, wipe, log, session>>
  BY DEF EditCatalogue
<1>3. TypeOK'
  BY <1>1, <1>2 DEF TypeInv, TypeOK
<1>4. SessionShape'
  BY <1>2 DEF TypeInv, SessionShape, Acceptable
<1> QED BY <1>3, <1>4 DEF TypeInv

LEMMA TypeInit == Init => TypeInv
<1> SUFFICES ASSUME Init PROVE TypeInv
  OBVIOUS
<1>1. NoReply \in [status : Statuses, wipe : BOOLEAN]
  BY DEF NoReply, Statuses
<1>2. session \in [Session -> SessionRecord]
  BY <1>1, IdleRecord DEF Init
<1>3. /\ DOMAIN attempts = Key
      /\ \A k \in Key : attempts[k] \in [{} -> AttemptRow] /\ DOMAIN attempts[k] = {}
  BY DEF Init
<1>4. progress \in [User \X Level -> ProgressRow]
  BY DEF Init, NoProgress, ProgressRow
<1>5. log = <<>> /\ log \in Seq(LogEntry)
  BY DEF Init
<1>6. TypeOK
  BY <1>2, <1>3, <1>4, <1>5, FS_EmptySet DEF Init, TypeOK
<1>7. SessionShape
  BY DEF Init, SessionShape, IdleSession
<1> QED BY <1>6, <1>7 DEF TypeInv

LEMMA TypeStep == TypeInv /\ [Next]_vars => TypeInv'
<1> SUFFICES ASSUME TypeInv, [Next]_vars PROVE TypeInv'
  OBVIOUS
<1>1. CASE UNCHANGED vars
  BY <1>1 DEF vars, TypeInv, TypeOK, SessionShape, Acceptable
<1>2. ASSUME NEW s \in Session, NEW r \in Request,
             BeginSync(s, r) \/ BeginOnline(s, r)
      PROVE  TypeInv'
  BY <1>2, OpenShape DEF BeginSync, BeginOnline
<1>3. ASSUME NEW s \in Session, NEW r \in Request,
             RefuseDevice(s, r) \/ RefuseLevel(s, r)
      PROVE  TypeInv'
  BY <1>3, RollbackType, StatusType DEF RefuseDevice, RefuseLevel, Statuses
<1>4. ASSUME NEW s \in Session, AlreadyProcessed(s) \/ RejectionLost(s) \/ Abort(s)
      PROVE  TypeInv'
  BY <1>4, RollbackType, StatusType DEF AlreadyProcessed, RejectionLost, Abort, Statuses
<1> QED BY <1>1, <1>2, <1>3, <1>4, RecordEventType, RejectEventType, LockType, RunAttemptType,
           CommitType, EditCatalogueType, MarkWipeType DEF Next

\* Every reachable state is well typed, for all users, levels, requests and
\* numbers of concurrent sessions.
THEOREM TypeCorrect == Spec => []TypeOK
<1>1. Spec => []TypeInv
  BY TypeInit, TypeStep, PTL DEF Spec
<1>2. TypeInv => TypeOK
  BY DEF TypeInv
<1> QED BY <1>1, <1>2, PTL

(***************************************************************************)
(* How steps move the sessions.                                            *)
(***************************************************************************)

\* The step begins or ends a request of s: it holds no locks and no attempts.
Fresh(s) ==
  /\ session'[s].own = <<>> /\ session'[s].keys = {} /\ session'[s].rows = {}
  /\ session'[s].phase = "running" => session'[s].req.kind = "online"
  /\ \A t \in Session \ {s} : session'[t] = session[t]

LEMMA FreshOpen ==
  ASSUME TypeInv, NEW s \in Session, NEW r, NEW phase, Open(s, r, phase),
         phase = "running" => r.kind = "online"
  PROVE  Fresh(s)
<1>1. session \in [Session -> SessionRecord]
  BY DEF TypeInv, TypeOK
<1>2. \A t \in Session \ {s} : session'[t] = session[t]
  BY <1>1 DEF Open
<1>3. /\ session'[s].own = <<>> /\ session'[s].keys = {} /\ session'[s].rows = {}
      /\ session'[s].phase = phase /\ session'[s].req = r
  BY <1>1 DEF Open
<1> QED BY <1>2, <1>3 DEF Fresh

LEMMA FreshEnd ==
  ASSUME TypeInv, NEW s \in Session, NEW reply, End(s, reply)
  PROVE  Fresh(s)
<1>1. session \in [Session -> SessionRecord]
  BY DEF TypeInv, TypeOK
<1>2. \A t \in Session \ {s} : session'[t] = session[t]
  BY <1>1 DEF End
<1>3. session'[s] = IdleSession(reply)
  BY <1>1 DEF End
<1> QED BY <1>2, <1>3 DEF Fresh, IdleSession

\* Every step is one of these.
LEMMA StepCases ==
  ASSUME TypeInv, [Next]_vars
  PROVE  \/ \E s \in Session : Fresh(s) /\ UNCHANGED tables
         \/ \E s \in Session : Fresh(s) /\ RejectEvent(s)
         \/ \E s \in Session : Fresh(s) /\ Commit(s)
         \/ \E s \in Session : RecordEvent(s)
         \/ \E s \in Session : LockLevelAttempt(s)
         \/ \E s \in Session : RunAttempt(s)
         \/ UNCHANGED <<session, attempts, ledger, events>>
<1>1. CASE UNCHANGED vars
  BY <1>1 DEF vars
<1>2. ASSUME NEW s \in Session, NEW r \in Request,
             BeginSync(s, r) \/ BeginOnline(s, r)
      PROVE  Fresh(s) /\ UNCHANGED tables
  BY <1>2, FreshOpen DEF BeginSync, BeginOnline
<1>3. ASSUME NEW s \in Session, NEW r \in Request,
             RefuseDevice(s, r) \/ RefuseLevel(s, r)
      PROVE  Fresh(s) /\ UNCHANGED tables
  BY <1>3, FreshEnd DEF RefuseDevice, RefuseLevel
<1>4. ASSUME NEW s \in Session, AlreadyProcessed(s) \/ RejectionLost(s) \/ Abort(s)
      PROVE  Fresh(s) /\ UNCHANGED tables
  BY <1>4, FreshEnd DEF AlreadyProcessed, RejectionLost, Abort
<1>5. ASSUME NEW s \in Session, RejectEvent(s) PROVE Fresh(s)
  BY <1>5, FreshEnd DEF RejectEvent
<1>6. ASSUME NEW s \in Session, Commit(s) PROVE Fresh(s)
  BY <1>6, FreshEnd DEF Commit
<1>7. ASSUME NEW l \in Level, NEW v \in Difficulties \union {NotAvailable}, EditCatalogue(l, v)
      PROVE  UNCHANGED <<session, attempts, ledger, events>>
  BY <1>7 DEF EditCatalogue
<1>8. ASSUME NEW u \in User, MarkUserDevicesForWipe(u)
      PROVE  UNCHANGED <<session, attempts, ledger, events>>
  BY <1>8 DEF MarkUserDevicesForWipe
<1> QED BY <1>1, <1>2, <1>3, <1>4, <1>5, <1>6, <1>7, <1>8 DEF Next

LEMMA RecordEventFields ==
  ASSUME TypeInv, NEW s \in Session, RecordEvent(s)
  PROVE  /\ \A t \in Session \ {s} : session'[t] = session[t]
         /\ session'[s].own = <<>> /\ session[s].own = <<>>
         /\ session'[s].req = session[s].req
         /\ session'[s].keys = session[s].keys
         /\ session'[s].rows = session[s].rows \union {EventRow(s)}
<1>1. session \in [Session -> SessionRecord] /\ session[s] \in SessionRecord
  BY DEF TypeInv, TypeOK
<1>2. \A t \in Session \ {s} : session'[t] = session[t]
  BY <1>1 DEF RecordEvent
<1>3. session'[s] = [session[s] EXCEPT !.phase = "running", !.rows = @ \union {EventRow(s)}]
  BY <1>1 DEF RecordEvent
<1>4. session[s].own = <<>>
  BY DEF TypeInv, SessionShape, RecordEvent
<1> QED BY <1>1, <1>2, <1>3, <1>4 DEF SessionRecord

LEMMA LockFields ==
  ASSUME TypeInv, NEW s \in Session, LockLevelAttempt(s)
  PROVE  /\ \A t \in Session \ {s} : session'[t] = session[t]
         /\ session'[s].phase = session[s].phase
         /\ session'[s].own = session[s].own
         /\ session'[s].req = session[s].req
         /\ session'[s].seen = session[s].seen
         /\ session'[s].snap = session[s].snap
         /\ session'[s].rows = session[s].rows
         /\ session'[s].keys = session[s].keys \union {NextKey(s)}
<1>1. session \in [Session -> SessionRecord] /\ session[s] \in SessionRecord
  BY DEF TypeInv, TypeOK
<1>2. \A t \in Session \ {s} : session'[t] = session[t]
  BY <1>1 DEF LockLevelAttempt
<1>3. session'[s] = [session[s] EXCEPT !.keys = @ \union {NextKey(s)}]
  BY <1>1 DEF LockLevelAttempt
<1> QED BY <1>1, <1>2, <1>3 DEF SessionRecord

LEMMA RunAttemptFields ==
  ASSUME TypeInv, NEW s \in Session, RunAttempt(s)
  PROVE  /\ \A t \in Session \ {s} : session'[t] = session[t]
         /\ session'[s].phase = session[s].phase
         /\ session'[s].own = Append(session[s].own, [number |-> NextNumber(s), xp |-> NextXP(s)])
         /\ session'[s].req = session[s].req
         /\ session'[s].seen = session[s].seen
         /\ session'[s].snap = session[s].snap
         /\ session'[s].keys = session[s].keys
         /\ session'[s].rows = session[s].rows \union {NextRow(s)}
<1>1. session \in [Session -> SessionRecord] /\ session[s] \in SessionRecord
  BY DEF TypeInv, TypeOK
<1>2. \A t \in Session \ {s} : session'[t] = session[t]
  BY <1>1 DEF RunAttempt
<1>3. session'[s] = [session[s] EXCEPT
         !.own = Append(@, [number |-> NextNumber(s), xp |-> NextXP(s)]),
         !.gain = NextGain(s), !.rows = @ \union {NextRow(s)}]
  BY <1>1 DEF RunAttempt
<1> QED BY <1>1, <1>2, <1>3 DEF SessionRecord

(***************************************************************************)
(* Locks.                                                                  *)
(***************************************************************************)

\* No two sessions hold the advisory lock of a user, level and day.
LEMMA KeysStep ==
  ASSUME TypeInv, KeysExclusive, [Next]_vars
  PROVE  KeysExclusive'
<1>1. ASSUME NEW s \in Session, Fresh(s) PROVE KeysExclusive'
  BY <1>1 DEF KeysExclusive, Fresh
<1>2. ASSUME NEW s \in Session, RecordEvent(s) PROVE KeysExclusive'
  BY <1>2, RecordEventFields DEF KeysExclusive
<1>3. ASSUME NEW s \in Session, LockLevelAttempt(s) PROVE KeysExclusive'
  <2>1. \A t \in Session \ {s} : NextKey(s) \notin session[t].keys
    BY <1>3 DEF LockLevelAttempt
  <2> QED BY <1>3, <2>1, LockFields DEF KeysExclusive
<1>4. ASSUME NEW s \in Session, RunAttempt(s) PROVE KeysExclusive'
  <2>1. \A t \in Session : session'[t].keys = session[t].keys
    BY <1>4, RunAttemptFields
  <2> QED BY <2>1 DEF KeysExclusive
<1>5. CASE UNCHANGED <<session, attempts, ledger, events>>
  BY <1>5 DEF KeysExclusive
<1> QED BY <1>1, <1>2, <1>3, <1>4, <1>5, StepCases

\* A sync request that got past the event insert owns the event.
LEMMA EventsHeldStep ==
  ASSUME TypeInv, EventsHeld, [Next]_vars
  PROVE  EventsHeld'
<1> DEFINE Holds(t) == session[t].phase = "running" /\ session[t].req.kind = "sync" =>
                         /\ EventRow(t) \in session[t].rows
                         /\ events[session[t].req.event] = "none"
           Alone(t, u) == \A e \in Event :
                            ~(<<"event", e>> \in session[t].rows /\ <<"event", e>> \in session[u].rows)
<1>a. /\ \A t \in Session : Holds(t)
      /\ \A t, u \in Session : t # u => Alone(t, u)
  BY DEF EventsHeld
<1>b. ASSUME \A t \in Session : Holds(t)',
             \A t, u \in Session : t # u => Alone(t, u)'
      PROVE  EventsHeld'
  BY <1>b DEF EventsHeld
<1>1. ASSUME NEW s \in Session, Fresh(s) PROVE \A t, u \in Session : t # u => Alone(t, u)'
  BY <1>1, <1>a DEF Fresh
<1>2. ASSUME NEW s \in Session, Fresh(s), UNCHANGED tables PROVE EventsHeld'
  <2>1. Holds(s)'
    BY <1>2 DEF Fresh
  <2>2. ASSUME NEW t \in Session \ {s} PROVE Holds(t)'
    BY <1>2, <1>a DEF Fresh, EventRow, tables
  <2> QED BY <1>1, <1>2, <1>b, <2>1, <2>2
<1>3. ASSUME NEW s \in Session, Fresh(s), RejectEvent(s) \/ Commit(s) PROVE EventsHeld'
  <2>1. Holds(s)'
    BY <1>3 DEF Fresh
  <2>2. ASSUME NEW t \in Session \ {s}, session[t].phase = "running", session[t].req.kind = "sync"
        PROVE  events'[session[t].req.event] = "none"
    <3>1. session[s].phase = "running" /\ session[s].req \in Request /\ session[t].req \in Request
      BY <1>3, <2>2 DEF RejectEvent, Commit, TypeInv, SessionShape
    <3>2. session[t].req.event \in Event /\ events[session[t].req.event] = "none"
          /\ EventRow(t) \in session[t].rows
      BY <1>a, <2>2, <3>1, RequestShape
    <3>3. CASE session[s].req.kind = "sync"
      <4>1. EventRow(s) \in session[s].rows
        BY <1>a, <3>1, <3>3
      <4>2. session[s].req.event # session[t].req.event
        BY <1>a, <3>2, <4>1 DEF EventRow
      <4> QED BY <1>3, <3>2, <4>2 DEF RejectEvent, Commit, TypeInv, TypeOK
    <3>4. CASE session[s].req.kind # "sync"
      <4>1. session[s].req.event = NoEvent /\ NoEvent \notin Event
        BY <3>1, <3>4, RequestShape, ConstantsAssumption
      <4> QED BY <1>3, <3>2, <4>1 DEF RejectEvent, Commit, TypeInv, TypeOK
    <3> QED BY <3>3, <3>4
  <2>3. ASSUME NEW t \in Session \ {s} PROVE Holds(t)'
    BY <1>3, <1>a, <2>2 DEF Fresh, EventRow
  <2> QED BY <1>1, <1>3, <1>b, <2>1, <2>3
<1>4. ASSUME NEW s \in Session, RecordEvent(s) PROVE EventsHeld'
  <2>1. \A t \in Session \ {s} : EventRow(s) \notin session[t].rows
    BY <1>4 DEF RecordEvent, CanWrite
  <2>2. events' = events /\ events[session[s].req.event] = "none"
    BY <1>4 DEF RecordEvent, tables
  <2>3. ASSUME NEW t \in Session \ {s} PROVE Holds(t)'
    BY <1>4, <1>a, <2>2, RecordEventFields DEF EventRow
  <2>4. Holds(s)'
    BY <1>4, <2>2, RecordEventFields DEF EventRow
  <2>5. \A t, u \in Session : t # u => Alone(t, u)'
    <3> SUFFICES ASSUME NEW t \in Session, NEW u \in Session, t # u, NEW e \in Event,
                        <<"event", e>> \in session'[t].rows, <<"event", e>> \in session'[u].rows
                 PROVE  FALSE
      OBVIOUS
    <3> QED BY <1>4, <1>a, <2>1, RecordEventFields
  <2> QED BY <1>b, <2>3, <2>4, <2>5
<1>5. ASSUME NEW s \in Session, LockLevelAttempt(s) PROVE EventsHeld'
  <2>1. \A t \in Session : session'[t].phase = session[t].phase /\ session'[t].req = session[t].req
                           /\ session'[t].rows = session[t].rows
    BY <1>5, LockFields
  <2>2. events' = events
    BY <1>5 DEF LockLevelAttempt, tables
  <2> QED BY <1>a, <1>b, <2>1, <2>2 DEF EventRow
<1>6. ASSUME NEW s \in Session, RunAttempt(s) PROVE EventsHeld'
  <2>1. \A t \in Session : /\ session'[t].phase = session[t].phase /\ session'[t].req = session[t].req
                           /\ session[t].rows \subseteq session'[t].rows
                           /\ session'[t].rows \subseteq session[t].rows \union {NextRow(s)}
    BY <1>6, RunAttemptFields
  <2>2. events' = events
    BY <1>6 DEF RunAttempt, tables
  <2>3. \A e \in Event : <<"event", e>> # NextRow(s)
    <3>1. NextRow(s)[1] = "progress" /\ \A e \in Event : <<"event", e>>[1] = "event"
      BY DEF NextRow
    <3> QED BY <3>1
  <2>4. \A t \in Session : Holds(t)'
    BY <1>a, <2>1, <2>2 DEF EventRow
  <2>5. \A t, u \in Session : t # u => Alone(t, u)'
    BY <1>a, <2>1, <2>3
  <2> QED BY <1>b, <2>4, <2>5
<1>7. CASE UNCHANGED <<session, attempts, ledger, events>>
  BY <1>7, <1>a, <1>b DEF EventRow
<1> QED BY <1>2, <1>3, <1>4, <1>5, <1>6, <1>7, StepCases

(***************************************************************************)
(* Numbers.                                                                *)
(***************************************************************************)

LEMMA IntervalCardinality ==
  ASSUME NEW a \in Nat, NEW m \in Nat
  PROVE  /\ IsFiniteSet((a + 1)..(a + m))
         /\ Cardinality((a + 1)..(a + m)) = m
<1>1. IsFiniteSet((a + 1)..(a + m))
  BY FS_Interval
<1>2. Cardinality((a + 1)..(a + m)) =
        IF a + 1 > a + m THEN 0 ELSE (a + m) - (a + 1) + 1
  BY FS_Interval
<1> QED BY <1>1, <1>2

\* A session with the same attempts shows the same numbers.
LEMMA OwnKept ==
  ASSUME NEW t \in Session, NEW k,
         session'[t].own = session[t].own, session'[t].req = session[t].req
  PROVE  OwnIndices(t, k)' = OwnIndices(t, k) /\ OwnNumbers(t, k)' = OwnNumbers(t, k)
BY DEF OwnIndices, OwnNumbers

\* OwnContinue of one session and key.
ContinueAt(s, k) ==
  LET stored == Cardinality(DOMAIN attempts[k])
      mine   == Cardinality(OwnIndices(s, k))
  IN  OwnIndices(s, k) # {} =>
        /\ k \in session[s].keys
        /\ SeenAttempts(s, k) = DOMAIN attempts[k]
        /\ OwnNumbers(s, k) = (stored + 1)..(stored + mine)

LEMMA ContinueByCase == OwnContinue <=> \A s \in Session, k \in Key : ContinueAt(s, k)
BY DEF OwnContinue, ContinueAt

LEMMA ContinueKept ==
  ASSUME NEW t \in Session, NEW k \in Key, ContinueAt(t, k),
         session'[t].own = session[t].own, session'[t].req = session[t].req,
         session'[t].snap = session[t].snap, session[t].keys \subseteq session'[t].keys,
         OwnIndices(t, k) # {} => attempts'[k] = attempts[k]
  PROVE  ContinueAt(t, k)'
BY OwnKept DEF ContinueAt, SeenAttempts

\* How RunAttempt extends the attempts of its session.
LEMMA OwnExtended ==
  ASSUME TypeInv, NEW s \in Session, RunAttempt(s), NEW k \in Key
  PROVE  /\ k = NextKey(s) =>
              /\ Cardinality(OwnIndices(s, k)') = Cardinality(OwnIndices(s, k)) + 1
              /\ OwnNumbers(s, k)' = OwnNumbers(s, k) \union {NextNumber(s)}
         /\ k # NextKey(s) =>
              /\ OwnIndices(s, k)' = OwnIndices(s, k)
              /\ OwnNumbers(s, k)' = OwnNumbers(s, k)
<1> DEFINE q == session[s].own
           r == session[s].req
           n == Len(q) + 1
           new == [number |-> NextNumber(s), xp |-> NextXP(s)]
           Rec == [number : Nat \ {0}, xp : Nat]
<1>1. q \in Seq(Rec) /\ Len(q) \in Nat
  BY SessionFields DEF TypeInv, TypeOK
<1>2. session'[s].own = Append(q, new) /\ session'[s].req = r
  BY RunAttemptFields
<1>3. NextNumber(s) \in Nat \ {0} /\ NextXP(s) \in Nat
  BY NextAttempt DEF RunAttempt
<1>4. new \in Rec /\ new.number = NextNumber(s)
  BY <1>3
<1>5. NextKey(s) = KeyOf(r, n)
  BY DEF NextKey
<1> HIDE DEF q, new, Rec, n, r
<1>6. /\ DOMAIN q = 1..Len(q)
      /\ DOMAIN Append(q, new) = (DOMAIN q) \union {n}
      /\ n \notin DOMAIN q
      /\ Append(q, new)[n] = new
      /\ \A i \in DOMAIN q : Append(q, new)[i] = q[i]
  BY <1>1, <1>4 DEF n
<1>7. OwnIndices(s, k) = {i \in DOMAIN q : KeyOf(r, i) = k}
  BY DEF OwnIndices, q, r
<1>8. OwnIndices(s, k)' = {i \in (DOMAIN q) \union {n} : KeyOf(r, i) = k}
  BY <1>2, <1>6 DEF OwnIndices
<1>9. OwnNumbers(s, k) = {q[i].number : i \in OwnIndices(s, k)}
  BY DEF OwnNumbers, q
<1>10. OwnNumbers(s, k)' = {Append(q, new)[i].number : i \in OwnIndices(s, k)'}
  BY <1>2 DEF OwnNumbers
<1>11. CASE k = NextKey(s)
  <2>1. OwnIndices(s, k)' = OwnIndices(s, k) \union {n} /\ n \notin OwnIndices(s, k)
    BY <1>5, <1>6, <1>7, <1>8, <1>11
  <2>2. Cardinality(OwnIndices(s, k)') = Cardinality(OwnIndices(s, k)) + 1
    BY <2>1, OwnFinite, FS_AddElement
  <2>3. OwnNumbers(s, k)' = OwnNumbers(s, k) \union {NextNumber(s)}
    BY <1>4, <1>6, <1>7, <1>9, <1>10, <2>1
  <2> QED BY <1>11, <2>2, <2>3
<1>12. CASE k # NextKey(s)
  <2>1. OwnIndices(s, k)' = OwnIndices(s, k)
    BY <1>5, <1>6, <1>7, <1>8, <1>12
  <2>2. OwnNumbers(s, k)' = OwnNumbers(s, k)
    BY <1>6, <1>7, <1>9, <1>10, <2>1
  <2> QED BY <1>12, <2>1, <2>2
<1> QED BY <1>11, <1>12

\* The number an attempt gets continues the stored numbers and those the session
\* has given already.  A snapshot that misses stored attempts counts too few: the
\* number is taken and the unique constraint stops the session.
LEMMA NumberContinues ==
  ASSUME TypeInv, OwnContinue, AttemptsContiguous, NEW s \in Session, RunAttempt(s)
  PROVE  LET k == NextKey(s)
             stored == Cardinality(DOMAIN attempts[k])
         IN  /\ k \in Key
             /\ SeenAttempts(s, k) = DOMAIN attempts[k]
             /\ NextNumber(s) = stored + Cardinality(OwnIndices(s, k)) + 1
<1> DEFINE k == NextKey(s)
           stored == Cardinality(DOMAIN attempts[k])
           seen == Cardinality(SeenAttempts(s, k))
           mine == Cardinality(OwnIndices(s, k))
<1>1. k \in Key /\ NextNumber(s) = seen + mine + 1
  BY NextAttempt DEF RunAttempt, NextNumber, CountLevelAttemptsByDate
<1>2. /\ seen \in Nat /\ mine \in Nat /\ seen <= stored
      /\ SeenAttempts(s, k) \subseteq DOMAIN attempts[k]
  BY <1>1, SeenFinite, OwnFinite
<1>3. stored \in Nat /\ IsFiniteSet(DOMAIN attempts[k]) /\ DOMAIN attempts[k] = 1..stored
  BY <1>1, FS_CardinalityType DEF TypeInv, TypeOK, AttemptsContiguous
<1>4. CASE OwnIndices(s, k) # {}
  <2>1. SeenAttempts(s, k) = DOMAIN attempts[k]
    BY <1>1, <1>4, ContinueByCase DEF ContinueAt
  <2> QED BY <1>1, <2>1
<1>5. CASE OwnIndices(s, k) = {}
  <2>1. mine = 0
    BY <1>5, FS_EmptySet
  <2>2. NextNumber(s) \notin DOMAIN attempts[k]
    BY DEF RunAttempt
  <2> HIDE DEF k, stored, seen, mine
  <2>3. seen = stored
    BY <1>1, <1>2, <1>3, <2>1, <2>2
  <2>4. SeenAttempts(s, k) = DOMAIN attempts[k]
    BY <1>2, <1>3, <2>3, FS_Subset DEF seen, stored
  <2> QED BY <1>1, <2>1, <2>3, <2>4 DEF k, stored, seen, mine
<1> QED BY <1>4, <1>5

LEMMA OwnContinueStep ==
  ASSUME TypeInv, TypeInv', KeysExclusive, OwnContinue, AttemptsContiguous, [Next]_vars
  PROVE  OwnContinue'
<1>a. \A t \in Session, k \in Key : ContinueAt(t, k)
  BY ContinueByCase
<1>b. ASSUME \A t \in Session, k \in Key : ContinueAt(t, k)' PROVE OwnContinue'
  BY <1>b DEF OwnContinue, ContinueAt
<1>c. ASSUME NEW t \in Session, session'[t].own = <<>>, NEW k \in Key PROVE ContinueAt(t, k)'
  BY <1>c DEF ContinueAt, OwnIndices
<1>1. ASSUME NEW s \in Session, Fresh(s), UNCHANGED tables \/ RejectEvent(s)
      PROVE  OwnContinue'
  <2>1. attempts' = attempts
    BY <1>1 DEF tables, RejectEvent
  <2>2. ASSUME NEW t \in Session \ {s}, NEW k \in Key PROVE ContinueAt(t, k)'
    BY <1>1, <1>a, <2>1, ContinueKept DEF Fresh
  <2> QED BY <1>1, <1>b, <1>c, <2>2 DEF Fresh
<1>2. ASSUME NEW s \in Session, Fresh(s), Commit(s) PROVE OwnContinue'
  <2>1. ASSUME NEW t \in Session \ {s}, NEW k \in Key PROVE ContinueAt(t, k)'
    <3>1. OwnIndices(t, k) # {} => attempts'[k] = attempts[k]
      <4> SUFFICES ASSUME OwnIndices(t, k) # {} PROVE attempts'[k] = attempts[k]
        OBVIOUS
      <4>1. k \in session[t].keys /\ k \notin session[s].keys
        BY <1>a DEF ContinueAt, KeysExclusive
      <4>2. OwnIndices(s, k) = {}
        BY <1>a, <4>1 DEF ContinueAt
      <4>3. OwnNumbers(s, k) = {}
        BY <4>2 DEF OwnNumbers
      <4>4. attempts'[k] = [n \in DOMAIN attempts[k] |-> attempts[k][n]]
        BY <1>2, <4>3 DEF Commit, WithNewAttempts
      <4>5. attempts[k] = [n \in DOMAIN attempts[k] |-> attempts[k][n]]
        BY DEF TypeInv, TypeOK
      <4> QED BY <4>4, <4>5
    <3> QED BY <1>2, <1>a, <3>1, ContinueKept DEF Fresh
  <2> QED BY <1>2, <1>b, <1>c, <2>1 DEF Fresh
<1>3. ASSUME NEW s \in Session, RecordEvent(s) PROVE OwnContinue'
  <2>1. attempts' = attempts
    BY <1>3 DEF RecordEvent, tables
  <2>2. ASSUME NEW t \in Session \ {s}, NEW k \in Key PROVE ContinueAt(t, k)'
    BY <1>3, <1>a, <2>1, ContinueKept, RecordEventFields
  <2> QED BY <1>3, <1>b, <1>c, <2>2, RecordEventFields
<1>4. ASSUME NEW s \in Session, LockLevelAttempt(s) PROVE OwnContinue'
  <2>1. attempts' = attempts
    BY <1>4 DEF LockLevelAttempt, tables
  <2>2. ASSUME NEW t \in Session, NEW k \in Key PROVE ContinueAt(t, k)'
    <3>1. /\ session'[t].own = session[t].own /\ session'[t].req = session[t].req
          /\ session'[t].snap = session[t].snap /\ session[t].keys \subseteq session'[t].keys
      BY <1>4, LockFields
    <3> QED BY <1>a, <2>1, <3>1, ContinueKept
  <2> QED BY <1>b, <2>2
<1>5. ASSUME NEW s \in Session, RunAttempt(s) PROVE OwnContinue'
  <2>1. attempts' = attempts
    BY <1>5 DEF RunAttempt, tables
  <2>2. ASSUME NEW t \in Session \ {s}, NEW k \in Key PROVE ContinueAt(t, k)'
    BY <1>5, <1>a, <2>1, ContinueKept, RunAttemptFields
  <2>3. ASSUME NEW k \in Key, k # NextKey(s) PROVE ContinueAt(s, k)'
    <3>1. OwnIndices(s, k)' = OwnIndices(s, k) /\ OwnNumbers(s, k)' = OwnNumbers(s, k)
      BY <1>5, <2>3, OwnExtended
    <3>2. session'[s].keys = session[s].keys /\ session'[s].snap = session[s].snap
      BY <1>5, RunAttemptFields
    <3> QED BY <1>a, <2>1, <3>1, <3>2 DEF ContinueAt, SeenAttempts
  <2>4. ASSUME NEW k \in Key, k = NextKey(s) PROVE ContinueAt(s, k)'
    <3> DEFINE stored == Cardinality(DOMAIN attempts[k])
               mine == Cardinality(OwnIndices(s, k))
    <3>1. k \in session'[s].keys
      BY <1>5, <2>4, RunAttemptFields DEF RunAttempt
    <3>2. SeenAttempts(s, k) = DOMAIN attempts[k] /\ NextNumber(s) = stored + mine + 1
      BY <1>5, <2>4, NumberContinues
    <3>3. SeenAttempts(s, k)' = DOMAIN attempts'[k]
      BY <1>5, <2>1, <3>2, RunAttemptFields DEF SeenAttempts
    <3>4. stored \in Nat /\ mine \in Nat
      BY <2>4, OwnFinite, FS_CardinalityType DEF TypeInv, TypeOK
    <3>5. OwnNumbers(s, k) = (stored + 1)..(stored + mine)
      <4>1. CASE OwnIndices(s, k) = {}
        <5>1. OwnNumbers(s, k) = {} /\ mine = 0
          BY <4>1, FS_EmptySet DEF OwnNumbers
        <5> HIDE DEF stored, mine
        <5> QED BY <3>4, <5>1
      <4>2. CASE OwnIndices(s, k) # {}
        BY <1>a, <4>2 DEF ContinueAt
      <4> QED BY <4>1, <4>2
    <3>6. /\ Cardinality(OwnIndices(s, k)') = mine + 1
          /\ OwnNumbers(s, k)' = OwnNumbers(s, k) \union {NextNumber(s)}
      BY <1>5, <2>4, OwnExtended
    <3>7. OwnNumbers(s, k)' = (stored + 1)..(stored + (mine + 1))
      <4> HIDE DEF stored, mine
      <4> QED BY <3>2, <3>4, <3>5, <3>6
    <3> QED BY <2>1, <3>1, <3>3, <3>6, <3>7 DEF ContinueAt
  <2> QED BY <1>b, <2>2, <2>3, <2>4
<1>6. CASE UNCHANGED <<session, attempts, ledger, events>>
  BY <1>6, <1>a, <1>b, ContinueKept
<1> QED BY <1>1, <1>2, <1>3, <1>4, <1>5, <1>6, StepCases

(***************************************************************************)
(* Attempts, their points and the events that bring them.                  *)
(***************************************************************************)

LEMMA AttemptsContiguousStep ==
  ASSUME TypeInv, OwnContinue, AttemptsContiguous, [Next]_vars
  PROVE  AttemptsContiguous'
<1>1. CASE attempts' = attempts
  BY <1>1 DEF AttemptsContiguous
<1>2. ASSUME NEW s \in Session, Commit(s) PROVE AttemptsContiguous'
  <2> SUFFICES ASSUME NEW k \in Key
               PROVE  DOMAIN attempts'[k] = 1..Cardinality(DOMAIN attempts'[k])
    BY DEF AttemptsContiguous
  <2> DEFINE stored == Cardinality(DOMAIN attempts[k])
             mine == Cardinality(OwnIndices(s, k))
  <2>1. DOMAIN attempts'[k] = DOMAIN attempts[k] \union OwnNumbers(s, k)
    BY <1>2, CommitTables
  <2>2. DOMAIN attempts[k] = 1..stored /\ stored \in Nat /\ mine \in Nat
    BY OwnFinite, FS_CardinalityType DEF AttemptsContiguous, TypeInv, TypeOK
  <2>3. CASE OwnIndices(s, k) = {}
    <3>1. OwnNumbers(s, k) = {}
      BY <2>3 DEF OwnNumbers
    <3>2. DOMAIN attempts'[k] = DOMAIN attempts[k]
      BY <2>1, <3>1
    <3> QED BY <2>2, <3>2
  <2>4. CASE OwnIndices(s, k) # {}
    <3>1. OwnNumbers(s, k) = (stored + 1)..(stored + mine)
      BY <2>4, ContinueByCase DEF ContinueAt
    <3> HIDE DEF stored, mine
    <3>2. DOMAIN attempts'[k] = 1..(stored + mine)
      BY <2>1, <2>2, <3>1
    <3>3. Cardinality(1..(stored + mine)) = stored + mine
      <4>1. stored + mine \in Nat
        BY <2>2
      <4>2. Cardinality((0 + 1)..(0 + (stored + mine))) = stored + mine
        BY <4>1, IntervalCardinality
      <4>3. (0 + 1)..(0 + (stored + mine)) = 1..(stored + mine)
        BY <4>1
      <4> QED BY <4>2, <4>3
    <3> QED BY <3>2, <3>3
  <2> QED BY <2>3, <2>4
<1> QED BY <1>1, <1>2, StepCases
      DEF tables, RejectEvent, RecordEvent, LockLevelAttempt, RunAttempt

LEMMA OwnPointsStep ==
  ASSUME TypeInv, OwnPoints, [Next]_vars
  PROVE  OwnPoints'
<1> DEFINE PointsOf(t) ==
             \A i \in DOMAIN session[t].own :
               session[t].own[i].xp = ScheduledXP(session[t].seen[i], session[t].own[i].number,
                                                  session[t].req.items[i].completed)
<1>a. \A t \in Session : PointsOf(t)
  BY DEF OwnPoints
<1>b. ASSUME \A t \in Session : PointsOf(t)' PROVE OwnPoints'
  BY <1>b DEF OwnPoints
<1>c. ASSUME NEW t \in Session, session'[t].own = <<>> PROVE PointsOf(t)'
  BY <1>c
<1>d. ASSUME NEW t \in Session, session'[t] = session[t] PROVE PointsOf(t)'
  BY <1>a, <1>d
<1> HIDE DEF PointsOf
<1>1. ASSUME NEW s \in Session, Fresh(s) PROVE OwnPoints'
  BY <1>1, <1>b, <1>c, <1>d DEF Fresh
<1>2. ASSUME NEW s \in Session, RecordEvent(s) PROVE OwnPoints'
  BY <1>2, <1>b, <1>c, <1>d, RecordEventFields
<1>3. ASSUME NEW s \in Session, LockLevelAttempt(s) PROVE OwnPoints'
  <2>1. PointsOf(s)'
    BY <1>3, <1>a, LockFields DEF PointsOf
  <2> QED BY <1>3, <1>b, <1>d, <2>1, LockFields
<1>4. ASSUME NEW s \in Session, RunAttempt(s) PROVE OwnPoints'
  <2> DEFINE q == session[s].own
             new == [number |-> NextNumber(s), xp |-> NextXP(s)]
             n == Len(q) + 1
             Rec == [number : Nat \ {0}, xp : Nat]
  <2>1. q \in Seq(Rec) /\ Len(q) \in Nat
    BY SessionFields DEF TypeInv, TypeOK
  <2>2. /\ session'[s].own = Append(q, new)
        /\ session'[s].req = session[s].req
        /\ session'[s].seen = session[s].seen
    BY <1>4, RunAttemptFields
  <2>3. /\ NextXP(s) = ScheduledXP(session[s].seen[n], NextNumber(s), session[s].req.items[n].completed)
        /\ NextNumber(s) \in Nat \ {0} /\ NextXP(s) \in Nat
    BY <1>4, NextAttempt DEF RunAttempt
  <2>4. new \in Rec /\ new.number = NextNumber(s) /\ new.xp = NextXP(s)
    BY <2>3
  <2> HIDE DEF q, new, Rec
  <2>5. /\ DOMAIN Append(q, new) = (DOMAIN q) \union {n}
        /\ Append(q, new)[n] = new
        /\ \A i \in DOMAIN q : Append(q, new)[i] = q[i]
    BY <2>1, <2>4
  <2> HIDE DEF n
  <2>6. \A i \in DOMAIN q :
          q[i].xp = ScheduledXP(session[s].seen[i], q[i].number, session[s].req.items[i].completed)
    BY <1>a DEF PointsOf, q
  <2>7. PointsOf(s)'
    BY <2>2, <2>3, <2>4, <2>5, <2>6 DEF PointsOf
  <2> QED BY <1>4, <1>b, <1>d, <2>7, RunAttemptFields
<1>5. CASE UNCHANGED <<session, attempts, ledger, events>>
  BY <1>5, <1>b, <1>d
<1> QED BY <1>1, <1>2, <1>3, <1>4, <1>5, StepCases

LEMMA PointsFollowNumberStep ==
  ASSUME TypeInv, OwnPoints, PointsFollowNumber, [Next]_vars
  PROVE  PointsFollowNumber'
<1>1. CASE attempts' = attempts
  BY <1>1 DEF PointsFollowNumber
<1>2. ASSUME NEW s \in Session, Commit(s) PROVE PointsFollowNumber'
  <2> SUFFICES ASSUME NEW k \in Key, NEW n \in DOMAIN attempts'[k]
               PROVE  attempts'[k][n].xp =
                        ScheduledXP(attempts'[k][n].difficulty, n, attempts'[k][n].completed)
    BY DEF PointsFollowNumber
  <2>1. CASE n \in DOMAIN attempts[k]
    BY <1>2, <2>1, CommitTables DEF PointsFollowNumber
  <2>2. CASE n \notin DOMAIN attempts[k]
    <3>1. attempts'[k][n] = NewRow(s, k, n) /\ n \in OwnNumbers(s, k)
      BY <1>2, <2>2, CommitTables
    <3>2. PICK i \in OwnIndices(s, k) :
            /\ session[s].own[i].number = n
            /\ NewRow(s, k, n) =
                 [xp |-> session[s].own[i].xp, completed |-> session[s].req.items[i].completed,
                  difficulty |-> session[s].seen[i], at |-> Len(log) + 1]
      BY <3>1, NewRowType
    <3>3. session[s].own[i].xp = ScheduledXP(session[s].seen[i], n, session[s].req.items[i].completed)
      BY <3>2 DEF OwnPoints, OwnIndices
    <3> QED BY <3>1, <3>2, <3>3
  <2> QED BY <2>1, <2>2
<1> QED BY <1>1, <1>2, StepCases
      DEF tables, RejectEvent, RecordEvent, LockLevelAttempt, RunAttempt

LEMMA EventCreditedOnceStep ==
  ASSUME TypeInv, EventsHeld, EventCreditedOnce, [Next]_vars
  PROVE  EventCreditedOnce'
<1>1. CASE UNCHANGED <<ledger, events>>
  BY <1>1 DEF EventCreditedOnce
<1>a. ASSUME NEW s \in Session, RejectEvent(s) \/ Commit(s)
      PROVE  /\ session[s].phase = "running" /\ session[s].req \in Request
             /\ session[s].req.kind = "sync" =>
                  /\ session[s].req.event \in Event
                  /\ events[session[s].req.event] = "none"
                  /\ \A x \in ledger : x.event # session[s].req.event
             /\ session[s].req.kind # "sync" =>
                  session[s].req.event = NoEvent /\ NoEvent \notin Event
  <2>1. session[s].phase = "running" /\ session[s].req \in Request
    BY <1>a DEF RejectEvent, Commit, TypeInv, SessionShape
  <2>2. CASE session[s].req.kind = "sync"
    <3>1. session[s].req.event \in Event /\ events[session[s].req.event] = "none"
      BY <2>1, <2>2, RequestShape DEF EventsHeld
    <3>2. \A x \in ledger : x.event # session[s].req.event
      BY <3>1, ConstantsAssumption DEF EventCreditedOnce
    <3> QED BY <2>1, <2>2, <3>1, <3>2
  <2>3. CASE session[s].req.kind # "sync"
    BY <2>1, <2>3, RequestShape, ConstantsAssumption
  <2> QED BY <2>2, <2>3
<1>2. ASSUME NEW s \in Session, RejectEvent(s) PROVE EventCreditedOnce'
  <2>1. ledger' = ledger
    BY <1>2 DEF RejectEvent
  <2>2. \A x \in ledger : x.event # NoEvent => events'[x.event] = events[x.event]
    BY <1>2, <1>a DEF RejectEvent, TypeInv, TypeOK, LedgerRow
  <2> QED BY <2>1, <2>2 DEF EventCreditedOnce
<1>3. ASSUME NEW s \in Session, Commit(s) PROVE EventCreditedOnce'
  <2> DEFINE e == session[s].req.event
  <2>1. ledger' = ledger \union NewLedgerRows(s)
    BY <1>3 DEF Commit
  <2>2. \A x \in ledger : x.event # NoEvent => events'[x.event] = "processed"
    <3>1. CASE session[s].req.kind = "sync"
      BY <1>3, <1>a, <3>1 DEF Commit, TypeInv, TypeOK, LedgerRow, EventCreditedOnce
    <3>2. CASE session[s].req.kind # "sync"
      BY <1>3, <3>2 DEF Commit, EventCreditedOnce
    <3> QED BY <3>1, <3>2
  <2>3. \A x \in NewLedgerRows(s) : x.event = e /\ x.at = Len(log) + 1
    BY DEF NewLedgerRows
  <2>4. \A x, y \in NewLedgerRows(s) : x.item = y.item => x = y
    BY DEF NewLedgerRows
  <2>5. e # NoEvent => events'[e] = "processed" /\ \A x \in ledger : x.event # e
    BY <1>3, <1>a DEF Commit, TypeInv, TypeOK
  <2> HIDE DEF e
  <2>6. \A x \in ledger' : x.event # NoEvent => events'[x.event] = "processed"
    BY <2>1, <2>2, <2>3, <2>5
  <2>7. \A x, y \in ledger' : x.event # NoEvent /\ x.event = y.event =>
          x.at = y.at /\ (x.item = y.item => x = y)
    BY <2>1, <2>3, <2>4, <2>5 DEF EventCreditedOnce
  <2> QED BY <2>6, <2>7 DEF EventCreditedOnce
<1> QED BY <1>1, <1>2, <1>3, StepCases
      DEF tables, RecordEvent, LockLevelAttempt, RunAttempt

(***************************************************************************)
(* The wipe order.                                                         *)
(***************************************************************************)

\* What a session read at its first statement stays with it until it ends.
Working(s) ==
  /\ session[s].phase # "idle"
  /\ session'[s].req = session[s].req
  /\ session'[s].snap = session[s].snap
  /\ session'[s].wipe = session[s].wipe
  /\ session'[s].reply = session[s].reply
  /\ \A t \in Session \ {s} : session'[t] = session[t]

LEMMA WorkingSteps ==
  ASSUME TypeInv, NEW s \in Session, RecordEvent(s) \/ LockLevelAttempt(s) \/ RunAttempt(s)
  PROVE  Working(s) /\ UNCHANGED tables
<1>1. session \in [Session -> SessionRecord] /\ session[s] \in SessionRecord
  BY DEF TypeInv, TypeOK
<1>2. \A t \in Session \ {s} : session'[t] = session[t]
  BY <1>1 DEF RecordEvent, LockLevelAttempt, RunAttempt
<1>3. session[s].phase # "idle" /\ UNCHANGED tables
  BY DEF RecordEvent, LockLevelAttempt, RunAttempt, MoreAttempts
<1>4. /\ session'[s].req = session[s].req
      /\ session'[s].snap = session[s].snap
      /\ session'[s].wipe = session[s].wipe
      /\ session'[s].reply = session[s].reply
  <2>1. CASE RecordEvent(s)
    <3>1. session'[s] = [session[s] EXCEPT !.phase = "running", !.rows = @ \union {EventRow(s)}]
      BY <1>1, <2>1 DEF RecordEvent
    <3> QED BY <1>1, <3>1 DEF SessionRecord
  <2>2. CASE LockLevelAttempt(s)
    <3>1. session'[s] = [session[s] EXCEPT !.keys = @ \union {NextKey(s)}]
      BY <1>1, <2>2 DEF LockLevelAttempt
    <3> QED BY <1>1, <3>1 DEF SessionRecord
  <2>3. CASE RunAttempt(s)
    <3>1. session'[s] = [session[s] EXCEPT
             !.own = Append(@, [number |-> NextNumber(s), xp |-> NextXP(s)]),
             !.gain = NextGain(s), !.rows = @ \union {NextRow(s)}]
      BY <1>1, <2>3 DEF RunAttempt
    <3> QED BY <1>1, <3>1 DEF SessionRecord
  <2> QED BY <2>1, <2>2, <2>3
<1> QED BY <1>2, <1>3, <1>4 DEF Working

\* WipeSeen of one session.
WipeSeenBy(s) ==
  session[s].phase # "idle" =>
    /\ session[s].reply = NoReply
    /\ session[s].req.kind = "sync" =>
         \/ session[s].wipe = wipe[session[s].req.device]
         \/ \E c \in (session[s].snap + 1)..Len(log) :
              <<"device", session[s].req.device>> \in log[c].rows

LEMMA WipeSeenByCase == WipeSeen <=> \A s \in Session : WipeSeenBy(s)
BY DEF WipeSeen, WipeSeenBy

\* The log only grows at its end.
LogGrows == /\ Len(log) <= Len(log')
            /\ \A c \in 1..Len(log) : log'[c] = log[c]

LEMMA WipeKept ==
  ASSUME TypeInv, TypeInv', NEW t \in Session, WipeSeenBy(t), LogGrows, wipe' = wipe,
         session[t].phase # "idle",
         session'[t].req = session[t].req, session'[t].snap = session[t].snap,
         session'[t].wipe = session[t].wipe, session'[t].reply = session[t].reply
  PROVE  WipeSeenBy(t)'
<1>1. session[t].snap \in Nat /\ Len(log) \in Nat /\ Len(log') \in Nat
  BY SessionFields DEF TypeInv, TypeOK
<1>2. \A c \in (session[t].snap + 1)..Len(log) :
        c \in (session[t].snap + 1)..Len(log') /\ log'[c] = log[c]
  BY <1>1 DEF LogGrows
<1> QED BY <1>2 DEF WipeSeenBy

LEMMA LogAppended ==
  ASSUME TypeInv, NEW e, log' = Append(log, e)
  PROVE  LogGrows /\ Len(log') = Len(log) + 1 /\ log'[Len(log) + 1] = e
<1>1. log \in Seq(LogEntry)
  BY DEF TypeInv, TypeOK
<1> QED BY <1>1 DEF LogGrows

LEMMA WipeSeenStep ==
  ASSUME TypeInv, TypeInv', WipeSeen, [Next]_vars
  PROVE  WipeSeen'
<1>a. \A t \in Session : WipeSeenBy(t)
  BY WipeSeenByCase
<1>b. ASSUME \A t \in Session : WipeSeenBy(t)' PROVE WipeSeen'
  BY <1>b DEF WipeSeen, WipeSeenBy
<1>c. ASSUME NEW t \in Session, session'[t] = session[t], LogGrows, wipe' = wipe
      PROVE  WipeSeenBy(t)'
  <2>1. CASE session[t].phase = "idle"
    BY <1>c, <2>1 DEF WipeSeenBy
  <2>2. CASE session[t].phase # "idle"
    BY <1>a, <1>c, <2>2, WipeKept
  <2> QED BY <2>1, <2>2
<1>d. UNCHANGED tables => LogGrows /\ wipe' = wipe
  BY DEF tables, LogGrows, TypeInv, TypeOK
<1>1. ASSUME NEW s \in Session, NEW r \in Request, NEW phase,
             Open(s, r, phase), UNCHANGED tables
      PROVE  WipeSeen'
  <2>1. /\ session'[s].reply = NoReply /\ session'[s].req = r
        /\ session'[s].wipe = IF r.kind = "sync" THEN wipe[r.device] ELSE FALSE
    BY <1>1 DEF Open, TypeInv, TypeOK
  <2>2. WipeSeenBy(s)'
    BY <1>1, <2>1 DEF WipeSeenBy, tables
  <2>3. \A t \in Session \ {s} : session'[t] = session[t]
    BY <1>1 DEF Open, TypeInv, TypeOK
  <2> QED BY <1>1, <1>b, <1>c, <1>d, <2>2, <2>3
<1>2. ASSUME NEW s \in Session, NEW reply, End(s, reply), LogGrows, wipe' = wipe
      PROVE  WipeSeen'
  <2>1. session'[s].phase = "idle" /\ \A t \in Session \ {s} : session'[t] = session[t]
    BY <1>2 DEF End, IdleSession, TypeInv, TypeOK
  <2>2. WipeSeenBy(s)'
    BY <2>1 DEF WipeSeenBy
  <2> QED BY <1>2, <1>b, <1>c, <2>1, <2>2
<1>3. ASSUME NEW s \in Session, Working(s), UNCHANGED tables PROVE WipeSeen'
  <2>1. WipeSeenBy(s)'
    BY <1>3, <1>a, <1>d, WipeKept DEF Working
  <2> QED BY <1>3, <1>b, <1>c, <1>d, <2>1 DEF Working
<1>4. ASSUME NEW u \in User, MarkUserDevicesForWipe(u) PROVE WipeSeen'
  <2> DEFINE rows == {<<"device", d>> : d \in {x \in Device : Owner[x] = u}}
  <2>1. log' = Append(log, Entry(Len(log), {}, {}, rows)) /\ session' = session
    BY <1>4 DEF MarkUserDevicesForWipe
  <2>2. /\ LogGrows /\ Len(log') = Len(log) + 1 /\ Len(log) \in Nat
        /\ log'[Len(log) + 1].rows = rows
    <3> DEFINE e == Entry(Len(log), {}, {}, rows)
    <3>1. e.rows = rows
      BY DEF Entry
    <3>2. Len(log) \in Nat
      BY DEF TypeInv, TypeOK
    <3>3. log' = Append(log, e)
      BY <2>1
    <3> HIDE DEF e, rows
    <3> QED BY <3>1, <3>2, <3>3, LogAppended
  <2>3. \A d \in Device : Owner[d] # u => wipe'[d] = wipe[d]
    <3>1. \A d \in Device : wipe'[d] = (d \in {x \in Device : Owner[x] = u} \/ wipe[d])
      BY <1>4 DEF MarkUserDevicesForWipe
    <3>2. \A d \in Device : wipe[d] \in BOOLEAN
      BY DEF TypeInv, TypeOK
    <3> QED BY <3>1, <3>2
  <2> HIDE DEF rows
  <2>4. ASSUME NEW t \in Session, session[t].phase # "idle" PROVE WipeSeenBy(t)'
    <3> DEFINE d == session[t].req.device
    <3>1. session[t].req \in Request /\ session[t].snap <= Len(log) /\ session[t].snap \in Nat
      BY <2>4, SessionFields DEF TypeInv, TypeOK, SessionShape
    <3>2. CASE session[t].req.kind # "sync"
      BY <1>a, <2>1, <2>4, <3>2 DEF WipeSeenBy
    <3>3. CASE session[t].req.kind = "sync" /\ Owner[d] = u
      <4>1. <<"device", d>> \in log'[Len(log) + 1].rows
        BY <2>2, <3>1, <3>3, RequestShape DEF rows
      <4>2. Len(log) + 1 \in (session[t].snap + 1)..Len(log')
        BY <2>2, <3>1
      <4> QED BY <1>a, <2>1, <2>4, <4>1, <4>2 DEF WipeSeenBy
    <3>4. CASE session[t].req.kind = "sync" /\ Owner[d] # u
      <4>1. wipe'[d] = wipe[d]
        BY <2>3, <3>1, <3>4, RequestShape
      <4>2. \A c \in (session[t].snap + 1)..Len(log) :
              c \in (session[t].snap + 1)..Len(log') /\ log'[c] = log[c]
        BY <2>2, <3>1 DEF LogGrows
      <4> QED BY <1>a, <2>1, <2>4, <4>1, <4>2 DEF WipeSeenBy
    <3> QED BY <3>2, <3>3, <3>4
  <2>5. ASSUME NEW t \in Session PROVE WipeSeenBy(t)'
    <3>1. CASE session[t].phase = "idle"
      BY <2>1, <3>1 DEF WipeSeenBy
    <3> QED BY <2>4, <3>1
  <2> QED BY <1>b, <2>5
<1>5. CASE UNCHANGED vars
  BY <1>5, <1>b, <1>c, <1>d DEF vars, tables
<1>6. ASSUME NEW s \in Session, NEW r \in Request, BeginSync(s, r) \/ BeginOnline(s, r)
      PROVE  WipeSeen'
  BY <1>1, <1>6 DEF BeginSync, BeginOnline
<1>7. ASSUME NEW s \in Session, NEW r \in Request, RefuseDevice(s, r) \/ RefuseLevel(s, r)
      PROVE  WipeSeen'
  BY <1>2, <1>7, <1>d DEF RefuseDevice, RefuseLevel
<1>8. ASSUME NEW s \in Session, AlreadyProcessed(s) \/ RejectionLost(s) \/ Abort(s)
      PROVE  WipeSeen'
  BY <1>2, <1>8, <1>d DEF AlreadyProcessed, RejectionLost, Abort
<1>9. ASSUME NEW s \in Session, RejectEvent(s) \/ Commit(s) PROVE WipeSeen'
  BY <1>2, <1>9, LogAppended DEF RejectEvent, Commit
<1>10. ASSUME NEW s \in Session, RecordEvent(s) \/ LockLevelAttempt(s) \/ RunAttempt(s)
       PROVE  WipeSeen'
  BY <1>3, <1>10, WorkingSteps
<1>11. ASSUME NEW l \in Level, NEW v \in Difficulties \union {NotAvailable}, EditCatalogue(l, v)
       PROVE  WipeSeen'
  <2>1. session' = session /\ wipe' = wipe /\ LogGrows
    BY <1>11 DEF EditCatalogue, LogGrows, TypeInv, TypeOK
  <2> QED BY <1>b, <1>c, <2>1
<1> QED BY <1>4, <1>5, <1>6, <1>7, <1>8, <1>9, <1>10, <1>11 DEF Next

(***************************************************************************)
(* The inductive invariant.                                                *)
(***************************************************************************)

LEMMA NumberingInvInit == Init => NumberingInv
<1> SUFFICES ASSUME Init PROVE NumberingInv
  OBVIOUS
<1>1. TypeOK /\ SessionShape
  BY TypeInit DEF TypeInv
<1>2. \A s \in Session : session[s].own = <<>> /\ session[s].keys = {} /\ session[s].rows = {}
                         /\ session[s].phase = "idle"
  BY DEF Init, IdleSession
<1>3. \A s \in Session, k \in Key : OwnIndices(s, k) = {}
  BY <1>2 DEF OwnIndices
<1>4. KeysExclusive /\ EventsHeld /\ OwnContinue /\ OwnPoints
  BY <1>2, <1>3 DEF KeysExclusive, EventsHeld, OwnContinue, OwnPoints
<1>5. \A k \in Key : DOMAIN attempts[k] = {}
  BY DEF Init
<1>6. AttemptsContiguous
  <2>1. Cardinality({}) = 0 /\ 1..0 = {}
    BY FS_EmptySet
  <2> QED BY <1>5, <2>1 DEF AttemptsContiguous
<1>7. PointsFollowNumber /\ EventCreditedOnce
  BY <1>5 DEF PointsFollowNumber, EventCreditedOnce, Init
<1>8. WipeSeen
  BY <1>2 DEF WipeSeen
<1> QED BY <1>1, <1>4, <1>6, <1>7, <1>8 DEF NumberingInv

LEMMA NumberingInvStep == NumberingInv /\ [Next]_vars => NumberingInv'
<1> SUFFICES ASSUME NumberingInv, [Next]_vars PROVE NumberingInv'
  OBVIOUS
<1>1. TypeInv
  BY DEF NumberingInv, TypeInv
<1>2. TypeInv'
  BY <1>1, TypeStep
<1> USE DEF NumberingInv
<1>3. KeysExclusive' /\ EventsHeld'
  BY <1>1, KeysStep, EventsHeldStep
<1>4. OwnContinue' /\ OwnPoints'
  BY <1>1, <1>2, OwnContinueStep, OwnPointsStep
<1>5. AttemptsContiguous' /\ PointsFollowNumber' /\ EventCreditedOnce'
  BY <1>1, AttemptsContiguousStep, PointsFollowNumberStep, EventCreditedOnceStep
<1>6. WipeSeen'
  BY <1>1, <1>2, WipeSeenStep
<1> QED BY <1>2, <1>3, <1>4, <1>5, <1>6 DEF TypeInv

\* The strengthening that the three results below need: it relates the work in
\* progress of every session to the tables, and it is preserved by every step.
THEOREM NumberingInvariance == Spec => []NumberingInv
BY NumberingInvInit, NumberingInvStep, PTL DEF Spec

\* RF15: the attempts of a user at a level on a day are numbered 1, 2, 3 ... with
\* no gap and no number twice, however many requests run at once.
THEOREM Numbering == Spec => []AttemptsContiguous
<1>1. NumberingInv => AttemptsContiguous
  BY DEF NumberingInv
<1> QED BY <1>1, NumberingInvariance, PTL

\* RF15: every stored attempt has the points its number of the day deserves,
\* although it was scored inside a transaction others could not see.
THEOREM Scoring == Spec => []PointsFollowNumber
<1>1. NumberingInv => PointsFollowNumber
  BY DEF NumberingInv
<1> QED BY <1>1, NumberingInvariance, PTL

\* A sync event that is sent again, at the same time or later, is credited once.
THEOREM Idempotence == Spec => []EventCreditedOnce
<1>1. NumberingInv => EventCreditedOnce
  BY DEF NumberingInv
<1> QED BY <1>1, NumberingInvariance, PTL

\* A session can only answer "synced" by committing, and it can only commit if
\* nobody changed the row of its device since it read the wipe flag.
LEMMA WipeDeliveredStep ==
  ASSUME NumberingInv, Next, NEW s \in Session,
         session[s].phase = "running", session'[s].reply.status = "synced"
  PROVE  session'[s].reply.wipe = wipe'[session[s].req.device]
<1>a. TypeInv /\ session[s].reply.status # "synced"
  <2>1. session[s].reply = NoReply
    BY DEF NumberingInv, WipeSeen
  <2>2. TypeInv
    BY DEF NumberingInv, TypeInv
  <2> QED BY <2>1, <2>2 DEF NoReply
<1>1. session'[s] # session[s]
  BY <1>a
<1>2. \A t \in Session \ {s} : \A reply : ~End(t, reply)
  BY <1>1, <1>a DEF End, TypeInv, TypeOK
<1>3. \A x \in Statuses \ {"synced"} : ~End(s, Status(x))
  BY <1>a DEF End, Status, IdleSession, TypeInv, TypeOK
<1>4. \A t \in Session : ~(RecordEvent(t) \/ LockLevelAttempt(t) \/ RunAttempt(t))
  BY <1>1, <1>a, WorkingSteps DEF Working
<1>5. \A t \in Session, r \in Request : ~(BeginSync(t, r) \/ BeginOnline(t, r))
  BY <1>1, <1>a DEF BeginSync, BeginOnline, Open, TypeInv, TypeOK
<1>6. \A t \in Session, r \in Request : ~(RefuseDevice(t, r) \/ RefuseLevel(t, r))
  BY <1>2, <1>3 DEF RefuseDevice, RefuseLevel, Statuses
<1>7. \A t \in Session : ~(AlreadyProcessed(t) \/ RejectEvent(t) \/ RejectionLost(t) \/ Abort(t))
  BY <1>2, <1>3 DEF AlreadyProcessed, RejectEvent, RejectionLost, Abort, Statuses
<1>8. /\ \A l \in Level, v \in Difficulties \union {NotAvailable} : ~EditCatalogue(l, v)
      /\ \A u \in User : ~MarkUserDevicesForWipe(u)
  BY <1>1 DEF EditCatalogue, MarkUserDevicesForWipe
<1>9. Commit(s)
  <2>1. \A t \in Session \ {s} : ~Commit(t)
    BY <1>2 DEF Commit
  <2> QED BY <1>4, <1>5, <1>6, <1>7, <1>8, <2>1 DEF Next
<1> DEFINE d == session[s].req.device
<1>10. /\ session'[s].reply.status = IF session[s].req.kind = "sync" THEN "synced" ELSE "completed"
       /\ session'[s].reply.wipe = session[s].wipe
  BY <1>9, <1>a DEF Commit, End, IdleSession, TypeInv, TypeOK
<1>11. session[s].req.kind = "sync"
  BY <1>10
<1>12. \A c \in (session[s].snap + 1)..Len(log) : <<"device", d>> \notin log[c].rows
  BY <1>9, <1>11 DEF Commit, LastRows, CanWrite
<1>13. session[s].wipe = wipe[d]
  BY <1>11, <1>12 DEF NumberingInv, WipeSeen
<1> QED BY <1>9, <1>10, <1>13 DEF Commit

\* Whatever happens between the read of the wipe flag and the commit, the answer
\* "synced" carries the order that stands: TouchDevice conflicts with the marking.
THEOREM WipeDelivered == Spec => SyncedCarriesWipe
<1> DEFINE A == \A s \in Session :
                  session[s].phase = "running" /\ session'[s].reply.status = "synced"
                    => session'[s].reply.wipe = wipe'[session[s].req.device]
<1>1. NumberingInv /\ [Next]_vars => [A]_vars
  BY WipeDeliveredStep
<1>2. SyncedCarriesWipe <=> [][A]_vars
  BY DEF SyncedCarriesWipe
<1> HIDE DEF A
<1> QED BY <1>1, <1>2, NumberingInvariance, PTL DEF Spec
=============================================================================
