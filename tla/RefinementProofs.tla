-------------------------- MODULE RefinementProofs --------------------------
(***************************************************************************)
(* The transactions of Progress implement ProgressAbs: every commit is one *)
(* batch credited, or one event rejected, in the order of the log.         *)
(***************************************************************************)
EXTENDS TotalsProofs

\* The board and the totals that the abstract specification sees.
Board == [k \in Key |-> [n \in DOMAIN attempts[k] |->
            [completed |-> attempts[k][n].completed, difficulty |-> attempts[k][n].difficulty]]]
Total == [u \in User |-> XPOf(UserLedger(u))]

(***************************************************************************)
(* The points of a board are those of the ledger.                          *)
(***************************************************************************)

\* The abstract specification has its own copies of the operators it extends.
LEMMA SameSum == \A f : Abs!SumFunction(f) = SumFunction(f)
BY DEF Abs!SumFunction, Abs!SumFunctionOnSet, Abs!FoldFunctionOnSet, Abs!MapThenFoldSet,
       SumFunction, SumFunctionOnSet, FoldFunctionOnSet, MapThenFoldSet

LEMMA SameCardinality == \A S : Abs!Cardinality(S) = Cardinality(S)
BY DEF Abs!Cardinality, Cardinality

LEMMA SameScore == \A d, n, c : Abs!ScheduledXP(d, n, c) = ScheduledXP(d, n, c)
BY DEF Abs!ScheduledXP, Abs!Percent, ScheduledXP, Percent

LEMMA BoardScore ==
  ASSUME PointsFollowNumber, NEW k \in Key
  PROVE  Abs!BoardPoints(Board[k]) = StoredXP(k)
<1> DEFINE b == Board[k]
           f == [n \in DOMAIN b |-> Abs!ScheduledXP(b[n].difficulty, n, b[n].completed)]
           g == [n \in DOMAIN attempts[k] |-> attempts[k][n].xp]
<1>1. DOMAIN b = DOMAIN attempts[k]
  BY DEF Board
<1>2. \A n \in DOMAIN attempts[k] :
        b[n].difficulty = attempts[k][n].difficulty /\ b[n].completed = attempts[k][n].completed
  BY DEF Board
<1>3. \A n \in DOMAIN attempts[k] : f[n] = g[n]
  <2> HIDE DEF b
  <2> QED BY <1>1, <1>2, SameScore DEF PointsFollowNumber
<1>4. f = g
  <2>1. DOMAIN f = DOMAIN g /\ f = [n \in DOMAIN f |-> f[n]] /\ g = [n \in DOMAIN g |-> g[n]]
    BY <1>1
  <2> HIDE DEF f, g, b
  <2>2. \A n \in DOMAIN g : f[n] = g[n]
    BY <1>3 DEF g
  <2> QED BY <2>1, <2>2
<1>5. Abs!BoardPoints(b) = SumFunction(f) /\ StoredXP(k) = SumFunction(g)
  BY SameSum DEF Abs!BoardPoints, StoredXP
<1> QED BY <1>4, <1>5

LEMMA StoredNat ==
  ASSUME TypeInv, NEW k \in Key
  PROVE  StoredXP(k) \in Nat /\ StoredCount(k) \in Nat
<1> DEFINE f == [n \in DOMAIN attempts[k] |-> attempts[k][n].xp]
<1>1. IsFiniteSet(DOMAIN attempts[k]) /\ \A n \in DOMAIN attempts[k] : attempts[k][n] \in AttemptRow
  BY DEF TypeInv, TypeOK
<1>2. StoredXP(k) = SumFunctionOnSet(f, DOMAIN attempts[k])
  BY DEF StoredXP, SumFunction
<1>3. \A n \in DOMAIN attempts[k] : f[n] \in Nat
  BY <1>1 DEF AttemptRow
<1> HIDE DEF f
<1> QED BY <1>1, <1>2, <1>3, SumNat, FS_CardinalityType DEF StoredCount

LEMMA UserKeysFinite ==
  ASSUME NEW u \in User
  PROVE  IsFiniteSet({k \in Key : k[1] = u})
<1> DEFINE keyOf == [p \in Level \X Date |-> <<u, p[1], p[2]>>]
<1>1. IsFiniteSet(Level \X Date)
  BY ConstantsAssumption, FS_Product
<1>2. keyOf \in Surjection(Level \X Date, {k \in Key : k[1] = u})
  <2>1. keyOf \in [Level \X Date -> {k \in Key : k[1] = u}]
    BY DEF Key
  <2>2. ASSUME NEW k \in {k \in Key : k[1] = u}
        PROVE  \E p \in Level \X Date : keyOf[p] = k
    <3>1. k = <<u, k[2], k[3]>> /\ k[2] \in Level /\ k[3] \in Date
      BY DEF Key
    <3>2. <<k[2], k[3]>> \in Level \X Date /\ keyOf[<<k[2], k[3]>>] = k
      BY <3>1
    <3> QED BY <3>2
  <2> HIDE DEF keyOf
  <2> QED BY <2>1, <2>2 DEF Surjection
<1> QED BY <1>1, <1>2, FS_Surjection

LEMMA LevelsOfUser ==
  ASSUME IInv, NEW u \in User
  PROVE  /\ SumFunctionOnSet([l \in Level |-> progress[<<u, l>>].xp], Level) = XPOf(UserLedger(u))
         /\ SumFunctionOnSet([l \in Level |-> progress[<<u, l>>].xp], Level)
              = SumFunctionOnSet([k \in Key |-> StoredXP(k)], {k \in Key : k[1] = u})
<1> DEFINE p == [l \in Level |-> progress[<<u, l>>].xp]
           U == UserLedger(u)
           K == {k \in Key : k[1] = u}
           points == [x \in U |-> x.xp]
           levelOfRow == [x \in U |-> x.level]
           rowsAt == [l \in Level |-> LedgerOf(u, l)]
           stored == [k \in Key |-> StoredXP(k)]
           levelOfKey == [k \in K |-> k[2]]
           keysAt == [l \in Level |-> KeysOf(u, l)]
<1>1. TypeInv /\ IsFiniteSet(Level) /\ IsFiniteSet(Date)
  BY ConstantsAssumption DEF IInv, NumberingInv, TypeInv
<1>2. \A l \in Level : AgreeAt(u, l)
  BY AgreeByCase DEF IInv
<1>3. IsFiniteSet(U)
  BY FS_Subset DEF IInv, LedgerLogged, UserLedger
<1>4. \A x \in U : x.xp \in Nat /\ x.level \in Level
  BY <1>1 DEF TypeInv, TypeOK, LedgerRow, UserLedger
<1>5. IsFiniteSet(K)
  BY UserKeysFinite
<1>6. \A k \in K : stored[k] \in Int
  BY <1>1, StoredNat
<1>7. SumFunctionOnSet(p, Level) = SumFunctionOnSet(points, U)
  <2>1. GroupedBy(rowsAt, levelOfRow, U, Level)
    <3>1. \A x \in U : levelOfRow[x] \in Level
      BY <1>4
    <3>2. ASSUME NEW l \in Level, NEW x PROVE x \in rowsAt[l] <=> x \in U /\ levelOfRow[x] = l
      BY DEF LedgerOf, UserLedger
    <3> HIDE DEF rowsAt, levelOfRow, U
    <3> QED BY <3>1, <3>2 DEF GroupedBy
  <2>2. ASSUME NEW l \in Level PROVE p[l] = SumFunctionOnSet(points, rowsAt[l])
    <3> DEFINE A == LedgerOf(u, l)
               f == [x \in A |-> x.xp]
    <3>1. p[l] = SumFunctionOnSet(f, A)
      BY <1>2 DEF AgreeAt, XPOf, SumFunction
    <3>2. A \subseteq U
      BY DEF LedgerOf, UserLedger
    <3>3. IsFiniteSet(A) /\ \A x \in A : f[x] = points[x] /\ f[x] \in Int
      BY <1>3, <1>4, <3>2, FS_Subset
    <3>4. SumFunctionOnSet(f, A) = SumFunctionOnSet(points, A)
      <4> HIDE DEF f, A, points
      <4> QED BY <3>3, SumCongruence
    <3> QED BY <3>1, <3>4
  <2>3. \A x \in U : points[x] \in Int
    BY <1>4
  <2> HIDE DEF p, U, points, levelOfRow, rowsAt
  <2> QED BY <1>1, <1>3, <2>1, <2>2, <2>3, SumGroups
<1>8. SumFunctionOnSet(p, Level) = SumFunctionOnSet(stored, K)
  <2>1. GroupedBy(keysAt, levelOfKey, K, Level)
    <3>1. \A k \in K : levelOfKey[k] \in Level
      BY DEF Key
    <3>2. ASSUME NEW l \in Level, NEW k PROVE k \in keysAt[l] <=> k \in K /\ levelOfKey[k] = l
      BY DEF KeysOf, Key
    <3> HIDE DEF keysAt, levelOfKey, K
    <3> QED BY <3>1, <3>2 DEF GroupedBy
  <2>2. ASSUME NEW l \in Level PROVE p[l] = SumFunctionOnSet(stored, keysAt[l])
    <3> DEFINE A == KeysOf(u, l)
               f == [k \in A |-> StoredXP(k)]
    <3>1. p[l] = SumFunctionOnSet(f, A)
      BY <1>2 DEF AgreeAt, SumFunction
    <3>2. A \subseteq K
      BY DEF KeysOf, Key
    <3>3. IsFiniteSet(A) /\ \A k \in A : f[k] = stored[k] /\ f[k] \in Int
      BY <1>5, <1>6, <3>2, FS_Subset
    <3>4. SumFunctionOnSet(f, A) = SumFunctionOnSet(stored, A)
      <4> HIDE DEF f, A, stored
      <4> QED BY <3>3, SumCongruence
    <3> QED BY <3>1, <3>4
  <2> HIDE DEF p, K, stored, levelOfKey, keysAt
  <2> QED BY <1>1, <1>5, <1>6, <2>1, <2>2, SumGroups
<1>9. XPOf(U) = SumFunctionOnSet(points, U)
  BY DEF XPOf, SumFunction
<1> QED BY <1>7, <1>8, <1>9

\* The points a user has on all boards are the sum of the ledger.
BoardsAgree == \A u \in User : XPOf(UserLedger(u)) = Abs!TotalOf(u, Board)

LEMMA LedgerIsBoard == IInv => BoardsAgree
<1> SUFFICES ASSUME IInv, NEW u \in User PROVE XPOf(UserLedger(u)) = Abs!TotalOf(u, Board)
  BY DEF BoardsAgree
<1> DEFINE K == {k \in Key : k[1] = u}
           stored == [k \in Key |-> StoredXP(k)]
<1> DEFINE total == [k \in {k \in DOMAIN Board : k[1] = u} |-> Abs!BoardPoints(Board[k])]
<1>1. Abs!TotalOf(u, Board) = SumFunctionOnSet(total, K)
  <2>1. DOMAIN Board = Key
    BY DEF Board
  <2>2. Abs!TotalOf(u, Board) = SumFunction(total)
    BY SameSum DEF Abs!TotalOf
  <2>3. DOMAIN total = K
    BY <2>1
  <2> HIDE DEF total
  <2> QED BY <2>2, <2>3 DEF SumFunction
<1>2. \A k \in K : total[k] = stored[k] /\ total[k] \in Int
  <2> SUFFICES ASSUME NEW k \in K PROVE total[k] = stored[k] /\ total[k] \in Int
    OBVIOUS
  <2>1. k \in DOMAIN Board /\ k[1] = u
    BY DEF Board
  <2>2. total[k] = Abs!BoardPoints(Board[k])
    BY <2>1
  <2>3. Abs!BoardPoints(Board[k]) = StoredXP(k) /\ StoredXP(k) \in Nat
    BY BoardScore, StoredNat DEF IInv, NumberingInv, TypeInv
  <2> QED BY <2>2, <2>3
<1>3. IsFiniteSet(K)
  BY UserKeysFinite
<1>4. XPOf(UserLedger(u)) = SumFunctionOnSet(stored, K)
  BY LevelsOfUser
<1> HIDE DEF total, stored, K
<1>5. SumFunctionOnSet(total, K) = SumFunctionOnSet(stored, K)
  BY <1>2, <1>3, SumCongruence
<1> QED BY <1>1, <1>4, <1>5

(***************************************************************************)
(* What a commit adds to the board of a key.                               *)
(***************************************************************************)

\* The n-th attempt of a session at a key, and the number under which it is stored.
LEMMA NthAttempt ==
  ASSUME IInv, NEW s \in Session, NEW k \in Key, NEW n \in 1..Cardinality(OwnIndices(s, k))
  PROVE  \E i \in OwnIndices(s, k) :
           /\ Cardinality({j \in OwnIndices(s, k) : j <= i}) = n
           /\ session[s].own[i].number = StoredCount(k) + n
<1> DEFINE I == OwnIndices(s, k)
           c == StoredCount(k)
<1>1. TypeInv
  BY DEF IInv, NumberingInv, TypeInv
<1>2. I # {} /\ Cardinality(I) \in Nat
  BY <1>1, OwnFinite, FS_CardinalityType, FS_EmptySet
<1>3. c \in Nat
  BY <1>1, StoredNat
<1>4. OwnNumbers(s, k) = (c + 1)..(c + Cardinality(I))
  BY <1>2, ContinueByCase DEF ContinueAt, StoredCount, IInv, NumberingInv
<1>5. c + n \in OwnNumbers(s, k)
  <2> HIDE DEF I, c
  <2>1. n \in 1..Cardinality(I)
    BY DEF I
  <2> QED BY <1>2, <1>3, <1>4, <2>1
<1>6. PICK i \in I : session[s].own[i].number = c + n
  BY <1>5 DEF OwnNumbers
<1>7. session[s].own[i].number = c + Cardinality({j \in I : j <= i})
  BY <1>6 DEF IInv, OwnInOrder, OwnIndices
<1>8. Cardinality({j \in I : j <= i}) \in Nat
  BY <1>1, OwnFinite, FS_Subset, FS_CardinalityType
<1>9. Cardinality({j \in I : j <= i}) = n
  <2> DEFINE m == Cardinality({j \in I : j <= i})
  <2>1. m \in Nat /\ c + m = c + n /\ n \in Nat
    BY <1>6, <1>7, <1>8
  <2>2. m = n
    <3> HIDE DEF m, c
    <3> QED BY <1>3, <2>1
  <2> QED BY <2>2
<1> QED BY <1>6, <1>9

\* Sequences put together from a function on an interval.
LEMMA Concatenation ==
  ASSUME NEW T, NEW p \in Seq(T), NEW q \in Seq(T), NEW f,
         f = [n \in DOMAIN f |-> f[n]],
         DOMAIN f = 1..(Len(p) + Len(q)),
         \A n \in 1..Len(p) : f[n] = p[n],
         \A n \in 1..Len(q) : f[Len(p) + n] = q[n]
  PROVE  f = p \o q
<1> DEFINE r == p \o q
<1>0. r \in Seq(T) /\ DOMAIN r = 1..(Len(p) + Len(q)) /\ Len(r) = Len(p) + Len(q)
  OBVIOUS
<1>1. r = [n \in DOMAIN r |-> r[n]]
  <2> HIDE DEF r
  <2> QED BY <1>0
<1>2. ASSUME NEW n \in 1..(Len(p) + Len(q)) PROVE f[n] = r[n]
  <2>1. CASE n <= Len(p)
    BY <2>1
  <2>2. CASE ~(n <= Len(p))
    <3> DEFINE m == n - Len(p)
    <3>1. m \in 1..Len(q) /\ n = Len(p) + m
      BY <2>2
    <3>2. r[n] = q[m]
      BY <2>2, <3>1
    <3> QED BY <3>1, <3>2
  <2> QED BY <2>1, <2>2
<1>3. f = r
  <2> HIDE DEF r
  <2> QED BY <1>0, <1>1, <1>2
<1> QED BY <1>3

LEMMA IntervalIsSeq ==
  ASSUME NEW T, NEW n \in Nat, NEW f \in [1..n -> T]
  PROVE  f \in Seq(T) /\ Len(f) = n
OBVIOUS

\* The level of each attempt of a committing session was available to it.
LEMMA CommitDifficulties ==
  ASSUME TypeInv, NEW s \in Session, Commit(s)
  PROVE  /\ session[s].req \in Request /\ session[s].req.valid
         /\ DOMAIN session[s].own = DOMAIN session[s].req.items
         /\ \A i \in DOMAIN session[s].own :
              session[s].seen[i] \in Difficulties /\ session[s].req.items[i].completed \in BOOLEAN
<1> DEFINE r == session[s].req
           seen == session[s].seen
<1>1. r \in Request /\ Len(session[s].own) = Len(r.items) /\ Len(seen) = Len(r.items)
  BY DEF Commit, TypeInv, SessionShape
<1>2. seen \in Seq(Difficulties \union {NotAvailable})
  BY SessionFields DEF TypeInv, TypeOK
<1>3. r.valid /\ \A i \in DOMAIN seen : seen[i] # NotAvailable
  BY DEF Commit, Acceptable
<1>4. DOMAIN session[s].own = DOMAIN r.items
  BY <1>1, OwnRecords, RequestShape
<1>5. DOMAIN seen = DOMAIN r.items
  <2>1. DOMAIN seen = 1..Len(seen)
    BY <1>2
  <2> QED BY <1>1, <2>1, RequestShape
<1>6. \A i \in DOMAIN seen : seen[i] \in Difficulties \union {NotAvailable}
  BY <1>2
<1>7. \A i \in DOMAIN r.items : r.items[i].completed \in BOOLEAN
  BY <1>1, RequestShape
<1> HIDE DEF r, seen
<1>8. \A i \in DOMAIN session[s].own : seen[i] \in Difficulties /\ r.items[i].completed \in BOOLEAN
  BY <1>3, <1>4, <1>5, <1>6, <1>7
<1> QED BY <1>1, <1>3, <1>4, <1>8 DEF r, seen

\* The entries that the abstract specification appends, seen from the session.
LEMMA EntriesOfSession ==
  ASSUME IInv, NEW s \in Session, Commit(s), NEW k \in Key, NEW d,
         \A i \in DOMAIN session[s].own : d[i] = session[s].seen[i]
  PROVE  LET E == Abs!Entries(session[s].req, d, k)
             m == Cardinality(OwnIndices(s, k))
         IN  /\ m \in Nat
             /\ E \in [1..m -> [completed : BOOLEAN, difficulty : Difficulties]]
             /\ \A n \in 1..m :
                  /\ E[n].completed = NewRow(s, k, StoredCount(k) + n).completed
                  /\ E[n].difficulty = NewRow(s, k, StoredCount(k) + n).difficulty
                  /\ StoredCount(k) + n \in OwnNumbers(s, k)
<1> DEFINE r == session[s].req
           I == OwnIndices(s, k)
           m == Cardinality(I)
           mine == {i \in DOMAIN r.items : <<r.user, r.items[i].level, r.items[i].date>> = k}
           nth(n) == CHOOSE i \in mine : Abs!Cardinality({j \in mine : j <= i}) = n
           E == Abs!Entries(r, d, k)
<1>1. TypeInv /\ OwnInOrder
  BY DEF IInv, NumberingInv, TypeInv
<1>2. mine = I
  BY <1>1, CommitDifficulties DEF OwnIndices, KeyOf
<1>3. m \in Nat
  BY <1>1, OwnFinite, FS_CardinalityType
<1>4. E = [n \in 1..Abs!Cardinality(mine) |->
             [completed |-> r.items[nth(n)].completed, difficulty |-> d[nth(n)]]]
  BY DEF Abs!Entries
<1>5. ASSUME NEW n \in 1..m
      PROVE  /\ nth(n) \in I
             /\ session[s].own[nth(n)].number = StoredCount(k) + n
  <2> DEFINE P(i) == Abs!Cardinality({j \in mine : j <= i}) = n
  <2>1. \E i \in mine : P(i)
    <3> HIDE DEF mine
    <3> QED BY <1>2, NthAttempt, SameCardinality
  <2>2. nth(n) \in mine /\ P(nth(n))
    <3> HIDE DEF mine
    <3> QED BY <2>1
  <2> DEFINE i == nth(n)
  <2>3. i \in I /\ Cardinality({j \in I : j <= i}) = n
    <3> HIDE DEF mine, i
    <3> QED BY <1>2, <2>2, SameCardinality DEF i
  <2> HIDE DEF i
  <2>4. session[s].own[i].number = StoredCount(k) + n
    BY <1>1, <2>3 DEF OwnInOrder, OwnIndices
  <2> QED BY <2>3, <2>4 DEF i
<1>6. ASSUME NEW n \in 1..m
      PROVE  /\ E[n] \in [completed : BOOLEAN, difficulty : Difficulties]
             /\ E[n].completed = NewRow(s, k, StoredCount(k) + n).completed
             /\ E[n].difficulty = NewRow(s, k, StoredCount(k) + n).difficulty
             /\ StoredCount(k) + n \in OwnNumbers(s, k)
  <2>1. E[n] = [completed |-> r.items[nth(n)].completed, difficulty |-> d[nth(n)]]
    <3> HIDE DEF mine, nth, E
    <3> QED BY <1>2, <1>4, SameCardinality
  <2> DEFINE i == nth(n)
  <2>2. i \in I /\ session[s].own[i].number = StoredCount(k) + n
    BY <1>5
  <2> HIDE DEF i, mine, E
  <2>3. d[i] = session[s].seen[i] /\ d[i] \in Difficulties /\ r.items[i].completed \in BOOLEAN
    BY <1>1, <2>2, CommitDifficulties DEF OwnIndices
  <2>4. /\ NewRow(s, k, StoredCount(k) + n).completed = r.items[i].completed
        /\ NewRow(s, k, StoredCount(k) + n).difficulty = session[s].seen[i]
    BY <1>1, <2>2, RowOfNumber
  <2>5. E[n] = [completed |-> r.items[i].completed, difficulty |-> d[i]]
    BY <2>1 DEF i
  <2>6. StoredCount(k) + n \in OwnNumbers(s, k)
    BY <2>2 DEF OwnNumbers
  <2> QED BY <2>3, <2>4, <2>5, <2>6
<1>7. E \in [1..m -> [completed : BOOLEAN, difficulty : Difficulties]]
  <2>1. DOMAIN E = 1..m /\ E = [n \in DOMAIN E |-> E[n]]
    <3> HIDE DEF mine, nth
    <3> QED BY <1>2, <1>4, SameCardinality
  <2> HIDE DEF E
  <2> QED BY <1>6, <2>1
<1> HIDE DEF E
<1> QED BY <1>3, <1>6, <1>7 DEF E

\* RF15 seen from outside: the attempts of the batch continue the board in their order.
LEMMA CreditedBoard ==
  ASSUME IInv, IInv', NEW s \in Session, Commit(s), NEW k \in Key, NEW d,
         \A i \in DOMAIN session[s].own : d[i] = session[s].seen[i]
  PROVE  Board'[k] = Board[k] \o Abs!Entries(session[s].req, d, k)
<1> DEFINE E == Abs!Entries(session[s].req, d, k)
           T == [completed : BOOLEAN, difficulty : Difficulties]
           c == StoredCount(k)
           m == Cardinality(OwnIndices(s, k))
           p == Board[k]
           q == Board'[k]
<1>1. TypeInv /\ OwnContinue /\ OwnInOrder /\ AttemptsContiguous
  BY DEF IInv, NumberingInv, TypeInv
<1>2. E \in [1..m -> T] /\ m \in Nat
  BY EntriesOfSession
<1>3. c \in Nat /\ StoredCount(k)' = c + m
  BY <1>1, StoredAfterCommit
<1>4. DOMAIN attempts[k] = 1..c
  BY <1>1 DEF AttemptsContiguous, StoredCount
<1>5. DOMAIN attempts'[k] = 1..(c + m)
  <2>1. DOMAIN attempts'[k] = 1..(StoredCount(k)')
    BY DEF IInv, NumberingInv, AttemptsContiguous, StoredCount
  <2> QED BY <1>3, <2>1
<1>6. p \in [1..c -> T]
  <2>1. \A n \in 1..c : attempts[k][n] \in AttemptRow
    BY <1>1, <1>4 DEF TypeInv, TypeOK
  <2>2. \A n \in 1..c : attempts[k][n].completed \in BOOLEAN /\ attempts[k][n].difficulty \in Difficulties
    BY <2>1 DEF AttemptRow
  <2> QED BY <1>4, <2>2 DEF Board
<1>7. /\ DOMAIN q = 1..(c + m) /\ q = [n \in DOMAIN q |-> q[n]]
      /\ \A n \in 1..(c + m) : q[n] = [completed |-> attempts'[k][n].completed,
                                      difficulty |-> attempts'[k][n].difficulty]
  BY <1>5 DEF Board
<1>8. \A n \in 1..c : q[n] = p[n]
  <2>1. \A n \in 1..c : attempts'[k][n] = attempts[k][n]
    BY <1>1, <1>4, CommitTables
  <2>2. \A n \in 1..c : n \in 1..(c + m)
    BY <1>2, <1>3
  <2>3. \A n \in 1..c : p[n] = [completed |-> attempts[k][n].completed,
                               difficulty |-> attempts[k][n].difficulty]
    BY <1>4 DEF Board
  <2> HIDE DEF q, p
  <2> QED BY <1>7, <2>1, <2>2, <2>3
<1>9. ASSUME NEW n \in 1..m PROVE q[c + n] = E[n]
  <2>1. c + n \in 1..(c + m) /\ c + n \notin 1..c
    BY <1>2, <1>3
  <2>2. attempts'[k][c + n] = NewRow(s, k, c + n)
    BY <1>1, <1>4, <1>5, <2>1, CommitTables
  <2>3. /\ E[n].completed = NewRow(s, k, c + n).completed
        /\ E[n].difficulty = NewRow(s, k, c + n).difficulty
    BY EntriesOfSession
  <2>4. E[n] \in T
    BY <1>2
  <2> HIDE DEF q, E, c
  <2>5. E[n] = [completed |-> E[n].completed, difficulty |-> E[n].difficulty]
    BY <2>4
  <2> QED BY <1>7, <2>1, <2>2, <2>3, <2>5
<1> HIDE DEF E, T, c, m, p, q
<1>10. /\ p \in Seq(T) /\ Len(p) = c
       /\ E \in Seq(T) /\ Len(E) = m
  BY <1>2, <1>3, <1>6, IntervalIsSeq
<1>11. q = p \o E
  <2>1. /\ q = [n \in DOMAIN q |-> q[n]] /\ DOMAIN q = 1..(Len(p) + Len(E))
        /\ \A n \in 1..Len(p) : q[n] = p[n]
        /\ \A n \in 1..Len(E) : q[Len(p) + n] = E[n]
    BY <1>7, <1>8, <1>9, <1>10
  <2> QED BY <1>10, <2>1, Concatenation
<1> QED BY <1>11 DEF p, q, E

(***************************************************************************)
(* Steps.                                                                  *)
(***************************************************************************)

LEMMA AbsInit == Init => Abs!Init
<1> SUFFICES ASSUME Init PROVE Abs!Init
  OBVIOUS
<1>1. Board = [k \in User \X Level \X Date |-> <<>>]
  <2>1. \A k \in Key : attempts[k] = <<>>
    BY DEF Init
  <2>2. ASSUME NEW k \in Key PROVE Board[k] = <<>>
    BY <2>1 DEF Board
  <2>3. DOMAIN Board = Key /\ Board = [k \in DOMAIN Board |-> Board[k]]
    BY DEF Board
  <2> HIDE DEF Board
  <2> QED BY <2>2, <2>3 DEF Key
<1>2. Total = [u \in User |-> 0]
  <2>1. \A u : UserLedger(u) = {}
    BY DEF Init, UserLedger
  <2>2. XPOf({}) = 0
    <3>1. SumFunctionOnSet([x \in {} |-> x.xp], {}) = 0
      BY SumEmpty
    <3> QED BY <3>1 DEF XPOf, SumFunction
  <2> QED BY <2>1, <2>2 DEF Total
<1>3. badges = [u \in User |-> {}] /\ streak = [u \in User |-> {}] /\ events = [e \in Event |-> "none"]
  BY DEF Init
<1> QED BY <1>1, <1>2, <1>3 DEF Abs!Init, Board, Total

LEMMA LedgerIsBoardNext == IInv' => BoardsAgree'
BY LedgerIsBoard, PTL

LEMMA CommitCredits ==
  ASSUME IInv, IInv', NEW s \in Session, Commit(s), NEW r, r = session[s].req
  PROVE  r \in Request /\ r.valid /\ Abs!Credit(r)
<1> DEFINE d == [i \in DOMAIN r.items |-> session[s].seen[i]]
<1>0. TypeInv
  BY DEF IInv, NumberingInv, TypeInv
<1>1. r \in Request /\ r.valid /\ r.user \in User
  BY <1>0, CommitDifficulties, RequestShape
<1>2. d \in [DOMAIN r.items -> Difficulties] /\ \A i \in DOMAIN session[s].own : d[i] = session[s].seen[i]
  BY <1>0, CommitDifficulties
<1>3. r.event # NoEvent => events[r.event] = "none"
  <2>1. r.event # NoEvent => r.kind = "sync"
    BY <1>1, RequestShape
  <2> QED BY <2>1 DEF Commit, IInv, NumberingInv, EventsHeld
<1>4. Board' = [k \in DOMAIN Board |-> Board[k] \o Abs!Entries(r, d, k)]
  <2>1. DOMAIN Board = Key /\ DOMAIN Board' = Key /\ Board' = [k \in Key |-> Board'[k]]
    BY DEF Board
  <2>2. \A k \in Key : Board'[k] = Board[k] \o Abs!Entries(r, d, k)
    <3> HIDE DEF d
    <3> QED BY <1>2, CreditedBoard
  <2> HIDE DEF Board, d
  <2> QED BY <2>1, <2>2
<1>5. Total' = [Total EXCEPT ![r.user] = Abs!TotalOf(r.user, Board')]
  <2>1. ASSUME NEW u \in User
        PROVE  Total'[u] = IF u = r.user THEN Abs!TotalOf(r.user, Board') ELSE Total[u]
    <3>1. Total'[u] = XPOf(UserLedger(u)')
      BY DEF Total
    <3>2. CASE u = r.user
      BY <3>1, <3>2, LedgerIsBoardNext DEF BoardsAgree
    <3>3. CASE u # r.user
      <4>1. UserLedger(u)' = UserLedger(u)
        BY <1>0, <3>3, UserLedgerAfter DEF IInv
      <4> QED BY <3>1, <3>3, <4>1 DEF Total
    <3> QED BY <3>2, <3>3
  <2>2. DOMAIN Total = User /\ DOMAIN Total' = User /\ Total' = [u \in User |-> Total'[u]]
        /\ Total = [u \in User |-> Total[u]]
    BY DEF Total
  <2> HIDE DEF Total, Board
  <2> QED BY <2>1, <2>2
<1>6. badges' = [badges EXCEPT ![r.user] = @ \union {b \in Badge : Threshold[b] <= Total'[r.user]}]
  <2>1. badges \in [User -> SUBSET Badge] /\ badges' = [badges EXCEPT ![r.user] = @ \union NewBadges(s)]
    BY <1>0 DEF TypeInv, TypeOK, Commit
  <2>2. badges'[r.user] = {b \in Badge : Threshold[b] <= Total'[r.user]}
    <3>1. ASSUME NEW u \in User, u = r.user PROVE badges'[u] = {b \in Badge : Threshold[b] <= Total'[u]}
      <4>1. badges'[u] = {b \in Badge : Threshold[b] <= XPOf(UserLedger(u)')}
        BY DEF IInv, BadgesComplete
      <4>2. Total'[u] = XPOf(UserLedger(u)')
        BY DEF Total
      <4> HIDE DEF Total
      <4> QED BY <4>1, <4>2
    <3> HIDE DEF Total
    <3> QED BY <1>1, <3>1
  <2>3. badges[r.user] \subseteq badges'[r.user]
    BY <1>1, <2>1
  <2> HIDE DEF Total
  <2> QED BY <1>1, <2>1, <2>2, <2>3
<1>7. streak' = [streak EXCEPT ![r.user] = @ \union r.days]
  BY <1>1 DEF Commit, NewDays
<1>8. events' = [e \in Event |-> IF e = r.event THEN "processed" ELSE events[e]]
  <2>1. events \in [Event -> {"none", "processed", "rejected"}] /\ NoEvent \notin Event
    BY <1>0, ConstantsAssumption DEF TypeInv, TypeOK
  <2>2. r.kind \in {"sync", "online"} /\ (r.kind = "online" => r.event = NoEvent)
        /\ (r.kind = "sync" => r.event \in Event)
    BY <1>1, RequestShape
  <2> QED BY <2>1, <2>2 DEF Commit
<1> QED BY <1>1, <1>2, <1>3, <1>4, <1>5, <1>6, <1>7, <1>8 DEF Abs!Credit, Board, Total

LEMMA RejectionRejects ==
  ASSUME IInv, NEW s \in Session, RejectEvent(s)
  PROVE  Abs!Next \/ UNCHANGED Abs!vars
<1> DEFINE r == session[s].req
<1>0. r \in Request /\ events \in [Event -> {"none", "processed", "rejected"}] /\ NoEvent \notin Event
  BY ConstantsAssumption DEF RejectEvent, IInv, NumberingInv, TypeOK, SessionShape
<1>1. UNCHANGED <<attempts, ledger, badges, streak>> /\ events' = [events EXCEPT ![r.event] = "rejected"]
  BY DEF RejectEvent
<1>2. CASE r.kind = "sync"
  <2>1. r.event \in Event /\ events[r.event] = "none"
    BY <1>0, <1>2, RequestShape DEF RejectEvent, IInv, NumberingInv, EventsHeld
  <2>2. Abs!RejectEvent(r.event)
    BY <1>1, <2>1 DEF Abs!RejectEvent, UserLedger
  <2> QED BY <2>1, <2>2 DEF Abs!Next
<1>3. CASE r.kind # "sync"
  <2>1. r.event = NoEvent
    BY <1>0, <1>3, RequestShape
  <2>2. events' = events
    BY <1>0, <1>1, <2>1
  <2> QED BY <1>1, <2>2 DEF Abs!vars, UserLedger
<1> QED BY <1>2, <1>3

\* Every other step leaves what the abstract specification sees as it is.
LEMMA OtherSteps ==
  ASSUME [Next]_vars
  PROVE  \/ UNCHANGED <<attempts, ledger, badges, streak, events>>
         \/ \E s \in Session : RejectEvent(s)
         \/ \E s \in Session : Commit(s)
<1>1. UNCHANGED tables => UNCHANGED <<attempts, ledger, badges, streak, events>>
  BY DEF tables
<1>2. UNCHANGED vars => UNCHANGED <<attempts, ledger, badges, streak, events>>
  BY DEF vars
<1> QED BY <1>1, <1>2 DEF Next, BeginSync, RefuseDevice, BeginOnline, RefuseLevel, RecordEvent,
      AlreadyProcessed, RejectionLost, LockLevelAttempt, RunAttempt, Abort, EditCatalogue,
      MarkUserDevicesForWipe

LEMMA AbsStep == IInv /\ IInv' /\ [Next]_vars => [Abs!Next]_(Abs!vars)
<1> SUFFICES ASSUME IInv, IInv', [Next]_vars PROVE Abs!Next \/ UNCHANGED Abs!vars
  OBVIOUS
<1>1. CASE UNCHANGED <<attempts, ledger, badges, streak, events>>
  BY <1>1 DEF Abs!vars, UserLedger
<1>2. ASSUME NEW s \in Session, Commit(s) PROVE Abs!Next
  <2>1. ASSUME NEW r, r = session[s].req PROVE \E q \in Request : q.valid /\ Abs!Credit(q)
    BY <1>2, <2>1, CommitCredits
  <2> QED BY <2>1 DEF Abs!Next
<1>3. ASSUME NEW s \in Session, RejectEvent(s) PROVE Abs!Next \/ UNCHANGED Abs!vars
  BY <1>3, RejectionRejects
<1> QED BY <1>1, <1>2, <1>3, OtherSteps

\* Serializable transactions, a lock per user, level and day, and one row per event
\* are enough for players to see what ProgressAbs says: batches credited one at a
\* time and as a whole, numbered in their order, each offline event at most once.
THEOREM Refinement == Spec => AbsSpec
<1>1. Init => Abs!Init
  BY AbsInit
<1>2. IInv /\ IInv' /\ [Next]_vars => [Abs!Next]_(Abs!vars)
  BY AbsStep
<1> QED BY <1>1, <1>2, Invariance, PTL DEF Spec, AbsSpec, Abs!Spec
=============================================================================
