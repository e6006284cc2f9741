--------------------------- MODULE AccountProofs ---------------------------
(***************************************************************************)
(* Theorems about Account.  Every statement on a row of users makes it     *)
(* evolve in one way (Evolve); the invariant is shown for the rows alone   *)
(* first and then, from that, for what tokens, requests, links, ARCO       *)
(* requests and the maintenance's list know of them.                       *)
(***************************************************************************)
EXTENDS Account, TLAPS

\* What may become of a row: its version grows when it stops being active,
\* age and registration are kept, and a cancelled row stays as it is.
Evolve(a, b) ==
    /\ a.version <= b.version
    /\ a.status = "active" /\ b.status # "active" => a.version < b.version
    /\ a.status # "none" => b.status # "none"
    /\ a.age <= b.age
    /\ a.deleted => b.deleted /\ b.reason = a.reason

\* A minor's account that is in use was so before.
StaysInUse(a, b) ==
    b.status \in {"active", "suspended"} /\ ~b.adult =>
        a.status \in {"active", "suspended"} /\ ~a.adult

-----------------------------------------------------------------------------
(* Statements on a row *)

\* Why accounts are cancelled.
Causes == {"arco_cancelacion", "pending_tutor_consent_expired", "inactivity_retention_expired"}

\* A row that a statement leaves alone.
LEMMA EvolveSame ==
    ASSUME NEW a \in Account
    PROVE  Evolve(a, a) /\ StaysInUse(a, a)
BY DEF Evolve, StaysInUse, Account, Ages

\* Registration makes a new account, with its first version.
LEMMA CreateEvolves ==
    ASSUME NEW adult \in BOOLEAN
    PROVE  /\ CreateUser(adult) \in Account /\ Sound(CreateUser(adult))
           /\ Evolve(NoAccount, CreateUser(adult))
           /\ StaysInUse(NoAccount, CreateUser(adult))
<1> DEFINE b == CreateUser(adult)
<1>1. NoAccount \in Account
    BY AccountAssumption DEF NoAccount, Account, Statuses, Reasons, Ages
<1>2. b \in Account
    BY <1>1 DEF CreateUser, Account, Statuses
<1>3. /\ b.status = IF adult THEN "active" ELSE "pending_tutor_consent"
      /\ b.deleted = FALSE /\ b.adult = adult /\ b.version = 1 /\ b.age = 0
    BY DEF CreateUser, NoAccount
<1>4. /\ NoAccount.status = "none" /\ NoAccount.deleted = FALSE /\ NoAccount.version = 0
      /\ NoAccount.age = 0
    BY DEF NoAccount
<1> HIDE DEF b
<1>5. Sound(b)
    BY <1>3 DEF Sound
<1>6. Evolve(NoAccount, b)
    BY <1>3, <1>4 DEF Evolve
<1>7. StaysInUse(NoAccount, b)
    BY <1>3 DEF StaysInUse
<1> QED BY <1>2, <1>5, <1>6, <1>7 DEF b

\* A tutor's click activates an account that waits for it.
LEMMA ActivateEvolves ==
    ASSUME NEW a \in Account, Sound(a)
    PROVE  /\ ActivateTutorConsentUser(a) \in Account /\ Sound(ActivateTutorConsentUser(a))
           /\ Evolve(a, ActivateTutorConsentUser(a))
<1>1. CASE a.status = "pending_tutor_consent" /\ ~a.deleted
    <2> DEFINE b == [a EXCEPT !.status = "active", !.rested = FALSE]
    <2>1. b \in Account
        BY DEF Account, Statuses
    <2>2. /\ b.status = "active" /\ b.deleted = FALSE /\ b.version = a.version
          /\ b.age = a.age
        BY <1>1 DEF Account
    <2>3. ActivateTutorConsentUser(a) = b
        BY <1>1 DEF ActivateTutorConsentUser, Touched, Account
    <2> HIDE DEF b
    <2>4. Sound(b)
        BY <2>2 DEF Sound
    <2>5. Evolve(a, b)
        BY <1>1, <2>2 DEF Evolve, Account, Ages
    <2> QED BY <2>1, <2>3, <2>4, <2>5
<1>2. CASE ~(a.status = "pending_tutor_consent" /\ ~a.deleted)
    BY <1>2, EvolveSame DEF ActivateTutorConsentUser
<1> QED BY <1>1, <1>2

\* Logout changes the version alone.
LEMMA IncrementEvolves ==
    ASSUME NEW a \in Account, Sound(a), a.status # "none"
    PROVE  /\ IncrementTokenVersion(a) \in Account /\ Sound(IncrementTokenVersion(a))
           /\ Evolve(a, IncrementTokenVersion(a)) /\ StaysInUse(a, IncrementTokenVersion(a))
<1> DEFINE b == [a EXCEPT !.version = @ + 1, !.rested = FALSE]
<1>1. b \in Account
    <2>1. a.version + 1 \in Nat
        BY DEF Account
    <2> QED BY <2>1 DEF Account
<1>2. /\ b.status = a.status /\ b.deleted = a.deleted /\ b.version = a.version + 1
      /\ b.age = a.age /\ b.reason = a.reason /\ b.adult = a.adult
    BY DEF Account
<1>3. IncrementTokenVersion(a) = b
    BY DEF IncrementTokenVersion, Touched, Account
<1> HIDE DEF b
<1>4. Sound(b)
    BY <1>2 DEF Sound
<1>5. Evolve(a, b)
    BY <1>2 DEF Evolve, Account, Ages
<1>6. StaysInUse(a, b)
    BY <1>2 DEF StaysInUse
<1> QED BY <1>1, <1>3, <1>4, <1>5, <1>6

\* The maintenance suspends with a new version.
LEMMA SuspendEvolves ==
    ASSUME NEW a \in Account, Sound(a)
    PROVE  /\ SuspendInactivePlayers(a) \in Account /\ Sound(SuspendInactivePlayers(a))
           /\ Evolve(a, SuspendInactivePlayers(a)) /\ StaysInUse(a, SuspendInactivePlayers(a))
<1>1. CASE a.status = "active" /\ ~a.deleted /\ a.age >= PastInactivity
    <2> DEFINE b == [a EXCEPT !.status = "suspended", !.version = @ + 1, !.rested = FALSE,
                              !.reason = "inactive_suspension_pending_cancel"]
    <2>1. b \in Account
        <3>1. a.version + 1 \in Nat
            BY DEF Account
        <3> QED BY <3>1 DEF Account, Statuses, Reasons
    <2>2. /\ b.status = "suspended" /\ b.deleted = FALSE /\ b.version = a.version + 1
          /\ b.age = a.age /\ b.adult = a.adult
        BY <1>1 DEF Account
    <2>3. SuspendInactivePlayers(a) = b
        BY <1>1 DEF SuspendInactivePlayers, Touched, Account
    <2> HIDE DEF b
    <2>4. Sound(b)
        BY <1>1, <2>2 DEF Sound
    <2>5. Evolve(a, b)
        BY <1>1, <2>2 DEF Evolve, Account, Ages
    <2>6. StaysInUse(a, b)
        BY <1>1, <2>2 DEF StaysInUse
    <2> QED BY <2>1, <2>3, <2>4, <2>5, <2>6
<1>2. CASE ~(a.status = "active" /\ ~a.deleted /\ a.age >= PastInactivity)
    BY <1>2, EvolveSame DEF SuspendInactivePlayers
<1> QED BY <1>1, <1>2

\* A cancellation cancels, or leaves an account that is cancelled already.
LEMMA PseudonymizeEvolves ==
    ASSUME NEW a \in Account, Sound(a), a.status # "none", NEW reason \in Causes
    PROVE  /\ PseudonymizeUser(a, reason) \in Account /\ Sound(PseudonymizeUser(a, reason))
           /\ Evolve(a, PseudonymizeUser(a, reason))
           /\ StaysInUse(a, PseudonymizeUser(a, reason))
           /\ PseudonymizeUser(a, reason).deleted
           /\ ~a.deleted => PseudonymizeUser(a, reason).reason = reason
<1>1. CASE ~a.deleted
    <2> DEFINE b == [a EXCEPT !.status = "deleted", !.deleted = TRUE, !.reason = reason,
                              !.version = @ + 1, !.rested = FALSE]
    <2>1. b \in Account
        <3>1. a.version + 1 \in Nat
            BY DEF Account
        <3> QED BY <3>1 DEF Account, Statuses, Reasons, Causes
    <2>2. /\ b.status = "deleted" /\ b.deleted = TRUE /\ b.version = a.version + 1
          /\ b.age = a.age /\ b.reason = reason
        BY <1>1 DEF Account
    <2>3. PseudonymizeUser(a, reason) = b
        BY <1>1 DEF PseudonymizeUser, Touched, Account
    <2> HIDE DEF b
    <2>4. Sound(b)
        BY <2>2 DEF Sound
    <2>5. Evolve(a, b)
        BY <1>1, <2>2 DEF Evolve, Account, Ages
    <2>6. StaysInUse(a, b)
        BY <2>2 DEF StaysInUse
    <2> QED BY <2>1, <2>2, <2>3, <2>4, <2>5, <2>6
<1>2. CASE a.deleted
    BY <1>2, EvolveSame DEF PseudonymizeUser
<1> QED BY <1>1, <1>2

\* Coming of age makes the account an adult's.
LEMMA AgeUpEvolves ==
    ASSUME NEW a \in Account, Sound(a), MayAgeUp(a), a.status # "none"
    PROVE  LET b == UpdateUserAdultStatus(IncrementAgeUpAttempts(a))
           IN  b \in Account /\ Sound(b) /\ Evolve(a, b) /\ b.adult
<1> DEFINE b == [a EXCEPT !.attempts = @ + 1, !.status = "active", !.adult = TRUE,
                          !.rested = FALSE]
<1>1. b \in Account
    <2>1. a.attempts + 1 \in 0 .. AgeUpLimit
        BY AccountAssumption DEF Account, MayAgeUp
    <2> QED BY <2>1 DEF Account, Statuses
<1>2. /\ b.status = "active" /\ b.deleted = FALSE /\ b.version = a.version
      /\ b.age = a.age /\ b.adult = TRUE /\ ~a.deleted
    BY DEF Account, MayAgeUp
<1>3. UpdateUserAdultStatus(IncrementAgeUpAttempts(a)) = b
    BY <1>2 DEF UpdateUserAdultStatus, IncrementAgeUpAttempts, Touched, Account
<1> HIDE DEF b
<1>4. Sound(b)
    BY <1>2 DEF Sound
<1>5. Evolve(a, b)
    BY <1>2 DEF Evolve, Account, Ages
<1> QED BY <1>1, <1>2, <1>3, <1>4, <1>5

\* Time changes no more than the age and the rest of a row.
LEMMA TimeEvolves ==
    ASSUME NEW a \in Account, Sound(a), a.status # "none"
    PROVE  /\ a.age < PastInactivity =>
                LET b == [a EXCEPT !.age = @ + 1]
                IN  b \in Account /\ Sound(b) /\ Evolve(a, b) /\ StaysInUse(a, b)
           /\ LET b == [a EXCEPT !.rested = TRUE]
              IN  b \in Account /\ Sound(b) /\ Evolve(a, b) /\ StaysInUse(a, b)
<1> USE DEF PastInactivity, Ages
<1>1. ASSUME a.age < PastInactivity
      PROVE  LET b == [a EXCEPT !.age = @ + 1]
             IN  b \in Account /\ Sound(b) /\ Evolve(a, b) /\ StaysInUse(a, b)
    <2> DEFINE b == [a EXCEPT !.age = @ + 1]
    <2>1. b \in Account
        BY <1>1 DEF Account
    <2>2. /\ b.status = a.status /\ b.deleted = a.deleted /\ b.version = a.version
          /\ b.age = a.age + 1 /\ b.reason = a.reason /\ b.adult = a.adult
        BY DEF Account
    <2> HIDE DEF b
    <2>3. Sound(b)
        BY <2>2 DEF Sound, Account
    <2>4. Evolve(a, b)
        BY <2>2 DEF Evolve, Account
    <2>5. StaysInUse(a, b)
        BY <2>2 DEF StaysInUse
    <2> QED BY <2>1, <2>3, <2>4, <2>5 DEF b
<1>2. LET b == [a EXCEPT !.rested = TRUE]
      IN  b \in Account /\ Sound(b) /\ Evolve(a, b) /\ StaysInUse(a, b)
    <2> DEFINE b == [a EXCEPT !.rested = TRUE]
    <2>1. b \in Account
        BY DEF Account
    <2>2. /\ b.status = a.status /\ b.deleted = a.deleted /\ b.version = a.version
          /\ b.age = a.age /\ b.reason = a.reason /\ b.adult = a.adult
        BY DEF Account
    <2> HIDE DEF b
    <2>3. Sound(b)
        BY <2>2 DEF Sound
    <2>4. Evolve(a, b)
        BY <2>2 DEF Evolve, Account
    <2>5. StaysInUse(a, b)
        BY <2>2 DEF StaysInUse
    <2> QED BY <2>1, <2>3, <2>4, <2>5 DEF b
<1> QED BY <1>1, <1>2

-----------------------------------------------------------------------------
(* What others know of the rows *)

\* A step that lets every row evolve.
RowsOK ==
    /\ users' \in [Users -> Account]
    /\ \A u \in Users : Sound(users'[u]) /\ Evolve(users[u], users'[u])

\* A step that writes to one row.
LEMMA OneRow ==
    ASSUME TypeOK, \A u \in Users : Sound(users[u]),
           NEW u \in Users, NEW b \in Account, Sound(b), Evolve(users[u], b),
           users' = [users EXCEPT ![u] = b]
    PROVE  /\ RowsOK
           /\ \A v \in Users : v # u => users'[v] = users[v]
           /\ users'[u] = b
           /\ StaysInUse(users[u], b) => \A v \in Users : StaysInUse(users[v], users'[v])
<1>1. /\ \A v \in Users : v # u => users'[v] = users[v]
      /\ users'[u] = b
      /\ users' \in [Users -> Account]
    BY DEF TypeOK
<1>2. \A v \in Users : users[v] \in Account
    BY DEF TypeOK
<1> QED BY <1>1, <1>2, EvolveSame DEF RowsOK

\* A step that writes to none.
LEMMA NoRow ==
    ASSUME TypeOK, \A u \in Users : Sound(users[u]), UNCHANGED users
    PROVE  RowsOK /\ \A v \in Users : StaysInUse(users[v], users'[v])
<1>1. \A v \in Users : users[v] \in Account
    BY DEF TypeOK
<1> QED BY <1>1, EvolveSame DEF RowsOK, TypeOK

\* What was behind stays behind.
LEMMA BehindKept ==
    ASSUME TypeOK, RowsOK, NEW u \in Users, NEW version \in Nat, Behind(u, version)
    PROVE  Behind(u, version)'
<1>1. users[u] \in Account /\ users'[u] \in Account
    BY DEF TypeOK, RowsOK
<1> QED BY <1>1 DEF RowsOK, Behind, Evolve, Account

\* What holds of the rows before the step holds of them after it.
LEMMA Carried ==
    ASSUME TypeOK, RowsOK, TypeOK',
           \A token \in access' : Behind(token.user, token.version),
           \A s \in Requests : requests'[s].kind \in {"issue", "redeem"} =>
                Behind(requests'[s].user, requests'[s].version),
           \A s \in Requests : requests'[s].kind # "none" =>
                users[requests'[s].user].status # "none",
           \A l \in Links : links'[l].state # "none" => links'[l].user \in Users,
           \A r \in ArcoIds : arco'[r].status # "none" =>
                arco'[r].user \in Users /\ users[arco'[r].user].status # "none",
           \A u \in job'.list :
                /\ job'.phase = "pending" => users[u].age >= PastConsent
                /\ job'.phase = "retention" => users[u].age >= PastInactivity
    PROVE  VersionsRead' /\ Owned' /\ ListedOld'
<1>1. VersionsRead'
    <2>1. ASSUME NEW token \in access'
          PROVE  Behind(token.user, token.version)'
        <3>1. token.user \in Users /\ token.version \in Nat
            BY DEF TypeOK, Token
        <3> QED BY <3>1, BehindKept
    <2>2. ASSUME NEW s \in Requests, requests'[s].kind \in {"issue", "redeem"}
          PROVE  Behind(requests[s].user, requests[s].version)'
        <3>1. requests'[s].user \in Users /\ requests'[s].version \in Nat
            <4>1. requests'[s] \in RequestType
                BY DEF TypeOK
            <4> QED BY <4>1, <2>2 DEF RequestType
        <3>2. Behind(requests'[s].user, requests'[s].version)
            BY <2>2
        <3> HIDE DEF Behind
        <3>3. ASSUME NEW u \in Users, NEW version \in Nat, Behind(u, version)
              PROVE  \/ version < users'[u].version
                     \/ version = users'[u].version /\ users'[u].status = "active"
            <4>1. Behind(u, version)'
                BY <3>3, BehindKept
            <4> QED BY <4>1 DEF Behind
        <3> QED BY <3>1, <3>2, <3>3 DEF Behind
    <2> QED BY <2>1, <2>2 DEF VersionsRead
<1>2. Owned'
    <2>1. ASSUME NEW s \in Requests, requests'[s].kind # "none"
          PROVE  users'[requests'[s].user].status # "none"
        <3>1. requests'[s].user \in Users
            <4>1. requests'[s] \in RequestType
                BY DEF TypeOK
            <4> QED BY <4>1, <2>1 DEF RequestType
        <3> QED BY <2>1, <3>1 DEF RowsOK, Evolve
    <2>2. ASSUME NEW r \in ArcoIds, arco'[r].status # "none"
          PROVE  arco'[r].user \in Users /\ users'[arco'[r].user].status # "none"
        BY <2>2 DEF RowsOK, Evolve
    <2> QED BY <2>1, <2>2 DEF Owned, Free
<1>3. ListedOld'
    <2>1. ASSUME NEW u \in job'.list
          PROVE  /\ job'.phase = "pending" => users'[u].age >= PastConsent
                 /\ job'.phase = "retention" => users'[u].age >= PastInactivity
        <3>1. u \in Users
            BY DEF TypeOK
        <3>2. /\ users[u] \in Account /\ users'[u] \in Account
              /\ Evolve(users[u], users'[u])
            BY <3>1 DEF TypeOK, RowsOK
        <3> QED BY <3>2 DEF Evolve, Account, Ages, PastConsent, PastInactivity
    <2> QED BY <2>1 DEF ListedOld
<1> QED BY <1>1, <1>2, <1>3

\* Consents in force stay so, for whoever is still a minor in use.
LEMMA ConsentCarried ==
    ASSUME ConsentFirst,
           \A u \in Users :
                \/ users'[u].status \notin {"active", "suspended"}
                \/ users'[u].adult
                \/ /\ StaysInUse(users[u], users'[u])
                   /\ \A l \in Links : links[l].user = u /\ consents[l] = "given" =>
                        links'[l].user = u /\ consents'[l] = "given"
    PROVE  ConsentFirst'
BY DEF ConsentFirst, StaysInUse

\* An account has its cause.
Caused(u) ==
    \/ /\ users[u].reason = "arco_cancelacion"
       /\ \E r \in ArcoIds : /\ arco[r].user = u /\ arco[r].type = "cancelacion"
                             /\ arco[r].status = "resolved"
    \/ users[u].reason = "pending_tutor_consent_expired" /\ users[u].age >= PastConsent
    \/ users[u].reason = "inactivity_retention_expired" /\ users[u].age >= PastInactivity

\* Causes of the accounts that were cancelled before stay, and those of the
\* step must be given.
LEMMA CauseCarried ==
    ASSUME TypeOK, RowsOK, TypeOK', CancelledForCause, Owned,
           \A r \in ArcoIds : arco[r].status = "resolved" => arco'[r] = arco[r],
           \A r \in ArcoIds : (arco'[r].status = "resolved" /\ arco'[r].type = "cancelacion") =>
                arco'[r] = arco[r] \/ users'[arco'[r].user].deleted,
           \A u \in Users : users'[u].deleted => users[u].deleted \/ Caused(u)'
    PROVE  CancelledForCause'
<1>1. ASSUME NEW r \in ArcoIds, arco'[r].status = "resolved", arco'[r].type = "cancelacion"
      PROVE  users'[arco'[r].user].deleted
    <2>1. CASE arco'[r] = arco[r]
        <3>1. users[arco[r].user].deleted /\ arco[r].user \in Users
            BY <1>1, <2>1 DEF CancelledForCause, Owned
        <3> QED BY <2>1, <3>1 DEF RowsOK, Evolve
    <2> QED BY <1>1, <2>1
<1>2. ASSUME NEW u \in Users, users[u].deleted
      PROVE  Caused(u)'
    <2>1. Caused(u)
        BY <1>2 DEF CancelledForCause, Caused
    <2>2. /\ users[u] \in Account /\ users'[u] \in Account
          /\ users[u].age <= users'[u].age /\ users'[u].reason = users[u].reason
        BY <1>2 DEF TypeOK, RowsOK, Evolve
    <2>3. ASSUME NEW r \in ArcoIds, arco[r].status = "resolved"
          PROVE  arco'[r] = arco[r]
        BY <2>3
    <2> QED BY <2>1, <2>2, <2>3 DEF Caused, Account, Ages, PastConsent, PastInactivity
<1>3. \A u \in Users : users'[u].deleted => Caused(u)'
    BY <1>2
<1> QED BY <1>1, <1>3 DEF CancelledForCause, Caused

-----------------------------------------------------------------------------
(* Initial states *)

LEMMA InitInv == Init => IInv
<1> SUFFICES ASSUME Init PROVE IInv
    OBVIOUS
<1>1. NoAccount \in Account
    BY AccountAssumption DEF NoAccount, Account, Statuses, Reasons, Ages
<1>2. TypeOK
    <2>1. users \in [Users -> Account]
        BY <1>1 DEF Init
    <2>2. refresh \in [RefreshIds -> Users \cup {NoUser}] /\ access \subseteq Token
        BY DEF Init
    <2>3. /\ links \in [Links -> [user: Users \cup {NoUser}, state: {"none", "sent", "verified"}]]
          /\ consents \in [Links -> {"none", "given", "revoked"}]
        BY DEF Init, NoLink
    <2>4. arco \in [ArcoIds -> [user: Users \cup {NoUser}, type: ArcoTypes,
                                status: {"none", "pending", "resolved", "rejected"}]]
        BY DEF Init, ArcoTypes
    <2>5. requests \in [Requests -> RequestType] /\ job \in [phase: Phases, list: SUBSET Users]
        BY DEF Init, RequestType, Phases
    <2> QED BY <2>1, <2>2, <2>3, <2>4, <2>5 DEF TypeOK
<1>3. \A u \in Users : Sound(users[u])
    BY DEF Init, Sound, NoAccount
<1>4. VersionsRead /\ Owned /\ ListedOld
    BY DEF Init, VersionsRead, Owned, ListedOld, Free, NoLink
<1>5. EvidenceKept /\ ConsentFirst /\ CancelledForCause
    BY DEF Init, EvidenceKept, ConsentFirst, CancelledForCause, NoAccount
<1> QED BY <1>2, <1>3, <1>4, <1>5 DEF IInv

-----------------------------------------------------------------------------
(* Steps that read, or that fail: only the request changes *)

\* A request that takes what it has read with it.
LEMMA ReadKeeps ==
    ASSUME IInv, NEW s \in Requests, NEW request \in RequestType,
           Becomes(s, request), UNCHANGED <<tables, job>>,
           request.kind \in {"issue", "redeem"} => Behind(request.user, request.version),
           request.kind # "none" => users[request.user].status # "none"
    PROVE  IInv' /\ RowsOK
<1> USE DEF IInv
<1>1. /\ UNCHANGED <<users, access, refresh, links, consents, arco, job>>
      /\ requests' \in [Requests -> RequestType]
      /\ \A other \in Requests : requests'[other] = IF other = s THEN request ELSE requests[other]
    BY DEF tables, Becomes, TypeOK
<1>2. TypeOK'
    BY <1>1 DEF TypeOK
<1>3. RowsOK
    BY NoRow, <1>1
<1>4. /\ \A other \in Requests : requests'[other].kind \in {"issue", "redeem"} =>
            Behind(requests'[other].user, requests'[other].version)
      /\ \A other \in Requests : requests'[other].kind # "none" =>
            users[requests'[other].user].status # "none"
    BY <1>1 DEF VersionsRead, Owned, Free
<1>5. VersionsRead' /\ Owned' /\ ListedOld'
    <2>1. /\ \A token \in access' : Behind(token.user, token.version)
          /\ \A l \in Links : links'[l].state # "none" => links'[l].user \in Users
          /\ \A r \in ArcoIds : arco'[r].status # "none" =>
                arco'[r].user \in Users /\ users[arco'[r].user].status # "none"
          /\ \A u \in job'.list :
                /\ job'.phase = "pending" => users[u].age >= PastConsent
                /\ job'.phase = "retention" => users[u].age >= PastInactivity
        BY <1>1 DEF VersionsRead, Owned, ListedOld
    <2> QED BY <1>2, <1>3, <1>4, <2>1, Carried
<1>6. EvidenceKept' /\ ConsentFirst' /\ CancelledForCause'
    BY <1>1 DEF EvidenceKept, ConsentFirst, CancelledForCause
<1> QED BY <1>2, <1>3, <1>5, <1>6 DEF RowsOK

\* Whoever passes the token check is an active account's.
LEMMA AcceptedActive ==
    ASSUME IInv, NEW token \in access, Accepted(token)
    PROVE  token.user \in Users /\ users[token.user].status = "active"
<1>1. token \in Token
    BY DEF IInv, TypeOK
<1>2. /\ token.user \in Users /\ token.version \in Nat
      /\ users[token.user] \in Account /\ Behind(token.user, token.version)
    BY <1>1 DEF IInv, TypeOK, Token, VersionsRead
<1> QED BY <1>2 DEF Accepted, Behind, Account

\* Admitted requests, reads and failures.
LEMMA RequestReads ==
    ASSUME IInv, NEW s \in Requests,
           \/ RequestFails(s)
           \/ \E u \in Users : \/ Login(s, u) \/ SubmitTutorConsent(s, u)
                               \/ AdmitLogout(s, u) \/ AdmitAgeUp(s, u)
                               \/ \E type \in ArcoTypes : AdmitArco(s, u, type)
           \/ \E t \in RefreshIds : Refresh(s, t)
    PROVE  IInv' /\ RowsOK
<1>1. \A u \in Users : users[u] \in Account
    BY DEF IInv, TypeOK
<1>2. CASE RequestFails(s)
    <2>1. [kind |-> "none"] \in RequestType
        BY DEF RequestType
    <2>2. [kind |-> "none"].kind = "none"
        OBVIOUS
    <2> QED BY <1>2, <2>1, <2>2, ReadKeeps DEF RequestFails, Ends
<1>3. ASSUME NEW u \in Users, Login(s, u)
      PROVE  IInv' /\ RowsOK
    <2> DEFINE request == [kind |-> "issue", user |-> u, version |-> users[u].version]
    <2>1. request \in RequestType
        BY <1>1 DEF RequestType, Account
    <2>2. Behind(request.user, request.version) /\ users[request.user].status # "none"
        BY <1>3 DEF Behind, Login
    <2> QED BY <1>3, <2>1, <2>2, ReadKeeps DEF Login
<1>4. ASSUME NEW u \in Users, SubmitTutorConsent(s, u)
      PROVE  IInv' /\ RowsOK
    <2> DEFINE request == [kind |-> "consent", user |-> u]
    <2>1. request \in RequestType
        BY DEF RequestType
    <2>2. users[request.user].status # "none" /\ request.kind = "consent"
        BY <1>4 DEF SubmitTutorConsent
    <2> QED BY <1>4, <2>1, <2>2, ReadKeeps DEF SubmitTutorConsent
<1>5. ASSUME NEW t \in RefreshIds, Refresh(s, t)
      PROVE  IInv' /\ RowsOK
    <2> DEFINE u == refresh[t]
               request == [kind |-> "redeem", user |-> u, version |-> users[u].version,
                           token |-> t]
    <2>1. u \in Users
        BY <1>5 DEF Refresh, IInv, TypeOK
    <2>2. request \in RequestType
        BY <1>1, <2>1 DEF RequestType, Account
    <2>3. Behind(request.user, request.version) /\ users[request.user].status # "none"
        BY <1>5 DEF Behind, Refresh
    <2> QED BY <1>5, <2>2, <2>3, ReadKeeps DEF Refresh
<1>6. ASSUME NEW u \in Users, NEW request, Admit(s, u, request), request \in RequestType,
             request.user = u, request.kind \in {"logout", "age_up", "arco"}
      PROVE  IInv' /\ RowsOK
    <2>1. users[u].status = "active"
        BY <1>6, AcceptedActive DEF Admit, Authenticated
    <2> QED BY <1>6, <2>1, ReadKeeps DEF Admit
<1>7. ASSUME NEW u \in Users, AdmitLogout(s, u) \/ AdmitAgeUp(s, u)
      PROVE  IInv' /\ RowsOK
    <2>1. \A kind \in {"logout", "age_up"} : [kind |-> kind, user |-> u] \in RequestType
        BY DEF RequestType
    <2> QED BY <1>6, <1>7, <2>1 DEF AdmitLogout, AdmitAgeUp
<1>8. ASSUME NEW u \in Users, NEW type \in ArcoTypes, AdmitArco(s, u, type)
      PROVE  IInv' /\ RowsOK
    <2>1. [kind |-> "arco", user |-> u, type |-> type] \in RequestType
        BY DEF RequestType
    <2> QED BY <1>6, <1>8, <2>1 DEF AdmitArco
<1> QED BY <1>2, <1>3, <1>4, <1>5, <1>7, <1>8

-----------------------------------------------------------------------------
(* Steps that change one table *)

\* After the step the requests know of the rows before it what they should.
RequestsKnow ==
    \A s \in Requests :
        /\ requests'[s].kind \in {"issue", "redeem"} =>
            Behind(requests'[s].user, requests'[s].version)
        /\ requests'[s].kind # "none" => users[requests'[s].user].status # "none"

\* A request that goes on, or ends.
LEMMA RequestGoesOn ==
    ASSUME IInv, NEW s \in Requests, NEW request \in RequestType, Becomes(s, request),
           request.kind \in {"issue", "redeem"} => Behind(request.user, request.version),
           request.kind # "none" => users[request.user].status # "none"
    PROVE  RequestsKnow /\ requests' \in [Requests -> RequestType]
<1>1. /\ requests' \in [Requests -> RequestType]
      /\ \A other \in Requests : requests'[other] = IF other = s THEN request ELSE requests[other]
    BY DEF Becomes, IInv, TypeOK
<1> QED BY <1>1 DEF RequestsKnow, IInv, VersionsRead, Owned, Free

LEMMA RequestEnds ==
    ASSUME IInv, NEW s \in Requests, Ends(s)
    PROVE  RequestsKnow /\ requests' \in [Requests -> RequestType]
<1>1. [kind |-> "none"] \in RequestType /\ [kind |-> "none"].kind = "none"
    BY DEF RequestType
<1> QED BY <1>1, RequestGoesOn DEF Ends

LEMMA RequestsStay ==
    ASSUME IInv, UNCHANGED requests
    PROVE  RequestsKnow /\ requests' \in [Requests -> RequestType]
BY DEF RequestsKnow, IInv, VersionsRead, Owned, Free, TypeOK

\* Tokens are handed out or revoked, or the maintenance lists accounts.
LEMMA RowsStay ==
    ASSUME IInv, TypeOK', RequestsKnow, UNCHANGED <<users, links, consents, arco>>,
           \A token \in access' : Behind(token.user, token.version),
           \A u \in job'.list :
                /\ job'.phase = "pending" => users[u].age >= PastConsent
                /\ job'.phase = "retention" => users[u].age >= PastInactivity
    PROVE  IInv' /\ RowsOK
<1> USE DEF IInv
<1>1. RowsOK
    BY NoRow
<1>2. VersionsRead' /\ Owned' /\ ListedOld'
    <2>1. /\ \A l \in Links : links'[l].state # "none" => links'[l].user \in Users
          /\ \A r \in ArcoIds : arco'[r].status # "none" =>
                arco'[r].user \in Users /\ users[arco'[r].user].status # "none"
        BY DEF Owned
    <2> QED BY <1>1, <2>1, Carried DEF RequestsKnow
<1>3. EvidenceKept' /\ ConsentFirst' /\ CancelledForCause'
    BY DEF EvidenceKept, ConsentFirst, CancelledForCause
<1> QED BY <1>1, <1>2, <1>3 DEF RowsOK

\* One row changes, and does not become a cancelled one.
LEMMA RowChanges ==
    ASSUME IInv, RequestsKnow, requests' \in [Requests -> RequestType],
           NEW u \in Users, NEW b \in Account, users' = [users EXCEPT ![u] = b],
           Sound(b), Evolve(users[u], b), StaysInUse(users[u], b),
           b.deleted => users[u].deleted,
           UNCHANGED <<access, refresh, links, consents, arco, job>>
    PROVE  IInv' /\ RowsOK
<1> USE DEF IInv
<1>1. /\ RowsOK /\ users'[u] = b
      /\ \A v \in Users : v # u => users'[v] = users[v]
      /\ \A v \in Users : StaysInUse(users[v], users'[v])
    BY OneRow
<1>2. TypeOK'
    BY <1>1 DEF TypeOK, RowsOK
<1>3. VersionsRead' /\ Owned' /\ ListedOld'
    <2>1. /\ \A token \in access' : Behind(token.user, token.version)
          /\ \A l \in Links : links'[l].state # "none" => links'[l].user \in Users
          /\ \A r \in ArcoIds : arco'[r].status # "none" =>
                arco'[r].user \in Users /\ users[arco'[r].user].status # "none"
          /\ \A v \in job'.list :
                /\ job'.phase = "pending" => users[v].age >= PastConsent
                /\ job'.phase = "retention" => users[v].age >= PastInactivity
        BY DEF VersionsRead, Owned, ListedOld
    <2> QED BY <1>1, <1>2, <2>1, Carried DEF RequestsKnow
<1>4. EvidenceKept'
    BY DEF EvidenceKept
<1>5. ConsentFirst'
    BY <1>1, ConsentCarried
<1>6. CancelledForCause'
    BY <1>1, <1>2, CauseCarried
<1> QED BY <1>1, <1>2, <1>3, <1>4, <1>5, <1>6 DEF RowsOK

\* Registration, logout's first statement, and time.
LEMMA RowSteps ==
    ASSUME IInv,
           \/ \E u \in Users, adult \in BOOLEAN : Register(u, adult)
           \/ \E s \in Requests : Logout(s)
           \/ \E u \in Users : GrowsOlder(u) \/ Rests(u)
    PROVE  IInv' /\ RowsOK
<1>1. \A u \in Users : users[u] \in Account /\ Sound(users[u])
    BY DEF IInv, TypeOK
<1>2. ASSUME NEW u \in Users, NEW adult \in BOOLEAN, Register(u, adult)
      PROVE  IInv' /\ RowsOK
    <2>1. users[u] = NoAccount
        BY <1>1, <1>2 DEF Register, Sound
    <2>2. ~CreateUser(adult).deleted
        BY DEF CreateUser, NoAccount
    <2>3. RequestsKnow /\ requests' \in [Requests -> RequestType]
        BY <1>2, RequestsStay DEF Register
    <2> QED BY <1>2, <2>1, <2>2, <2>3, CreateEvolves, RowChanges DEF Register
<1>3. ASSUME NEW s \in Requests, Logout(s)
      PROVE  IInv' /\ RowsOK
    <2> DEFINE u == requests[s].user
               b == IncrementTokenVersion(users[u])
    <2>1. u \in Users /\ users[u].status # "none"
        <3>1. requests[s] \in RequestType
            BY DEF IInv, TypeOK
        <3> QED BY <1>3, <3>1 DEF Logout, RequestType, IInv, Owned, Free
    <2>2. [kind |-> "revoke", user |-> u] \in RequestType
        BY <2>1 DEF RequestType
    <2>3. RequestsKnow /\ requests' \in [Requests -> RequestType]
        BY <1>3, <2>1, <2>2, RequestGoesOn DEF Logout
    <2>4. b.deleted => users[u].deleted
        BY <1>1, <2>1 DEF IncrementTokenVersion, Touched, Account
    <2>5. users' = [users EXCEPT ![u] = b]
        BY <1>3 DEF Logout
    <2>6. /\ b \in Account /\ Sound(b) /\ Evolve(users[u], b) /\ StaysInUse(users[u], b)
        BY <1>1, <2>1, IncrementEvolves
    <2> HIDE DEF b, u
    <2>7. UNCHANGED <<access, refresh, links, consents, arco, job>>
        BY <1>3 DEF Logout
    <2> QED BY <2>1, <2>3, <2>4, <2>5, <2>6, <2>7, RowChanges
<1>4. ASSUME NEW u \in Users, GrowsOlder(u)
      PROVE  IInv' /\ RowsOK
    <2> DEFINE b == [users[u] EXCEPT !.age = @ + 1]
    <2>1. /\ b \in Account /\ Sound(b) /\ Evolve(users[u], b) /\ StaysInUse(users[u], b)
        BY <1>1, <1>4, TimeEvolves DEF GrowsOlder
    <2>2. b.deleted => users[u].deleted
        BY <1>1 DEF Account
    <2>3. users' = [users EXCEPT ![u] = b]
        BY <1>4 DEF GrowsOlder
    <2>4. RequestsKnow /\ requests' \in [Requests -> RequestType]
        BY <1>4, RequestsStay DEF GrowsOlder
    <2> HIDE DEF b
    <2> QED BY <1>4, <2>1, <2>2, <2>3, <2>4, RowChanges DEF GrowsOlder
<1>5. ASSUME NEW u \in Users, Rests(u)
      PROVE  IInv' /\ RowsOK
    <2> DEFINE b == [users[u] EXCEPT !.rested = TRUE]
    <2>1. /\ b \in Account /\ Sound(b) /\ Evolve(users[u], b) /\ StaysInUse(users[u], b)
        BY <1>1, <1>5, TimeEvolves DEF Rests
    <2>2. b.deleted => users[u].deleted
        BY <1>1 DEF Account
    <2>3. users' = [users EXCEPT ![u] = b]
        BY <1>5 DEF Rests
    <2>4. RequestsKnow /\ requests' \in [Requests -> RequestType]
        BY <1>5, RequestsStay DEF Rests
    <2> HIDE DEF b
    <2> QED BY <1>5, <2>1, <2>2, <2>3, <2>4, RowChanges DEF Rests
<1> QED BY <1>2, <1>3, <1>4, <1>5

\* Tokens: issued, redeemed, revoked, expired.
LEMMA TokenSteps ==
    ASSUME IInv,
           \/ \E s \in Requests : \/ RevokeRefreshToken(s) \/ LogoutRevokes(s)
                                  \/ \E t \in RefreshIds : IssueTokens(s, t)
           \/ \E t \in RefreshIds : RefreshExpires(t)
    PROVE  IInv' /\ RowsOK
<1> USE DEF IInv
<1>0. ASSUME UNCHANGED job
      PROVE  \A u \in job'.list :
                /\ job'.phase = "pending" => users[u].age >= PastConsent
                /\ job'.phase = "retention" => users[u].age >= PastInactivity
    BY <1>0 DEF ListedOld
<1>1. ASSUME NEW s \in Requests, RevokeRefreshToken(s)
      PROVE  IInv' /\ RowsOK
    <2> DEFINE request == [kind |-> "issue", user |-> requests[s].user,
                           version |-> requests[s].version]
    <2>1. /\ requests[s].user \in Users /\ requests[s].version \in Nat
          /\ requests[s].token \in RefreshIds
        <3>1. requests[s] \in RequestType
            BY DEF TypeOK
        <3> QED BY <1>1, <3>1 DEF RevokeRefreshToken, RequestType
    <2>2. /\ request \in RequestType
          /\ Behind(request.user, request.version)
          /\ users[request.user].status # "none"
        BY <1>1, <2>1 DEF RequestType, RevokeRefreshToken, VersionsRead, Owned, Free
    <2>3. RequestsKnow /\ requests' \in [Requests -> RequestType]
        BY <1>1, <2>2, RequestGoesOn DEF RevokeRefreshToken
    <2>4. TypeOK'
        BY <1>1, <2>1, <2>3 DEF TypeOK, RevokeRefreshToken
    <2> QED BY <1>0, <1>1, <2>3, <2>4, RowsStay DEF RevokeRefreshToken, VersionsRead
<1>2. ASSUME NEW s \in Requests, LogoutRevokes(s)
      PROVE  IInv' /\ RowsOK
    <2>1. RequestsKnow /\ requests' \in [Requests -> RequestType]
        BY <1>2, RequestEnds DEF LogoutRevokes
    <2>2. TypeOK'
        BY <1>2, <2>1 DEF TypeOK, LogoutRevokes, RevokeRefreshTokensForUser
    <2> QED BY <1>0, <1>2, <2>1, <2>2, RowsStay DEF LogoutRevokes, VersionsRead
<1>3. ASSUME NEW s \in Requests, NEW t \in RefreshIds, IssueTokens(s, t)
      PROVE  IInv' /\ RowsOK
    <2>1. requests[s].user \in Users /\ requests[s].version \in Nat
        <3>1. requests[s] \in RequestType
            BY DEF TypeOK
        <3> QED BY <1>3, <3>1 DEF IssueTokens, RequestType
    <2>2. RequestsKnow /\ requests' \in [Requests -> RequestType]
        BY <1>3, RequestEnds DEF IssueTokens
    <2>3. access' \subseteq Token /\ refresh' \in [RefreshIds -> Users \cup {NoUser}]
        BY <1>3, <2>1 DEF TypeOK, IssueTokens, Token
    <2>4. TypeOK'
        BY <1>3, <2>2, <2>3 DEF TypeOK, IssueTokens
    <2>5. \A token \in access' : Behind(token.user, token.version)
        BY <1>3 DEF IssueTokens, VersionsRead
    <2> QED BY <1>0, <1>3, <2>2, <2>4, <2>5, RowsStay DEF IssueTokens
<1>4. ASSUME NEW t \in RefreshIds, RefreshExpires(t)
      PROVE  IInv' /\ RowsOK
    <2>1. RequestsKnow /\ requests' \in [Requests -> RequestType]
        BY <1>4, RequestsStay DEF RefreshExpires
    <2>2. TypeOK'
        BY <1>4 DEF TypeOK, RefreshExpires
    <2> QED BY <1>0, <1>4, <2>1, <2>2, RowsStay DEF RefreshExpires, VersionsRead
<1> QED BY <1>1, <1>2, <1>3, <1>4

\* The maintenance lists, goes to its next part, ends or fails.
LEMMA ListSteps ==
    ASSUME IInv,
           \/ ListPendingTutorConsentUsers \/ ListSuspendedUsersForCancellation
           \/ Purge \/ MaintenanceFails \/ UNCHANGED vars
    PROVE  IInv' /\ RowsOK
<1> USE DEF IInv
<1>1. UNCHANGED <<users, access, refresh, links, consents, arco, requests>>
    BY DEF ListPendingTutorConsentUsers, ListSuspendedUsersForCancellation, Purge,
           MaintenanceFails, tables, vars
<1>2. /\ job' \in [phase: Phases, list: SUBSET Users]
      /\ \A u \in job'.list :
            /\ job'.phase = "pending" => users[u].age >= PastConsent
            /\ job'.phase = "retention" => users[u].age >= PastInactivity
    <2>1. CASE ListPendingTutorConsentUsers
        BY <2>1 DEF ListPendingTutorConsentUsers, IsBatch, PendingExpired, Phases
    <2>2. CASE ListSuspendedUsersForCancellation
        BY <2>2 DEF ListSuspendedUsersForCancellation, IsBatch, SuspensionExpired, Phases, Sound
    <2>3. CASE Purge
        BY <2>3 DEF Purge, TypeOK, Phases
    <2>4. CASE MaintenanceFails
        BY <2>4 DEF MaintenanceFails, Phases
    <2>5. CASE UNCHANGED vars
        BY <2>5 DEF vars, TypeOK, ListedOld
    <2> QED BY <2>1, <2>2, <2>3, <2>4, <2>5
<1>3. TypeOK'
    BY <1>1, <1>2 DEF TypeOK
<1> QED BY <1>1, <1>2, <1>3, RequestsStay, RowsStay DEF VersionsRead

\* One statement suspends all that are inactive.
LEMMA SuspendStep ==
    ASSUME IInv, SuspendInactive
    PROVE  IInv' /\ RowsOK
<1> USE DEF IInv
<1>1. \A u \in Users : users[u] \in Account
    BY DEF TypeOK
<1>2. \A u \in Users : users'[u] = SuspendInactivePlayers(users[u])
    BY DEF SuspendInactive
<1>3. /\ RowsOK
      /\ \A u \in Users : StaysInUse(users[u], users'[u])
    <2>1. \A u \in Users : /\ users'[u] \in Account /\ Sound(users'[u])
                           /\ Evolve(users[u], users'[u]) /\ StaysInUse(users[u], users'[u])
        BY <1>1, <1>2, SuspendEvolves
    <2>2. users' = [u \in Users |-> users'[u]]
        BY <1>2 DEF SuspendInactive
    <2> QED BY <2>1, <2>2 DEF RowsOK
<1>4. \A u \in Users : users'[u].deleted => users[u].deleted
    <2>1. ASSUME NEW u \in Users, users'[u].deleted
          PROVE  users[u].deleted
        <3>1. CASE users[u].status = "active" /\ ~users[u].deleted /\ users[u].age >= PastInactivity
            BY <1>1, <1>2, <2>1, <3>1 DEF SuspendInactivePlayers, Touched, Account
        <3>2. CASE ~(users[u].status = "active" /\ ~users[u].deleted /\ users[u].age >= PastInactivity)
            BY <1>2, <2>1, <3>2 DEF SuspendInactivePlayers
        <3> QED BY <3>1, <3>2
    <2> QED BY <2>1
<1>5. TypeOK'
    BY <1>3 DEF SuspendInactive, TypeOK, RowsOK, Phases
<1>6. VersionsRead' /\ Owned' /\ ListedOld'
    <2>1. RequestsKnow
        BY RequestsStay DEF SuspendInactive
    <2>2. /\ \A token \in access' : Behind(token.user, token.version)
          /\ \A l \in Links : links'[l].state # "none" => links'[l].user \in Users
          /\ \A r \in ArcoIds : arco'[r].status # "none" =>
                arco'[r].user \in Users /\ users[arco'[r].user].status # "none"
          /\ job'.list = {}
        BY DEF VersionsRead, Owned, SuspendInactive, TypeOK
    <2> QED BY <1>3, <1>5, <2>1, <2>2, Carried DEF RequestsKnow
<1>7. EvidenceKept'
    BY DEF EvidenceKept, SuspendInactive
<1>8. ConsentFirst'
    BY <1>3, ConsentCarried DEF SuspendInactive
<1>9. CancelledForCause'
    BY <1>3, <1>4, <1>5, CauseCarried DEF SuspendInactive
<1> QED BY <1>3, <1>5, <1>6, <1>7, <1>8, <1>9 DEF RowsOK

-----------------------------------------------------------------------------
(* Steps on an account and its consents *)

\* Coming of age, with the consents it revokes.
LEMMA AgeUpStep ==
    ASSUME IInv, NEW s \in Requests, AgeUp(s)
    PROVE  IInv' /\ RowsOK
<1> USE DEF IInv
<1> DEFINE u == requests[s].user
           b == UpdateUserAdultStatus(IncrementAgeUpAttempts(users[u]))
<1>1. u \in Users /\ users[u].status # "none" /\ users[u] \in Account /\ Sound(users[u])
    <2>1. requests[s] \in RequestType
        BY DEF TypeOK
    <2> QED BY <2>1 DEF AgeUp, RequestType, Owned, Free, TypeOK
<1>2. b \in Account /\ Sound(b) /\ Evolve(users[u], b) /\ b.adult
    BY <1>1, AgeUpEvolves DEF AgeUp
<1>3. b.deleted => users[u].deleted
    BY <1>1 DEF UpdateUserAdultStatus, IncrementAgeUpAttempts, Touched, Account
<1>4. /\ users' = [users EXCEPT ![u] = b]
      /\ consents' = [l \in Links |-> IF links[l].user = u /\ consents[l] # "none"
                                      THEN "revoked" ELSE consents[l]]
      /\ Ends(s) /\ UNCHANGED <<access, refresh, links, arco, job>>
    BY DEF AgeUp, PseudonymizeTutorConsents
<1> HIDE DEF u, b
<1>5. RowsOK /\ users'[u] = b /\ \A v \in Users : v # u => users'[v] = users[v]
    BY <1>1, <1>2, <1>4, OneRow
<1>6. RequestsKnow /\ requests' \in [Requests -> RequestType]
    BY <1>4, RequestEnds
<1>7. TypeOK'
    BY <1>4, <1>5, <1>6 DEF TypeOK, RowsOK
<1>8. VersionsRead' /\ Owned' /\ ListedOld'
    <2>1. /\ \A token \in access' : Behind(token.user, token.version)
          /\ \A l \in Links : links'[l].state # "none" => links'[l].user \in Users
          /\ \A r \in ArcoIds : arco'[r].status # "none" =>
                arco'[r].user \in Users /\ users[arco'[r].user].status # "none"
          /\ \A v \in job'.list :
                /\ job'.phase = "pending" => users[v].age >= PastConsent
                /\ job'.phase = "retention" => users[v].age >= PastInactivity
        BY <1>4 DEF VersionsRead, Owned, ListedOld
    <2> QED BY <1>5, <1>6, <1>7, <2>1, Carried DEF RequestsKnow
<1>9. EvidenceKept'
    BY <1>4 DEF EvidenceKept
<1>10. ConsentFirst'
    <2>1. ASSUME NEW v \in Users
          PROVE  \/ users'[v].adult
                 \/ /\ StaysInUse(users[v], users'[v])
                    /\ \A l \in Links : links[l].user = v /\ consents[l] = "given" =>
                        links'[l].user = v /\ consents'[l] = "given"
        <3>1. CASE v = u
            BY <1>2, <1>5, <3>1
        <3>2. CASE v # u
            BY <1>4, <1>5, <3>2, EvolveSame DEF TypeOK
        <3> QED BY <3>1, <3>2
    <2> QED BY <2>1, ConsentCarried
<1>11. CancelledForCause'
    BY <1>3, <1>4, <1>5, <1>7, CauseCarried
<1> QED BY <1>5, <1>7, <1>8, <1>9, <1>10, <1>11 DEF RowsOK

\* A cancellation, of an account for which the step gives a cause.
LEMMA CancelStep ==
    ASSUME IInv, RequestsKnow, NEW u \in Users, users[u].status # "none", NEW reason \in Causes,
           CancelUser(u, reason), UNCHANGED <<access, links, requests>>,
           arco' \in [ArcoIds -> [user: Users \cup {NoUser}, type: ArcoTypes,
                                  status: {"none", "pending", "resolved", "rejected"}]],
           job' \in [phase: Phases, list: SUBSET Users],
           \A r \in ArcoIds : arco[r].status = "resolved" => arco'[r] = arco[r],
           \A r \in ArcoIds : arco'[r].status = "resolved" =>
                arco'[r] = arco[r] \/ arco'[r].user = u,
           \A r \in ArcoIds : arco'[r].status # "none" =>
                arco'[r].user \in Users /\ users[arco'[r].user].status # "none",
           \A v \in job'.list :
                /\ job'.phase = "pending" => users[v].age >= PastConsent
                /\ job'.phase = "retention" => users[v].age >= PastInactivity,
           ~users[u].deleted =>
                \/ /\ reason = "arco_cancelacion"
                   /\ \E r \in ArcoIds : /\ arco'[r].user = u /\ arco'[r].type = "cancelacion"
                                         /\ arco'[r].status = "resolved"
                \/ reason = "pending_tutor_consent_expired" /\ users[u].age >= PastConsent
                \/ reason = "inactivity_retention_expired" /\ users[u].age >= PastInactivity
    PROVE  IInv' /\ RowsOK
<1> USE DEF IInv
<1> DEFINE b == PseudonymizeUser(users[u], reason)
<1>1. users[u] \in Account /\ Sound(users[u])
    BY DEF TypeOK
<1>2. /\ b \in Account /\ Sound(b) /\ Evolve(users[u], b) /\ StaysInUse(users[u], b)
      /\ b.deleted /\ (~users[u].deleted => b.reason = reason)
    BY <1>1, PseudonymizeEvolves
<1>3. /\ users' = [users EXCEPT ![u] = b]
      /\ consents' = [l \in Links |-> IF links[l].user = u /\ consents[l] # "none"
                                      THEN "revoked" ELSE consents[l]]
      /\ refresh' = [t \in RefreshIds |-> IF refresh[t] = u THEN NoUser ELSE refresh[t]]
    BY DEF CancelUser, PseudonymizeTutorConsents, RevokeRefreshTokensForUser
<1> HIDE DEF b
<1>4. RowsOK /\ users'[u] = b /\ \A v \in Users : v # u => users'[v] = users[v]
    BY <1>1, <1>2, <1>3, OneRow
<1>5. TypeOK'
    BY <1>3, <1>4 DEF TypeOK, RowsOK
<1>6. VersionsRead' /\ Owned' /\ ListedOld'
    <2>1. /\ \A token \in access' : Behind(token.user, token.version)
          /\ \A l \in Links : links'[l].state # "none" => links'[l].user \in Users
        BY DEF VersionsRead, Owned
    <2> QED BY <1>4, <1>5, <2>1, Carried DEF RequestsKnow
<1>7. EvidenceKept'
    BY <1>3 DEF EvidenceKept
<1>8. ConsentFirst'
    <2>1. ASSUME NEW v \in Users
          PROVE  \/ users'[v].status \notin {"active", "suspended"}
                 \/ /\ StaysInUse(users[v], users'[v])
                    /\ \A l \in Links : links[l].user = v /\ consents[l] = "given" =>
                        links'[l].user = v /\ consents'[l] = "given"
        <3>1. CASE v = u
            BY <1>2, <1>4, <3>1 DEF Sound
        <3>2. CASE v # u
            BY <1>3, <1>4, <3>2, EvolveSame DEF TypeOK
        <3> QED BY <3>1, <3>2
    <2> QED BY <2>1, ConsentCarried
<1>9. CancelledForCause'
    <2>1. ~users[u].deleted => Caused(u)'
        <3>1. users[u].age <= users'[u].age /\ users[u].age \in Nat /\ users'[u].age \in Nat
            BY <1>1, <1>2, <1>4 DEF Evolve, Account, Ages
        <3> QED BY <1>2, <1>4, <3>1 DEF Caused, PastConsent, PastInactivity
    <2>2. \A v \in Users : users'[v].deleted => users[v].deleted \/ Caused(v)'
        BY <1>4, <2>1
    <2>3. \A r \in ArcoIds : (arco'[r].status = "resolved" /\ arco'[r].type = "cancelacion") =>
                arco'[r] = arco[r] \/ users'[arco'[r].user].deleted
        BY <1>2, <1>4
    <2> QED BY <1>4, <1>5, <2>2, <2>3, CauseCarried
<1> QED BY <1>4, <1>5, <1>6, <1>7, <1>8, <1>9 DEF RowsOK

\* The maintenance cancels for the age that the listed account has reached.
LEMMA CancelListedStep ==
    ASSUME IInv, NEW u \in Users, CancelListed(u)
    PROVE  IInv' /\ RowsOK
<1> USE DEF IInv
<1> DEFINE reason == IF job.phase = "pending" THEN "pending_tutor_consent_expired"
                                              ELSE "inactivity_retention_expired"
<1>1. /\ job' \in [phase: Phases, list: SUBSET Users]
      /\ job'.list \subseteq job.list /\ job'.phase = job.phase
    BY DEF CancelListed, TypeOK
<1>2. /\ users[u] \in Account /\ users[u].age >= PastConsent
      /\ job.phase = "retention" => users[u].age >= PastInactivity
    BY DEF CancelListed, ListedOld, TypeOK, PastConsent, PastInactivity, Account, Ages
<1>3. users[u].status # "none"
    BY <1>2 DEF Sound, NoAccount, PastConsent
<1>4. /\ reason \in Causes /\ CancelUser(u, reason)
      /\ \/ reason = "pending_tutor_consent_expired" /\ users[u].age >= PastConsent
         \/ reason = "inactivity_retention_expired" /\ users[u].age >= PastInactivity
      /\ UNCHANGED <<access, links, arco, requests>>
    BY <1>2 DEF Causes, CancelListed
<1> HIDE DEF reason
<1>5. /\ \A v \in job'.list :
            /\ job'.phase = "pending" => users[v].age >= PastConsent
            /\ job'.phase = "retention" => users[v].age >= PastInactivity
      /\ \A r \in ArcoIds : arco'[r].status # "none" =>
            arco'[r].user \in Users /\ users[arco'[r].user].status # "none"
      /\ arco' \in [ArcoIds -> [user: Users \cup {NoUser}, type: ArcoTypes,
                                status: {"none", "pending", "resolved", "rejected"}]]
    BY <1>1, <1>4 DEF ListedOld, Owned, TypeOK
<1>6. RequestsKnow
    BY <1>4, RequestsStay
<1> QED BY <1>1, <1>3, <1>4, <1>5, <1>6, CancelStep

\* An administrator resolves a request, with or without a cancellation.
LEMMA ResolveStep ==
    ASSUME IInv, NEW r \in ArcoIds, NEW approved \in BOOLEAN, ResolveArcoRequest(r, approved)
    PROVE  IInv' /\ RowsOK
<1> USE DEF IInv
<1> DEFINE status == IF approved THEN "resolved" ELSE "rejected"
           u == arco[r].user
<1>1. /\ arco' = [arco EXCEPT ![r].status = status]
      /\ UNCHANGED <<access, links, requests, job>>
      /\ arco[r].status = "pending"
    BY DEF ResolveArcoRequest
<1>2. /\ arco' \in [ArcoIds -> [user: Users \cup {NoUser}, type: ArcoTypes,
                                status: {"none", "pending", "resolved", "rejected"}]]
      /\ \A q \in ArcoIds : q # r => arco'[q] = arco[q]
      /\ arco'[r].user = u /\ arco'[r].type = arco[r].type /\ arco'[r].status = status
    BY <1>1 DEF TypeOK
<1>3. u \in Users /\ users[u].status # "none" /\ status \in {"resolved", "rejected"}
    BY <1>1 DEF Owned
<1>4. RequestsKnow /\ requests' \in [Requests -> RequestType]
    BY <1>1, RequestsStay
<1>5. /\ \A v \in job'.list :
            /\ job'.phase = "pending" => users[v].age >= PastConsent
            /\ job'.phase = "retention" => users[v].age >= PastInactivity
      /\ \A q \in ArcoIds : arco'[q].status # "none" =>
            arco'[q].user \in Users /\ users[arco'[q].user].status # "none"
      /\ job' \in [phase: Phases, list: SUBSET Users]
      /\ \A token \in access' : Behind(token.user, token.version)
      /\ \A l \in Links : links'[l].state # "none" => links'[l].user \in Users
    BY <1>1, <1>2, <1>3 DEF ListedOld, Owned, VersionsRead, TypeOK
<1>6. CASE Cancels(r, approved)
    <2>1. CancelUser(u, "arco_cancelacion") /\ "arco_cancelacion" \in Causes
        BY <1>6 DEF ResolveArcoRequest, Causes
    <2>2. arco'[r].type = "cancelacion" /\ arco'[r].status = "resolved"
        BY <1>2, <1>6 DEF Cancels
    <2>3. /\ \A q \in ArcoIds : arco[q].status = "resolved" => arco'[q] = arco[q]
          /\ \A q \in ArcoIds : arco'[q].status = "resolved" =>
                arco'[q] = arco[q] \/ arco'[q].user = u
        BY <1>1, <1>2
    <2> HIDE DEF u, status
    <2> QED BY <1>1, <1>2, <1>3, <1>4, <1>5, <2>1, <2>2, <2>3, CancelStep
<1>7. CASE ~Cancels(r, approved)
    <2>1. UNCHANGED <<users, consents, refresh>>
        BY <1>7 DEF ResolveArcoRequest
    <2>2. RowsOK /\ \A v \in Users : StaysInUse(users[v], users'[v])
        BY <2>1, NoRow
    <2>3. TypeOK'
        BY <1>1, <1>2, <2>1 DEF TypeOK
    <2>4. VersionsRead' /\ Owned' /\ ListedOld'
        BY <1>4, <1>5, <2>2, <2>3, Carried DEF RequestsKnow
    <2>5. EvidenceKept' /\ ConsentFirst'
        BY <1>1, <2>1 DEF EvidenceKept, ConsentFirst
    <2>6. CancelledForCause'
        <3>1. /\ \A q \in ArcoIds : arco[q].status = "resolved" => arco'[q] = arco[q]
              /\ \A q \in ArcoIds : (arco'[q].status = "resolved" /\ arco'[q].type = "cancelacion") =>
                    arco'[q] = arco[q] \/ users'[arco'[q].user].deleted
            BY <1>1, <1>2, <1>7 DEF Cancels
        <3> QED BY <2>1, <2>2, <2>3, <3>1, CauseCarried
    <2> QED BY <2>2, <2>3, <2>4, <2>5, <2>6 DEF RowsOK
<1> QED BY <1>6, <1>7

\* A request is recorded.
LEMMA SubmitStep ==
    ASSUME IInv, NEW s \in Requests, NEW r \in ArcoIds, SubmitArcoRequest(s, r)
    PROVE  IInv' /\ RowsOK
<1> USE DEF IInv
<1>1. requests[s].user \in Users /\ requests[s].type \in ArcoTypes
      /\ users[requests[s].user].status # "none"
    <2>1. requests[s] \in RequestType
        BY DEF TypeOK
    <2> QED BY <2>1 DEF SubmitArcoRequest, RequestType, Owned, Free
<1>2. /\ arco' \in [ArcoIds -> [user: Users \cup {NoUser}, type: ArcoTypes,
                                status: {"none", "pending", "resolved", "rejected"}]]
      /\ \A q \in ArcoIds : q # r => arco'[q] = arco[q]
      /\ arco'[r].status = "pending" /\ arco'[r].user = requests[s].user
      /\ arco[r].status = "none"
      /\ UNCHANGED <<users, access, refresh, links, consents, job>>
    BY <1>1 DEF SubmitArcoRequest, TypeOK
<1>3. RequestsKnow /\ requests' \in [Requests -> RequestType]
    BY RequestEnds DEF SubmitArcoRequest
<1>4. RowsOK /\ TypeOK'
    BY <1>2, <1>3, NoRow DEF TypeOK
<1>5. VersionsRead' /\ Owned' /\ ListedOld'
    <2>1. /\ \A v \in job'.list :
                /\ job'.phase = "pending" => users[v].age >= PastConsent
                /\ job'.phase = "retention" => users[v].age >= PastInactivity
          /\ \A q \in ArcoIds : arco'[q].status # "none" =>
                arco'[q].user \in Users /\ users[arco'[q].user].status # "none"
          /\ \A token \in access' : Behind(token.user, token.version)
          /\ \A l \in Links : links'[l].state # "none" => links'[l].user \in Users
        BY <1>1, <1>2 DEF ListedOld, Owned, VersionsRead
    <2> QED BY <1>3, <1>4, <2>1, Carried DEF RequestsKnow
<1>6. EvidenceKept' /\ ConsentFirst'
    BY <1>2 DEF EvidenceKept, ConsentFirst
<1>7. CancelledForCause'
    BY <1>2, <1>4, CauseCarried
<1> QED BY <1>4, <1>5, <1>6, <1>7 DEF RowsOK

\* Links are mailed or expire: those that were clicked stay.
LEMMA LinkSteps ==
    ASSUME IInv,
           \/ \E s \in Requests, l \in Links : StoreTutorConsentToken(s, l)
           \/ \E l \in Links : LinkExpires(l)
    PROVE  IInv' /\ RowsOK
<1> USE DEF IInv
<1>1. UNCHANGED <<users, access, refresh, consents, arco, job>>
    BY DEF StoreTutorConsentToken, LinkExpires
<1> DEFINE Kept ==
        /\ links' \in [Links -> [user: Users \cup {NoUser}, state: {"none", "sent", "verified"}]]
        /\ \A l \in Links : links'[l].state # "none" => links'[l].user \in Users
        /\ \A l \in Links : links[l].state = "verified" => links'[l] = links[l]
<1>2. Kept /\ RequestsKnow /\ requests' \in [Requests -> RequestType]
    <2>1. ASSUME NEW s \in Requests, NEW l \in Links, StoreTutorConsentToken(s, l)
          PROVE  Kept /\ RequestsKnow /\ requests' \in [Requests -> RequestType]
        <3>1. requests[s].user \in Users
            <4>1. requests[s] \in RequestType
                BY DEF TypeOK
            <4> QED BY <2>1, <4>1 DEF StoreTutorConsentToken, RequestType
        <3>2. \A k \in Links : links'[k] =
                IF k = l THEN [user |-> requests[s].user, state |-> "sent"]
                ELSE IF DeleteUnverified(k, requests[s].user) THEN NoLink ELSE links[k]
            BY <2>1 DEF StoreTutorConsentToken
        <3>3. links' = [k \in Links |-> links'[k]] /\ links[l].state = "none"
            BY <2>1 DEF StoreTutorConsentToken
        <3>4. \A k \in Links :
                /\ links'[k] \in [user: Users \cup {NoUser}, state: {"none", "sent", "verified"}]
                /\ links'[k].state # "none" => links'[k].user \in Users
                /\ links[k].state = "verified" => links'[k] = links[k]
            BY <3>1, <3>2, <3>3 DEF TypeOK, Owned, NoLink, DeleteUnverified
        <3>5. RequestsKnow /\ requests' \in [Requests -> RequestType]
            BY <2>1, RequestEnds DEF StoreTutorConsentToken
        <3> QED BY <3>3, <3>4, <3>5
    <2>2. ASSUME NEW l \in Links, LinkExpires(l)
          PROVE  Kept /\ RequestsKnow /\ requests' \in [Requests -> RequestType]
        BY <2>2, RequestsStay DEF LinkExpires, TypeOK, Owned, NoLink
    <2> QED BY <2>1, <2>2
<1>3. RowsOK /\ TypeOK' /\ \A u \in Users : StaysInUse(users[u], users'[u])
    BY <1>1, <1>2, NoRow DEF TypeOK
<1>4. VersionsRead' /\ Owned' /\ ListedOld'
    <2>1. /\ \A v \in job'.list :
                /\ job'.phase = "pending" => users[v].age >= PastConsent
                /\ job'.phase = "retention" => users[v].age >= PastInactivity
          /\ \A q \in ArcoIds : arco'[q].status # "none" =>
                arco'[q].user \in Users /\ users[arco'[q].user].status # "none"
          /\ \A token \in access' : Behind(token.user, token.version)
        BY <1>1 DEF ListedOld, Owned, VersionsRead
    <2> QED BY <1>2, <1>3, <2>1, Carried DEF RequestsKnow
<1>5. EvidenceKept'
    BY <1>1, <1>2 DEF EvidenceKept
<1>6. ConsentFirst'
    <2>1. \A l \in Links : consents[l] = "given" => links'[l] = links[l] /\ consents'[l] = "given"
        BY <1>1, <1>2 DEF EvidenceKept
    <2> QED BY <1>3, <2>1, ConsentCarried
<1>7. CancelledForCause'
    BY <1>1 DEF CancelledForCause
<1> QED BY <1>3, <1>4, <1>5, <1>6, <1>7 DEF RowsOK

\* A click gives the consent and activates the account.
LEMMA VerifyStep ==
    ASSUME IInv, NEW l \in Links, VerifyTutorConsent(l)
    PROVE  IInv' /\ RowsOK
<1> USE DEF IInv
<1> DEFINE u == links[l].user
           b == ActivateTutorConsentUser(users[u])
<1>1. u \in Users /\ users[u] \in Account /\ Sound(users[u])
    BY DEF VerifyTutorConsent, Owned, TypeOK
<1>2. b \in Account /\ Sound(b) /\ Evolve(users[u], b) /\ (b.deleted => users[u].deleted)
    <2>1. b.deleted => users[u].deleted
        BY <1>1 DEF ActivateTutorConsentUser, Touched, Account
    <2> QED BY <1>1, <2>1, ActivateEvolves
<1>3. /\ users' = [users EXCEPT ![u] = b]
      /\ consents' = [consents EXCEPT ![l] = "given"]
      /\ links' = [links EXCEPT ![l].state = "verified"]
      /\ UNCHANGED <<access, refresh, arco, requests, job>>
    BY DEF VerifyTutorConsent
<1>4. links'[l].user = u /\ consents'[l] = "given" /\ links'[l].state = "verified"
      /\ \A k \in Links : k # l => links'[k] = links[k] /\ consents'[k] = consents[k]
    BY <1>3 DEF TypeOK
<1> HIDE DEF u, b
<1>5. RowsOK /\ users'[u] = b /\ \A v \in Users : v # u => users'[v] = users[v]
    BY <1>1, <1>2, <1>3, OneRow
<1>6. TypeOK'
    <2>1. /\ consents' \in [Links -> {"none", "given", "revoked"}]
          /\ links' \in [Links -> [user: Users \cup {NoUser}, state: {"none", "sent", "verified"}]]
        BY <1>3 DEF TypeOK
    <2> QED BY <1>3, <1>5, <2>1 DEF TypeOK, RowsOK
<1>7. VersionsRead' /\ Owned' /\ ListedOld'
    <2>1. /\ \A v \in job'.list :
                /\ job'.phase = "pending" => users[v].age >= PastConsent
                /\ job'.phase = "retention" => users[v].age >= PastInactivity
          /\ \A q \in ArcoIds : arco'[q].status # "none" =>
                arco'[q].user \in Users /\ users[arco'[q].user].status # "none"
          /\ \A token \in access' : Behind(token.user, token.version)
          /\ \A k \in Links : links'[k].state # "none" => links'[k].user \in Users
        BY <1>1, <1>3, <1>4 DEF ListedOld, Owned, VersionsRead
    <2>2. RequestsKnow
        BY <1>3, RequestsStay
    <2> QED BY <1>5, <1>6, <2>1, <2>2, Carried DEF RequestsKnow
<1>8. EvidenceKept'
    BY <1>4 DEF EvidenceKept
<1>9. ConsentFirst'
    <2>1. ASSUME NEW v \in Users, users'[v].status \in {"active", "suspended"}, ~users'[v].adult
          PROVE  \E k \in Links : links'[k].user = v /\ consents'[k] = "given"
        <3>1. CASE v = u
            BY <1>4, <3>1
        <3>2. CASE v # u
            <4>1. PICK k \in Links : links[k].user = v /\ consents[k] = "given"
                BY <1>5, <2>1, <3>2 DEF ConsentFirst
            <4>2. k # l
                BY <3>2, <4>1 DEF u
            <4> QED BY <1>4, <4>1, <4>2
        <3> QED BY <3>1, <3>2
    <2> QED BY <2>1 DEF ConsentFirst
<1>10. CancelledForCause'
    <2>1. \A v \in Users : users'[v].deleted => users[v].deleted
        BY <1>2, <1>5
    <2> QED BY <1>3, <1>5, <1>6, <2>1, CauseCarried
<1> QED BY <1>5, <1>6, <1>7, <1>8, <1>9, <1>10 DEF RowsOK

-----------------------------------------------------------------------------
(* Every step, and the theorems *)

LEMMA EveryStep ==
    ASSUME IInv, [Next]_vars
    PROVE  IInv' /\ RowsOK
<1>1. ASSUME NEW s \in Requests, Handles(s)
      PROVE  IInv' /\ RowsOK
    BY <1>1, RequestReads, TokenSteps, RowSteps, AgeUpStep, LinkSteps, SubmitStep DEF Handles
<1>2. CASE Maintains
    BY <1>2, ListSteps, SuspendStep, CancelListedStep DEF Maintains
<1>3. CASE \E u \in Users : \/ \E adult \in BOOLEAN : Register(u, adult)
                            \/ GrowsOlder(u) \/ Rests(u)
    BY <1>3, RowSteps
<1>4. CASE \E t \in RefreshIds : RefreshExpires(t)
    BY <1>4, TokenSteps
<1>5. CASE \E l \in Links : LinkExpires(l) \/ VerifyTutorConsent(l)
    BY <1>5, LinkSteps, VerifyStep
<1>6. CASE \E r \in ArcoIds, approved \in BOOLEAN : ResolveArcoRequest(r, approved)
    BY <1>6, ResolveStep
<1>7. CASE UNCHANGED vars
    BY <1>7, ListSteps
<1> QED BY <1>1, <1>2, <1>3, <1>4, <1>5, <1>6, <1>7 DEF Next

\* The inductive invariant holds of every reachable state.
THEOREM AccountInvariant == Spec => []IInv
BY InitInv, EveryStep, PTL DEF Spec

\* Every reachable state is well typed; attempts to come of age are bounded.
THEOREM AccountTypes == Spec => []TypeOK
<1>1. IInv => TypeOK
    BY DEF IInv
<1> QED BY <1>1, AccountInvariant, PTL

\* No token of an account that is not active passes the router's check.
THEOREM ActiveOnly == Spec => []ActingMeansActive
<1>1. IInv => ActingMeansActive
    BY AcceptedActive DEF ActingMeansActive
<1> QED BY <1>1, AccountInvariant, PTL

\* No minor plays without a tutor's consent in force.
THEOREM MinorsHaveConsent == Spec => []ConsentFirst
<1>1. IInv => ConsentFirst
    BY DEF IInv
<1> QED BY <1>1, AccountInvariant, PTL

\* Every consent keeps its clicked link.
THEOREM EvidenceStays == Spec => []EvidenceKept
<1>1. IInv => EvidenceKept
    BY DEF IInv
<1> QED BY <1>1, AccountInvariant, PTL

\* Approved cancellations are done, and none is pretended.
THEOREM ArcoIsHonoured == Spec => []ArcoHonoured
<1>1. IInv => ArcoHonoured
    BY DEF IInv, CancelledForCause, ArcoHonoured
<1> QED BY <1>1, AccountInvariant, PTL

\* Cancellation is final.
THEOREM CancellationFinal == Spec => CancelledStays
<1>1. IInv /\ [Next]_vars =>
        [\A u \in Users : users[u].deleted =>
            /\ users'[u].deleted /\ users'[u].status = "deleted"
            /\ users'[u].reason = users[u].reason]_vars
    BY EveryStep DEF RowsOK, Evolve, Sound
<1> QED BY <1>1, AccountInvariant, PTL DEF Spec, CancelledStays
=============================================================================
