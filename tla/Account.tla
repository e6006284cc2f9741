------------------------------ MODULE Account ------------------------------
(***************************************************************************)
(* The life of a player's account in the backend: registration, consent of *)
(* a minor's tutor by a link, coming of age, login, refresh and logout,    *)
(* the request to be cancelled (ARCO) and its resolution, and the legal    *)
(* maintenance that cancels and suspends by age.                           *)
(*                                                                         *)
(* A statement outside a transaction is a step of its own; a SERIALIZABLE  *)
(* transaction is one step, at its commit.  A request that has passed its  *)
(* first read (or the token check of the router) and has not written yet   *)
(* stands in `requests': what it read may be stale when it goes on.        *)
(*                                                                         *)
(* Time is told apart only where a query looks at it: how old an account   *)
(* is (older than the limit for a pending consent, older than the limit    *)
(* for inactivity) and whether its row rested for the time after which a   *)
(* suspended account is cancelled.  Access tokens do not expire here,      *)
(* which only leaves more of them.                                         *)
(***************************************************************************)
EXTENDS Naturals, FiniteSets, FiniteSetsExt

CONSTANTS Users,        \* the accounts that may be registered
          Applicants,   \* who registers, and whether as an adult
          NoUser,       \* the owner of a row that is not there
          Requests,     \* requests the server handles at a time
          RefreshIds,   \* places for refresh tokens that are live
          Links,        \* places for links mailed to tutors
          ArcoIds,      \* ARCO requests
          AgeUpLimit,   \* coming-of-age attempts of an account, 3 in the code
          BatchSize,    \* accounts that a maintenance run lists at most
          MaxVersion    \* bound: no logout at this token version

ASSUME AccountAssumption ==
    /\ NoUser \notin Users
    /\ Applicants \subseteq Users \X BOOLEAN
    /\ IsFiniteSet(Users)
    /\ AgeUpLimit \in Nat \ {0} /\ BatchSize \in Nat \ {0} /\ MaxVersion \in Nat

VARIABLES users,     \* table users
          access,    \* access tokens that were handed out
          refresh,   \* table refresh_tokens: the owner of a live token
          links,     \* table tutor_consent_tokens
          consents,  \* table tutor_consents, a row for a link
          arco,      \* table arco_requests
          requests,  \* what the running requests have read
          job        \* the run of the maintenance

vars == <<users, access, refresh, links, consents, arco, requests, job>>
tables == <<users, access, refresh, links, consents, arco>>

Statuses == {"none", "pending_tutor_consent", "active", "suspended", "deleted"}

Reasons == {"none", "inactive_suspension_pending_cancel", "arco_cancelacion",
            "pending_tutor_consent_expired", "inactivity_retention_expired"}

\* created_at: within the limit for the consent, past it, and past the year
\* after which a player counts as inactive.
Ages == 0 .. 2
PastConsent == 1
PastInactivity == 2

ArcoTypes == {"cancelacion", "rectificacion"}

Account == [status: Statuses, deleted: BOOLEAN, adult: BOOLEAN, version: Nat,
            attempts: 0 .. AgeUpLimit, age: Ages, rested: BOOLEAN, reason: Reasons]

NoLink == [user |-> NoUser, state |-> "none"]

NoAccount == [status |-> "none", deleted |-> FALSE, adult |-> FALSE, version |-> 0,
              attempts |-> 0, age |-> 0, rested |-> FALSE, reason |-> "none"]

Token == [user: Users, version: Nat]

RequestType ==
    [kind: {"none"}]
        \cup [kind: {"issue"}, user: Users, version: Nat]
        \cup [kind: {"redeem"}, user: Users, version: Nat, token: RefreshIds]
        \cup [kind: {"logout", "revoke", "age_up", "consent"}, user: Users]
        \cup [kind: {"arco"}, user: Users, type: ArcoTypes]

Phases == {"idle", "pending", "suspended", "retention"}

TypeOK ==
    /\ users \in [Users -> Account]
    /\ access \subseteq Token
    /\ refresh \in [RefreshIds -> Users \cup {NoUser}]
    /\ links \in [Links -> [user: Users \cup {NoUser}, state: {"none", "sent", "verified"}]]
    /\ consents \in [Links -> {"none", "given", "revoked"}]
    /\ arco \in [ArcoIds -> [user: Users \cup {NoUser}, type: ArcoTypes,
                             status: {"none", "pending", "resolved", "rejected"}]]
    /\ requests \in [Requests -> RequestType]
    /\ job \in [phase: Phases, list: SUBSET Users]

Init ==
    /\ users = [u \in Users |-> NoAccount]
    /\ access = {}
    /\ refresh = [t \in RefreshIds |-> NoUser]
    /\ links = [l \in Links |-> NoLink]
    /\ consents = [l \in Links |-> "none"]
    /\ arco = [r \in ArcoIds |-> [user |-> NoUser, type |-> "rectificacion", status |-> "none"]]
    /\ requests = [s \in Requests |-> [kind |-> "none"]]
    /\ job = [phase |-> "idle", list |-> {}]

-----------------------------------------------------------------------------
(* What a statement does to a row of users *)

\* updated_at = NOW()
Touched(a) == [a EXCEPT !.rested = FALSE]

\* The account of a minor waits for the tutor.
CreateUser(adult) ==
    [NoAccount EXCEPT !.status = IF adult THEN "active" ELSE "pending_tutor_consent",
                      !.adult = adult, !.version = 1]

ActivateTutorConsentUser(a) ==
    IF a.status = "pending_tutor_consent" /\ ~a.deleted
    THEN Touched([a EXCEPT !.status = "active"]) ELSE a

IncrementAgeUpAttempts(a) == [a EXCEPT !.attempts = @ + 1]

\* Variant: the account is activated but stays a minor's.
UpdateUserAdultStatus_StatusOnly(a) ==
    IF ~a.deleted THEN Touched([a EXCEPT !.status = "active"]) ELSE a

UpdateUserAdultStatus(a) ==
    IF ~a.deleted THEN Touched([a EXCEPT !.status = "active", !.adult = TRUE]) ELSE a

IncrementTokenVersion(a) == Touched([a EXCEPT !.version = @ + 1])

\* Variant: a suspended account keeps its tokens.
SuspendInactivePlayers_KeepsVersion(a) ==
    IF a.status = "active" /\ ~a.deleted /\ a.age >= PastInactivity
    THEN Touched([a EXCEPT !.status = "suspended",
                           !.reason = "inactive_suspension_pending_cancel"])
    ELSE a

\* No statement writes last_login_at, so inactivity counts from created_at.
SuspendInactivePlayers(a) ==
    IF a.status = "active" /\ ~a.deleted /\ a.age >= PastInactivity
    THEN Touched([a EXCEPT !.status = "suspended", !.version = @ + 1,
                           !.reason = "inactive_suspension_pending_cancel"])
    ELSE a

\* Variant: an account is cancelled once more for another reason.
PseudonymizeUser_Again(a, reason) ==
    Touched([a EXCEPT !.status = "deleted", !.deleted = TRUE, !.reason = reason,
                      !.version = @ + 1])

PseudonymizeUser(a, reason) ==
    IF ~a.deleted
    THEN Touched([a EXCEPT !.status = "deleted", !.deleted = TRUE, !.reason = reason,
                           !.version = @ + 1])
    ELSE a

-----------------------------------------------------------------------------
(* Statements on the other tables *)

PseudonymizeTutorConsents(u) ==
    consents' = [l \in Links |-> IF links[l].user = u /\ consents[l] # "none"
                                 THEN "revoked" ELSE consents[l]]

RevokeRefreshTokensForUser(u) ==
    refresh' = [t \in RefreshIds |-> IF refresh[t] = u THEN NoUser ELSE refresh[t]]

\* Variant: a new link removes the links that were clicked as well.
DeleteUnverified_All(l, u) == links[l].user = u

\* A new link supersedes those that nobody clicked.
DeleteUnverified(l, u) == links[l].user = u /\ links[l].state # "verified"

\* The progress that a cancellation also removes is not kept here, and its
\* wipe order is part of OfflineQueue and Progress.
CancelUser(u, reason) ==
    /\ PseudonymizeTutorConsents(u)
    /\ users' = [users EXCEPT ![u] = PseudonymizeUser(@, reason)]
    /\ RevokeRefreshTokensForUser(u)

-----------------------------------------------------------------------------
(* Requests *)

Free(s) == requests[s].kind = "none"

Becomes(s, request) == requests' = [requests EXCEPT ![s] = request]

Ends(s) == Becomes(s, [kind |-> "none"])

\* The token check of the router.
Accepted(token) ==
    LET a == users[token.user] IN ~a.deleted /\ a.version = token.version

Authenticated(u) == \E token \in access : token.user = u /\ Accepted(token)

\* Any later statement fails, or the server stops.
RequestFails(s) ==
    /\ ~Free(s)
    /\ Ends(s)
    /\ UNCHANGED <<tables, job>>

Register(u, adult) ==
    /\ <<u, adult>> \in Applicants
    /\ users[u].status = "none"
    /\ users' = [users EXCEPT ![u] = CreateUser(adult)]
    /\ UNCHANGED <<access, refresh, links, consents, arco, requests, job>>

\* The row is read, then the password is verified (a wrong one fails).
Login(s, u) ==
    /\ Free(s)
    /\ ~users[u].deleted /\ users[u].status = "active"
    /\ Becomes(s, [kind |-> "issue", user |-> u, version |-> users[u].version])
    /\ UNCHANGED <<tables, job>>

\* The tokens of a login or of a refresh: the version is the one read.  A
\* place is taken again when no request can name the token it held.
IssueTokens(s, t) ==
    /\ requests[s].kind = "issue"
    /\ refresh[t] = NoUser
    /\ \A other \in Requests : requests[other].kind = "redeem" => requests[other].token # t
    /\ access' = access \cup {[user |-> requests[s].user, version |-> requests[s].version]}
    /\ refresh' = [refresh EXCEPT ![t] = requests[s].user]
    /\ Ends(s)
    /\ UNCHANGED <<users, links, consents, arco, job>>

\* GetRefreshTokenUser joins the token and its account in one statement.
Refresh(s, t) ==
    /\ Free(s)
    /\ refresh[t] # NoUser
    /\ LET u == refresh[t] IN
        /\ ~users[u].deleted /\ users[u].status = "active"
        /\ Becomes(s, [kind |-> "redeem", user |-> u, version |-> users[u].version,
                       token |-> t])
    /\ UNCHANGED <<tables, job>>

\* The statement does not say whether the token was still live.
RevokeRefreshToken(s) ==
    /\ requests[s].kind = "redeem"
    /\ refresh' = [refresh EXCEPT ![requests[s].token] = NoUser]
    /\ Becomes(s, [kind |-> "issue", user |-> requests[s].user,
                   version |-> requests[s].version])
    /\ UNCHANGED <<users, access, links, consents, arco, job>>

RefreshExpires(t) ==
    /\ refresh[t] # NoUser
    /\ refresh' = [refresh EXCEPT ![t] = NoUser]
    /\ UNCHANGED <<users, access, links, consents, arco, requests, job>>

\* A request to an endpoint behind the token check is admitted.
Admit(s, u, request) ==
    /\ Free(s)
    /\ Authenticated(u)
    /\ Becomes(s, request)
    /\ UNCHANGED <<tables, job>>

AdmitLogout(s, u) ==
    /\ users[u].version < MaxVersion
    /\ Admit(s, u, [kind |-> "logout", user |-> u])

AdmitAgeUp(s, u) == Admit(s, u, [kind |-> "age_up", user |-> u])

AdmitArco(s, u, type) == Admit(s, u, [kind |-> "arco", user |-> u, type |-> type])

\* The first statement of Logout, whatever became of the account ...
Logout(s) ==
    /\ requests[s].kind = "logout"
    /\ users' = [users EXCEPT ![requests[s].user] = IncrementTokenVersion(@)]
    /\ Becomes(s, [kind |-> "revoke", user |-> requests[s].user])
    /\ UNCHANGED <<access, refresh, links, consents, arco, job>>

\* ... and the second.
LogoutRevokes(s) ==
    /\ requests[s].kind = "revoke"
    /\ RevokeRefreshTokensForUser(requests[s].user)
    /\ Ends(s)
    /\ UNCHANGED <<users, access, links, consents, arco, job>>

\* Variant: the attempt after the last one counts too.
MayAgeUp_OneMore(a) == ~a.deleted /\ a.attempts <= AgeUpLimit

\* An attempt beyond the limit is rolled back with its increment.
MayAgeUp(a) == ~a.deleted /\ a.attempts < AgeUpLimit

\* The status is not looked at: an account that was suspended meanwhile is
\* active again.
AgeUp(s) ==
    /\ requests[s].kind = "age_up"
    /\ LET u == requests[s].user IN
        /\ MayAgeUp(users[u])
        /\ users' = [users EXCEPT ![u] = UpdateUserAdultStatus(IncrementAgeUpAttempts(@))]
        /\ PseudonymizeTutorConsents(u)
    /\ Ends(s)
    /\ UNCHANGED <<access, refresh, links, arco, job>>

-----------------------------------------------------------------------------
(* The tutor's consent *)

\* The status is read before the transaction that stores the link.
SubmitTutorConsent(s, u) ==
    /\ Free(s)
    /\ ~users[u].deleted /\ users[u].status = "pending_tutor_consent"
    /\ Becomes(s, [kind |-> "consent", user |-> u])
    /\ UNCHANGED <<tables, job>>

StoreTutorConsentToken(s, l) ==
    /\ requests[s].kind = "consent"
    /\ links[l].state = "none"
    /\ LET u == requests[s].user IN
        links' = [k \in Links |-> IF k = l THEN [user |-> u, state |-> "sent"]
                                  ELSE IF DeleteUnverified(k, u)
                                       THEN NoLink ELSE links[k]]
    /\ Ends(s)
    /\ UNCHANGED <<users, access, refresh, consents, arco, job>>

\* The 24 hours of a link end; the row is purged later.
LinkExpires(l) ==
    /\ links[l].state = "sent"
    /\ links' = [links EXCEPT ![l] = NoLink]
    /\ UNCHANGED <<users, access, refresh, consents, arco, requests, job>>

\* The click is recorded even if the account no longer waits for it.
VerifyTutorConsent(l) ==
    /\ links[l].state = "sent"
    /\ consents' = [consents EXCEPT ![l] = "given"]
    /\ links' = [links EXCEPT ![l].state = "verified"]
    /\ users' = [users EXCEPT ![links[l].user] = ActivateTutorConsentUser(@)]
    /\ UNCHANGED <<access, refresh, arco, requests, job>>

-----------------------------------------------------------------------------
(* ARCO requests *)

SubmitArcoRequest(s, r) ==
    /\ requests[s].kind = "arco"
    /\ arco[r].status = "none"
    /\ arco' = [arco EXCEPT ![r] = [user |-> requests[s].user, type |-> requests[s].type,
                                    status |-> "pending"]]
    /\ Ends(s)
    /\ UNCHANGED <<users, access, refresh, links, consents, job>>

\* Variant: every approved request cancels the account.
Cancels_AnyType(r, approved) == approved

Cancels(r, approved) == approved /\ arco[r].type = "cancelacion"

ResolveArcoRequest(r, approved) ==
    /\ arco[r].status = "pending"
    /\ IF Cancels(r, approved)
       THEN CancelUser(arco[r].user, "arco_cancelacion")
       ELSE UNCHANGED <<users, consents, refresh>>
    /\ arco' = [arco EXCEPT ![r].status = IF approved THEN "resolved" ELSE "rejected"]
    /\ UNCHANGED <<access, links, requests, job>>

-----------------------------------------------------------------------------
(* Legal maintenance *)

\* Variant: only the accounts that expired since the last run are listed.
PendingExpired_SinceLastRun(a) ==
    a.status = "pending_tutor_consent" /\ ~a.deleted /\ a.age = PastConsent

PendingExpired(a) ==
    a.status = "pending_tutor_consent" /\ ~a.deleted /\ a.age >= PastConsent

SuspensionExpired(a) ==
    /\ a.status = "suspended" /\ a.reason = "inactive_suspension_pending_cancel"
    /\ ~a.deleted /\ a.rested

\* A query with a LIMIT lists as many as there are, up to the batch.
IsBatch(list, all) ==
    /\ list \subseteq all
    /\ Cardinality(list) = Min({BatchSize, Cardinality(all)})

ListPendingTutorConsentUsers ==
    /\ job.phase = "idle"
    /\ \E list \in SUBSET Users :
        /\ IsBatch(list, {u \in Users : PendingExpired(users[u])})
        /\ job' = [phase |-> "pending", list |-> list]
    /\ UNCHANGED <<tables, requests>>

\* A transaction for each listed account, which is not looked at again.
CancelListed(u) ==
    /\ job.phase \in {"pending", "retention"} /\ u \in job.list
    /\ CancelUser(u, IF job.phase = "pending" THEN "pending_tutor_consent_expired"
                                              ELSE "inactivity_retention_expired")
    /\ job' = [job EXCEPT !.list = @ \ {u}]
    /\ UNCHANGED <<access, links, arco, requests>>

SuspendInactive ==
    /\ job.phase = "pending" /\ job.list = {}
    /\ users' = [u \in Users |-> SuspendInactivePlayers(users[u])]
    /\ job' = [job EXCEPT !.phase = "suspended"]
    /\ UNCHANGED <<access, refresh, links, consents, arco, requests>>

ListSuspendedUsersForCancellation ==
    /\ job.phase = "suspended"
    /\ \E list \in SUBSET Users :
        /\ IsBatch(list, {u \in Users : SuspensionExpired(users[u])})
        /\ job' = [phase |-> "retention", list |-> list]
    /\ UNCHANGED <<tables, requests>>

\* What the purges remove, expired links and tokens, nothing reads any more.
Purge ==
    /\ job.phase = "retention" /\ job.list = {}
    /\ job' = [job EXCEPT !.phase = "idle"]
    /\ UNCHANGED <<tables, requests>>

\* An error ends the run, and the list with it, until the next tick.
MaintenanceFails ==
    /\ job.phase # "idle"
    /\ job' = [phase |-> "idle", list |-> {}]
    /\ UNCHANGED <<tables, requests>>

-----------------------------------------------------------------------------
(* Time *)

GrowsOlder(u) ==
    /\ users[u].status # "none" /\ users[u].age < PastInactivity
    /\ users' = [users EXCEPT ![u].age = @ + 1]
    /\ UNCHANGED <<access, refresh, links, consents, arco, requests, job>>

\* Told apart for suspended accounts only.
Rests(u) ==
    /\ users[u].status = "suspended" /\ ~users[u].rested
    /\ users' = [users EXCEPT ![u].rested = TRUE]
    /\ UNCHANGED <<access, refresh, links, consents, arco, requests, job>>

-----------------------------------------------------------------------------

Handles(s) ==
    \/ RequestFails(s)
    \/ \E u \in Users : \/ Login(s, u) \/ SubmitTutorConsent(s, u)
                        \/ AdmitLogout(s, u) \/ AdmitAgeUp(s, u)
                        \/ \E type \in ArcoTypes : AdmitArco(s, u, type)
    \/ \E t \in RefreshIds : Refresh(s, t) \/ IssueTokens(s, t)
    \/ RevokeRefreshToken(s) \/ Logout(s) \/ LogoutRevokes(s) \/ AgeUp(s)
    \/ \E l \in Links : StoreTutorConsentToken(s, l)
    \/ \E r \in ArcoIds : SubmitArcoRequest(s, r)

Maintains ==
    \/ ListPendingTutorConsentUsers \/ SuspendInactive
    \/ ListSuspendedUsersForCancellation \/ Purge \/ MaintenanceFails
    \/ \E u \in Users : CancelListed(u)

Next ==
    \/ \E s \in Requests : Handles(s)
    \/ \E u \in Users : \/ \E adult \in BOOLEAN : Register(u, adult)
                        \/ GrowsOlder(u) \/ Rests(u)
    \/ \E t \in RefreshIds : RefreshExpires(t)
    \/ \E l \in Links : LinkExpires(l) \/ VerifyTutorConsent(l)
    \/ \E r \in ArcoIds, approved \in BOOLEAN : ResolveArcoRequest(r, approved)
    \/ Maintains

Spec == Init /\ [][Next]_vars

\* Time passes, the scheduler ticks every day, and a statement of the
\* maintenance may fail any number of times but not for ever.
Fairness ==
    /\ \A u \in Users : WF_vars(GrowsOlder(u)) /\ WF_vars(Rests(u)) /\ SF_vars(CancelListed(u))
    /\ WF_vars(ListPendingTutorConsentUsers)
    /\ SF_vars(SuspendInactive)
    /\ SF_vars(ListSuspendedUsersForCancellation)
    /\ SF_vars(Purge)

FairSpec == Spec /\ Fairness

-----------------------------------------------------------------------------
(* Properties *)

\* Whoever passes the token check of the router is an active account's:
\* tokens of a suspended or cancelled account are refused at once, also
\* those that a login or refresh handed out after it had read the account.
ActingMeansActive ==
    \A token \in access : Accepted(token) => users[token.user].status = "active"

\* A minor who may play has a tutor's consent that is in force; a consent is
\* revoked only when the account is cancelled or becomes an adult's.
ConsentFirst ==
    \A u \in Users : (users[u].status \in {"active", "suspended"} /\ ~users[u].adult) =>
        \E l \in Links : links[l].user = u /\ consents[l] = "given"

\* A consent keeps the link whose click is its evidence, whatever resends
\* were on their way when it was clicked.
EvidenceKept ==
    \A l \in Links : consents[l] # "none" => links[l].state = "verified"

\* An approved request to be cancelled leaves a cancelled account, whatever
\* was in flight; and no account is said to be cancelled at its owner's request
\* that has no such request, approved, of its own.
ArcoHonoured ==
    /\ \A r \in ArcoIds : (arco[r].status = "resolved" /\ arco[r].type = "cancelacion") =>
        users[arco[r].user].deleted
    /\ \A u \in Users : (users[u].deleted /\ users[u].reason = "arco_cancelacion") =>
        \E r \in ArcoIds : /\ arco[r].user = u /\ arco[r].type = "cancelacion"
                           /\ arco[r].status = "resolved"

\* The invariant by which the others are proved.  A row is sound: it says
\* in two columns that the account is cancelled, nothing was written to an
\* account that is not registered, and only the old are suspended.
Sound(a) ==
    /\ a.deleted <=> a.status = "deleted"
    /\ a.status = "none" => a = NoAccount
    /\ a.status = "suspended" => a.age >= PastInactivity

\* A token of this version is refused, or the account is active.
Behind(u, version) ==
    \/ version < users[u].version
    \/ version = users[u].version /\ users[u].status = "active"

\* So are the tokens handed out and those that a request will hand out.
VersionsRead ==
    /\ \A token \in access : Behind(token.user, token.version)
    /\ \A s \in Requests : requests[s].kind \in {"issue", "redeem"} =>
        Behind(requests[s].user, requests[s].version)

\* Requests, links and ARCO requests are about registered accounts.
Owned ==
    /\ \A s \in Requests : ~Free(s) => users[requests[s].user].status # "none"
    /\ \A l \in Links : links[l].state # "none" => links[l].user \in Users
    /\ \A r \in ArcoIds : arco[r].status # "none" =>
        arco[r].user \in Users /\ users[arco[r].user].status # "none"

\* Listed accounts have reached the age for which they are cancelled.
ListedOld ==
    \A u \in job.list :
        /\ job.phase = "pending" => users[u].age >= PastConsent
        /\ job.phase = "retention" => users[u].age >= PastInactivity

\* The first part of ArcoHonoured, and a reason for every cancellation.  The ages
\* are only those of the lists: that whoever is cancelled is still due does
\* not hold (ConsentedNotPurged).
CancelledForCause ==
    /\ \A r \in ArcoIds : (arco[r].status = "resolved" /\ arco[r].type = "cancelacion") =>
        users[arco[r].user].deleted
    /\ \A u \in Users : users[u].deleted =>
        \/ /\ users[u].reason = "arco_cancelacion"
           /\ \E r \in ArcoIds : /\ arco[r].user = u /\ arco[r].type = "cancelacion"
                                 /\ arco[r].status = "resolved"
        \/ users[u].reason = "pending_tutor_consent_expired" /\ users[u].age >= PastConsent
        \/ users[u].reason = "inactivity_retention_expired" /\ users[u].age >= PastInactivity

IInv ==
    /\ TypeOK
    /\ \A u \in Users : Sound(users[u])
    /\ VersionsRead /\ Owned /\ ListedOld
    /\ EvidenceKept /\ ConsentFirst /\ CancelledForCause

\* A cancelled account stays cancelled, for the reason first given: by no
\* late click, coming of age, second cancellation or suspension.
CancelledStays ==
    [][\A u \in Users : users[u].deleted =>
            /\ users'[u].deleted /\ users'[u].status = "deleted"
            /\ users'[u].reason = users[u].reason]_vars

\* The maintenance cancels, as never consented, only the accounts of minors
\* whose tutors did not consent.  Not so: an account is listed first and
\* cancelled later, without another look at it.
ConsentedNotPurged ==
    [][\A u \in Users :
            /\ ~users[u].deleted /\ users'[u].deleted
            /\ users'[u].reason = "pending_tutor_consent_expired"
            => ~\E l \in Links : links[l].user = u /\ consents[l] = "given"]_vars

\* The maintenance leaves no account waiting or suspended for ever.
Settled ==
    \A u \in Users : users[u].status \in {"pending_tutor_consent", "suspended"} ~>
                     users[u].status \in {"active", "deleted"}
=============================================================================
