---------------------------- MODULE OfflineQueue ----------------------------
(***************************************************************************)
(* How the desktop app saves what its player did (frontend/src/lib): a     *)
(* finished level is posted to the server, and one that could not be saved *)
(* becomes a row of a SQLite queue, which cycles of synchronisation post   *)
(* row by row to POST /sync and delete once the server confirms them.      *)
(*                                                                         *)
(* An action ends where the code awaits: between two of them the player    *)
(* signs out, another cycle starts, or the app is closed.  A request stays *)
(* on the wire when the client stops waiting for its answer, and may still *)
(* reach the server; an answer may be lost.  The server's transaction is   *)
(* one step here (module Progress has its details).  A play is queued at   *)
(* most once, so it also names its row and the row's sync_event_id.  The   *)
(* columns user_id and device_id of a row are written and never read.      *)
(*                                                                         *)
(* An operator Name_Word is a faulty variant of the operator Name after it.*)
(***************************************************************************)
EXTENDS Integers, FiniteSets, Sequences

CONSTANTS
  Player, Play, Device,
  Cycle,        \* calls of syncLocalQueue that may overlap
  Nobody,       \* no user: signed out, or not registered
  NoDevice,     \* no device_id
  MayCancel,    \* bound: the players who ask for a cancellation
  Verdict,      \* what the server finds in the batch of a play
  BatchLimit,   \* rows a cycle loads
  MaxAttempts   \* posts of a row in a cycle

ASSUME ConstantsAssumption ==
  /\ Nobody \notin Player
  /\ NoDevice \notin Device
  /\ IsFiniteSet(Play)
  /\ MayCancel \subseteq Player
  /\ Verdict \in [Play -> {"accept", "unprocessable", "badSignature"}]
  /\ BatchLimit \in Nat \ {0}
  /\ MaxAttempts \in Nat \ {0}

VARIABLES
  auth,      \* useAuthStore and useSyncStore: user, device_id; the login form; the saved session
  online,    \* useSyncStore.isOnline
  syncing,   \* useSyncStore.isSyncing
  cycle,     \* the calls of syncLocalQueue
  play,      \* a finished level, from the last answer to a saved result or a row
  queue,     \* rows of sync_queue that the open connection sees
  created,   \* created_at of a row as its position in time; 0 if never queued
  unlinked,  \* usbi_local.db was removed while the connection stays open
  wire,      \* requests that POST /sync has not answered
  events,    \* server: sync_events.status
  credits,   \* server: the attempts credited for a play
  owner,     \* server: devices.user_id
  wipe       \* server: devices.wipe_local_data

client == <<auth, online, syncing, cycle, play, queue, created, unlinked>>
server == <<events, credits, owner, wipe>>
vars == <<client, wire, server>>

Request == [from : Cycle \union {Nobody}, play : Play, user : Player, device : Device,
            token : Player \union {Nobody}]

Idle == [phase |-> "idle", user |-> Nobody, device |-> NoDevice, rows |-> {},
         try |-> 0, resent |-> FALSE, answer |-> "none", confirmed |-> {}]

NoSession == [user |-> Nobody, device |-> NoDevice]
NotPlayed == [state |-> "unplayed", player |-> Nobody, token |-> Nobody, request |-> "none",
              resent |-> FALSE]

Init ==
  /\ auth     = [user |-> Nobody, device |-> NoDevice, registering |-> Nobody, saved |-> NoSession]
  /\ online   = TRUE
  /\ syncing  = FALSE
  /\ cycle    = [c \in Cycle |-> Idle]
  /\ play     = [p \in Play |-> NotPlayed]
  /\ queue    = {}
  /\ created  = [p \in Play |-> 0]
  /\ unlinked = FALSE
  /\ wire     = {}
  /\ events   = [p \in Play |-> "none"]
  /\ credits  = [p \in Play |-> <<>>]
  /\ owner    = [d \in Device |-> Nobody]
  /\ wipe     = [d \in Device |-> FALSE]
-----------------------------------------------------------------------------
(***************************************************************************)
(* The session of the app.                                                 *)
(***************************************************************************)

Login(u) ==
  /\ auth.user = Nobody
  /\ auth.registering = Nobody
  /\ auth' = [auth EXCEPT !.user = u, !.registering = u]
  /\ UNCHANGED <<online, syncing, cycle, play, queue, created, unlinked, wire, server>>

\* Every login registers a new device.
RegisterDevice(d) ==
  /\ auth.registering # Nobody
  /\ owner[d] = Nobody
  /\ owner' = [owner EXCEPT ![d] = auth.registering]
  /\ auth' = [auth EXCEPT !.device = d, !.registering = Nobody,
                          !.saved = [user |-> auth.registering, device |-> d]]
  /\ UNCHANGED <<online, syncing, cycle, play, queue, created, unlinked, wire,
                 events, credits, wipe>>

\* The app goes on with the device it had, which may be another user's.
RegistrationFails ==
  /\ auth.registering # Nobody
  /\ auth' = [auth EXCEPT !.registering = Nobody]
  /\ UNCHANGED <<online, syncing, cycle, play, queue, created, unlinked, wire, server>>

SignOut ==
  /\ auth.user # Nobody
  /\ auth' = [auth EXCEPT !.user = Nobody, !.device = NoDevice, !.saved = NoSession]
  /\ UNCHANGED <<online, syncing, cycle, play, queue, created, unlinked, wire, server>>

\* A 401 that a refresh did not cure: the device stays in useSyncStore.
LoggedOut == [auth EXCEPT !.user = Nobody, !.saved = NoSession]

\* The refreshed session is saved.
Refreshed == [auth EXCEPT !.saved = [user |-> auth.user, device |-> auth.device]]

NetworkChanges ==
  /\ online' = ~online
  /\ UNCHANGED <<auth, syncing, cycle, play, queue, created, unlinked, wire, server>>
-----------------------------------------------------------------------------
(***************************************************************************)
(* A level is finished: finishLevel and enqueueProgress.                   *)
(***************************************************************************)

FinishLevel(p) ==
  /\ play[p].state = "unplayed"
  /\ auth.user # Nobody
  /\ play' = [play EXCEPT ![p] = [state |-> "saving", player |-> auth.user,
                                  token |-> auth.user, request |-> "sent", resent |-> FALSE]]
  /\ UNCHANGED <<auth, online, syncing, cycle, queue, created, unlinked, wire, server>>

\* The server credits the attempt, does not accept the token, or fails.
ServerCompletes(p) ==
  /\ play[p].request = "sent"
  /\ \E answer \in {"done", "unauthorized", "none"} :
       /\ credits' = IF answer = "done"
                     THEN [credits EXCEPT ![p] = Append(@, [user |-> play[p].token, via |-> "online"])]
                     ELSE credits
       /\ play' = [play EXCEPT ![p].request = IF play[p].state = "saving" THEN answer ELSE "none"]
  /\ UNCHANGED <<auth, online, syncing, cycle, queue, created, unlinked, wire, events, owner, wipe>>

CompletionSaved_AnyAnswer(p) ==
  /\ play[p].state = "saving"
  /\ play[p].request \in {"done", "none"}
  /\ play' = [play EXCEPT ![p].state = "saved", ![p].request = "none"]
  /\ UNCHANGED <<auth, online, syncing, cycle, queue, created, unlinked, wire, server>>

CompletionSaved(p) ==
  /\ play[p].state = "saving"
  /\ play[p].request = "done"
  /\ play' = [play EXCEPT ![p].state = "saved", ![p].request = "none"]
  /\ UNCHANGED <<auth, online, syncing, cycle, queue, created, unlinked, wire, server>>

\* enqueueProgress returns at once when there is no user or no device.
Unsaved(p, user) ==
  play' = [play EXCEPT
    ![p].state = IF user = Nobody \/ auth.device = NoDevice THEN "dropped" ELSE "queueing",
    ![p].request = IF play[p].request = "sent" THEN "sent" ELSE "none"]

\* An error, or no answer in ten seconds: the request may still be on its way.
CompletionFails(p) ==
  /\ play[p].state = "saving"
  /\ Unsaved(p, auth.user)
  /\ UNCHANGED <<auth, online, syncing, cycle, queue, created, unlinked, wire, server>>

CompletionResent(p) ==
  /\ play[p].state = "saving"
  /\ play[p].request = "unauthorized"
  /\ ~play[p].resent
  /\ auth.user # Nobody
  /\ auth' = Refreshed
  /\ play' = [play EXCEPT ![p].token = auth.user, ![p].request = "sent", ![p].resent = TRUE]
  /\ UNCHANGED <<online, syncing, cycle, queue, created, unlinked, wire, server>>

CompletionUnauthorized(p) ==
  /\ play[p].state = "saving"
  /\ play[p].request = "unauthorized"
  /\ auth' = LoggedOut
  /\ Unsaved(p, Nobody)
  /\ UNCHANGED <<online, syncing, cycle, queue, created, unlinked, wire, server>>

Enqueue(p) ==
  /\ play[p].state = "queueing"
  /\ play' = [play EXCEPT ![p].state = "queued"]
  /\ queue' = queue \union {p}
  /\ created' = [created EXCEPT ![p] = 1 + Cardinality({q \in Play : created[q] # 0})]
  /\ UNCHANGED <<auth, online, syncing, cycle, unlinked, wire, server>>

\* Opening the database or the INSERT fails: nobody handles the rejection.
EnqueueFails(p) ==
  /\ play[p].state = "queueing"
  /\ play' = [play EXCEPT ![p].state = "lost"]
  /\ UNCHANGED <<auth, online, syncing, cycle, queue, created, unlinked, wire, server>>
-----------------------------------------------------------------------------
(***************************************************************************)
(* A cycle: syncLocalQueue and syncLocalProgress.                          *)
(***************************************************************************)

Oldest_Newest(rows) == CHOOSE p \in rows : \A q \in rows : created[q] <= created[p]

\* ORDER BY created_at
Oldest(rows) == CHOOSE p \in rows : \A q \in rows : created[p] <= created[q]

Batch == {p \in queue : Cardinality({q \in queue : created[q] < created[p]}) < BatchLimit}

\* Every minute while online, and when the network comes back.
Start(c) ==
  /\ cycle[c].phase = "idle"
  /\ online
  /\ auth.user # Nobody
  /\ auth.device # NoDevice
  /\ cycle' = [cycle EXCEPT ![c].phase = "loading", ![c].user = auth.user,
                            ![c].device = auth.device]
  /\ UNCHANGED <<auth, online, syncing, play, queue, created, unlinked, wire, server>>

Load_NoRows(c) ==
  /\ cycle[c].phase = "loading"
  /\ cycle' = [cycle EXCEPT ![c] =
       IF syncing \/ ~online THEN Idle ELSE [@ EXCEPT !.phase = "checking", !.rows = Batch]]
  /\ UNCHANGED <<auth, online, syncing, play, queue, created, unlinked, wire, server>>

\* The rows arrive, and isSyncing and isOnline are looked at in the same step,
\* before the next await.
Load(c) ==
  /\ cycle[c].phase = "loading"
  /\ cycle' = [cycle EXCEPT ![c] =
       IF queue = {} \/ syncing \/ ~online THEN Idle
       ELSE [@ EXCEPT !.phase = "checking", !.rows = Batch]]
  /\ UNCHANGED <<auth, online, syncing, play, queue, created, unlinked, wire, server>>

GameActive(c) ==
  /\ cycle[c].phase = "checking"
  /\ cycle' = [cycle EXCEPT ![c] = Idle]
  /\ UNCHANGED <<auth, online, syncing, play, queue, created, unlinked, wire, server>>

\* No game is being played: the flag is set without a second look at it.
StartSending(c) ==
  /\ cycle[c].phase = "checking"
  /\ cycle' = [cycle EXCEPT ![c].phase = "ready"]
  /\ syncing' = TRUE
  /\ UNCHANGED <<auth, online, play, queue, created, unlinked, wire, server>>

Finished_AllRows(c, confirmed) ==
  /\ syncing' = FALSE
  /\ cycle' = [cycle EXCEPT ![c] = [Idle EXCEPT !.phase = "deleting", !.confirmed = cycle[c].rows \union confirmed]]

\* The loop over the rows ends, by its last row or by an exception: isSyncing
\* is cleared and the confirmed rows are deleted.
Finished(c, confirmed) ==
  /\ syncing' = FALSE
  /\ cycle' = [cycle EXCEPT ![c] = IF confirmed = {} THEN Idle
                                   ELSE [Idle EXCEPT !.phase = "deleting", !.confirmed = confirmed]]

SignFails(c) ==
  /\ cycle[c].phase = "ready"
  /\ cycle[c].try = 0
  /\ Finished(c, cycle[c].confirmed)
  /\ UNCHANGED <<auth, online, play, queue, created, unlinked, wire, server>>

\* The row is posted with the token of whoever is signed in by now.
RequestOf(c) ==
  [from |-> c, play |-> Oldest(cycle[c].rows), user |-> cycle[c].user,
   device |-> cycle[c].device, token |-> auth.user]

\* Nobody waits for the answer of the requests of these cycles any more.
Abandoned(cycles) ==
  {[m EXCEPT !.from = IF m.from \in cycles THEN Nobody ELSE m.from] : m \in wire}

Post(c) ==
  /\ cycle[c].phase = "ready"
  /\ wire' = wire \union {RequestOf(c)}
  /\ cycle' = [cycle EXCEPT ![c].phase = "waiting", ![c].try = @ + 1,
                            ![c].resent = FALSE, ![c].answer = "none"]
  /\ UNCHANGED <<auth, online, syncing, play, queue, created, unlinked, server>>

\* An error other than 401, an answer that does not parse, or none in thirty
\* seconds: the row is posted again, and the third failure ends the cycle.
Fails_GoesOn(c) ==
  LET rest == cycle[c].rows \ {Oldest(cycle[c].rows)} IN
  /\ cycle[c].phase = "waiting"
  /\ wire' = Abandoned({c})
  /\ IF cycle[c].try < MaxAttempts
     THEN /\ cycle' = [cycle EXCEPT ![c].phase = "ready", ![c].answer = "none"]
          /\ UNCHANGED syncing
     ELSE IF rest # {}
     THEN /\ cycle' = [cycle EXCEPT ![c].phase = "ready", ![c].answer = "none",
                                    ![c].rows = rest, ![c].try = 0]
          /\ UNCHANGED syncing
     ELSE Finished(c, cycle[c].confirmed)
  /\ UNCHANGED <<auth, online, play, queue, created, unlinked, server>>

Fails(c) ==
  /\ cycle[c].phase = "waiting"
  /\ wire' = Abandoned({c})
  /\ IF cycle[c].try < MaxAttempts
     THEN /\ cycle' = [cycle EXCEPT ![c].phase = "ready", ![c].answer = "none"]
          /\ UNCHANGED syncing
     ELSE Finished(c, cycle[c].confirmed)
  /\ UNCHANGED <<auth, online, play, queue, created, unlinked, server>>

\* apiClient answers a first 401 by refreshing the token and sending again.
RefreshAndResend(c) ==
  /\ cycle[c].phase = "waiting"
  /\ cycle[c].answer = "unauthorized"
  /\ ~cycle[c].resent
  /\ auth.user # Nobody
  /\ auth' = Refreshed
  /\ wire' = wire \union {RequestOf(c)}
  /\ cycle' = [cycle EXCEPT ![c].resent = TRUE, ![c].answer = "none"]
  /\ UNCHANGED <<online, syncing, play, queue, created, unlinked, server>>

SessionExpired_KeepsFlag(c) ==
  /\ cycle[c].phase = "waiting"
  /\ cycle[c].answer = "unauthorized"
  /\ auth' = LoggedOut
  /\ cycle' = [cycle EXCEPT ![c] = Idle]
  /\ UNCHANGED <<online, syncing, play, queue, created, unlinked, wire, server>>

\* A second 401, or a refresh that fails: no retry.
SessionExpired(c) ==
  /\ cycle[c].phase = "waiting"
  /\ cycle[c].answer = "unauthorized"
  /\ auth' = LoggedOut
  /\ Finished(c, cycle[c].confirmed)
  /\ UNCHANGED <<online, play, queue, created, unlinked, wire, server>>

Receive_WholeBatch(c) ==
  /\ cycle[c].phase = "waiting"
  /\ cycle[c].answer \in {"synced", "wipe", "already"}
  /\ Finished(c, cycle[c].confirmed \union cycle[c].rows)
  /\ UNCHANGED <<auth, online, play, queue, created, unlinked, wire, server>>

\* "synced" and "already_processed" confirm the row.
Receive(c) ==
  LET p == Oldest(cycle[c].rows)
      confirmed == cycle[c].confirmed \union {p}
      rest == cycle[c].rows \ {p}
  IN
  /\ cycle[c].phase = "waiting"
  /\ cycle[c].answer \in {"synced", "wipe", "already"}
  /\ IF cycle[c].answer = "wipe"
     THEN /\ cycle' = [cycle EXCEPT ![c].phase = "wiping", ![c].answer = "none",
                                    ![c].confirmed = confirmed]
          /\ UNCHANGED syncing
     ELSE IF rest # {}
     THEN /\ cycle' = [cycle EXCEPT ![c].phase = "ready", ![c].answer = "none",
                                    ![c].confirmed = confirmed, ![c].rows = rest, ![c].try = 0]
          /\ UNCHANGED syncing
     ELSE Finished(c, confirmed)
  /\ UNCHANGED <<auth, online, play, queue, created, unlinked, wire, server>>

\* The file goes, the open connection and its rows stay until the app closes;
\* an error, or no file at that path, changes nothing.
WipeLocal(c) ==
  /\ cycle[c].phase = "wiping"
  /\ unlinked' \in {unlinked, TRUE}
  /\ Finished(c, cycle[c].confirmed)
  /\ UNCHANGED <<auth, online, play, queue, created, wire, server>>

\* A DELETE that fails leaves the other confirmed rows where they are.
DeleteRow(c) ==
  LET p == Oldest(cycle[c].confirmed)
      rest == cycle[c].confirmed \ {p}
  IN
  /\ cycle[c].phase = "deleting"
  /\ queue' = queue \ {p}
  /\ cycle' = [cycle EXCEPT ![c] = IF rest = {} THEN Idle ELSE [@ EXCEPT !.confirmed = rest]]
  /\ UNCHANGED <<auth, online, syncing, play, created, unlinked, wire, server>>

DeleteFails(c) ==
  /\ cycle[c].phase = "deleting"
  /\ cycle' = [cycle EXCEPT ![c] = Idle]
  /\ UNCHANGED <<auth, online, syncing, play, queue, created, unlinked, wire, server>>

\* The app is closed and opened: memory is lost, the saved session is restored,
\* and a new connection opens the file.
Restart ==
  /\ auth' = [auth EXCEPT !.user = auth.saved.user, !.device = auth.saved.device,
                          !.registering = Nobody]
  /\ online' = TRUE
  /\ syncing' = FALSE
  /\ cycle' = [c \in Cycle |-> Idle]
  /\ play' = [p \in Play |->
       IF play[p].state \in {"saving", "queueing"}
       THEN [play[p] EXCEPT !.state = "lost",
                            !.request = IF @ = "sent" THEN "sent" ELSE "none"]
       ELSE play[p]]
  /\ queue' = IF unlinked THEN {} ELSE queue
  /\ unlinked' = FALSE
  /\ wire' = Abandoned(Cycle)
  /\ UNCHANGED <<created, server>>
-----------------------------------------------------------------------------
(***************************************************************************)
(* The server: POST /sync and an ARCO cancellation.                        *)
(***************************************************************************)

Answers(m, answer) ==
  /\ wire' = wire \ {m}
  /\ cycle' = IF m.from = Nobody THEN cycle ELSE [cycle EXCEPT ![m.from].answer = answer]
  /\ UNCHANGED <<auth, online, syncing, play, queue, created, unlinked, owner, wipe>>

\* The token says who sends, and the device is registered to that user.
Admitted(m) == m.token = m.user /\ owner[m.device] = m.user

Fresh_NoKey(m) == Admitted(m)
Fresh(m) == Admitted(m) /\ events[m.play] = "none"

Credit(m) ==
  /\ Fresh(m)
  /\ Verdict[m.play] = "accept"
  /\ events' = [events EXCEPT ![m.play] = "accepted"]
  /\ credits' = [credits EXCEPT ![m.play] = Append(@, [user |-> m.user, via |-> "sync"])]
  /\ Answers(m, IF wipe[m.device] THEN "wipe" ELSE "synced")

\* The row of the event is committed, and the answer is an error: an error
\* other than 401 is to the client what no answer is.
Reject(m) ==
  /\ Fresh(m)
  /\ Verdict[m.play] # "accept"
  /\ events' = [events EXCEPT ![m.play] = "rejected"]
  /\ Answers(m, IF Verdict[m.play] = "badSignature" THEN "unauthorized" ELSE "none")
  /\ UNCHANGED credits

AlreadyProcessed_Error(m) ==
  /\ Admitted(m)
  /\ events[m.play] # "none"
  /\ Answers(m, "none")
  /\ UNCHANGED <<events, credits>>

AlreadyProcessed(m) ==
  /\ Admitted(m)
  /\ events[m.play] # "none"
  /\ Answers(m, "already")
  /\ UNCHANGED <<events, credits>>

\* A 401 of the middleware: no token, or one that is no longer good.
Unauthorized(m) ==
  /\ Answers(m, "unauthorized")
  /\ UNCHANGED <<events, credits>>

\* A 422 that records nothing, or a 500.
Refuse(m) ==
  /\ m.token # Nobody
  /\ Answers(m, "none")
  /\ UNCHANGED <<events, credits>>

ArcoCancel(u) ==
  /\ u \in MayCancel
  /\ wipe' = [d \in Device |-> wipe[d] \/ owner[d] = u]
  /\ UNCHANGED <<client, wire, events, credits, owner>>
-----------------------------------------------------------------------------
Serve(m) == Credit(m) \/ Reject(m) \/ AlreadyProcessed(m)

Next ==
  \/ \E u \in Player : Login(u) \/ ArcoCancel(u)
  \/ \E d \in Device : RegisterDevice(d)
  \/ RegistrationFails
  \/ SignOut
  \/ NetworkChanges
  \/ Restart
  \/ \E p \in Play :
       \/ FinishLevel(p) \/ ServerCompletes(p) \/ CompletionSaved(p) \/ CompletionFails(p)
       \/ CompletionResent(p) \/ CompletionUnauthorized(p) \/ Enqueue(p)
       \/ EnqueueFails(p)
  \/ \E c \in Cycle :
       \/ Start(c) \/ Load(c) \/ GameActive(c) \/ StartSending(c) \/ SignFails(c) \/ Post(c)
       \/ Fails(c) \/ RefreshAndResend(c) \/ SessionExpired(c) \/ Receive(c) \/ WipeLocal(c)
       \/ DeleteRow(c) \/ DeleteFails(c)
  \/ \E m \in wire : Serve(m) \/ Unauthorized(m) \/ Refuse(m)

Spec == Init /\ [][Next]_vars

\* The interval and the event loop go on; the player leaves the game at last;
\* signing, deleting, the server's answer and its delivery do not fail for ever.
Fairness ==
  \A c \in Cycle :
    /\ WF_vars(Start(c)) /\ WF_vars(Load(c)) /\ SF_vars(StartSending(c))
    /\ SF_vars(Post(c))
    /\ SF_vars(\E m \in wire : m.from = c /\ Serve(m))
    /\ SF_vars(Receive(c))
    /\ WF_vars(Fails(c) \/ Receive(c) \/ RefreshAndResend(c) \/ SessionExpired(c))
    /\ WF_vars(WipeLocal(c))
    /\ SF_vars(DeleteRow(c))

FairSpec == Spec /\ Fairness
-----------------------------------------------------------------------------
(***************************************************************************)
(* Properties.                                                             *)
(***************************************************************************)

AuthRecord ==
  [user : Player \union {Nobody}, device : Device \union {NoDevice},
   registering : Player \union {Nobody},
   saved : [user : Player \union {Nobody}, device : Device \union {NoDevice}]]

CycleRecord ==
  [phase : {"idle", "loading", "checking", "ready", "waiting", "wiping", "deleting"},
   user : Player \union {Nobody}, device : Device \union {NoDevice},
   rows : SUBSET Play, try : 0..MaxAttempts, resent : BOOLEAN,
   answer : {"none", "synced", "wipe", "already", "unauthorized"},
   confirmed : SUBSET Play]

PlayRecord ==
  [state : {"unplayed", "saving", "saved", "queueing", "queued", "dropped", "lost"},
   player : Player \union {Nobody}, token : Player \union {Nobody},
   request : {"none", "sent", "done", "unauthorized"}, resent : BOOLEAN]

\* Every variable of the app and of the server keeps its type: a cycle has rows
\* to send or to delete in the phases that do so, a result on its way a token.
TypeOK ==
  /\ auth \in AuthRecord
  /\ online \in BOOLEAN /\ syncing \in BOOLEAN /\ unlinked \in BOOLEAN
  /\ cycle \in [Cycle -> CycleRecord]
  /\ \A c \in Cycle :
       /\ cycle[c].phase \in {"checking", "ready", "waiting", "wiping"} => cycle[c].rows # {}
       /\ cycle[c].phase \in {"wiping", "deleting"} => cycle[c].confirmed # {}
  /\ play \in [Play -> PlayRecord]
  /\ \A p \in Play : play[p].request = "sent" => play[p].token \in Player
  /\ queue \subseteq Play
  /\ created \in [Play -> Nat]
  /\ wire \subseteq Request
  /\ events \in [Play -> {"none", "accepted", "rejected"}]
  /\ credits \in [Play -> Seq([user : Player, via : {"online", "sync"}])]
  /\ owner \in [Device -> Player \union {Nobody}]
  /\ wipe \in [Device -> BOOLEAN]

WipeOrdered == \E d \in Device : wipe[d]

\* A queued row is deleted only after the server has recorded its event,
\* whatever the overlap of cycles, the lost answers, the changes of user and
\* the restarts; only a cancellation takes rows away before that.
RowKept ==
  \A p \in Play :
    play[p].state = "queued" /\ ~WipeOrdered => p \in queue \/ events[p] # "none"

\* A play is credited at most once for its row however often the row is sent,
\* and exactly once in all if the app showed its online result.
CreditedOnce ==
  \A p \in Play :
    /\ \A i, j \in DOMAIN credits[p] :
         credits[p][i].via = "sync" /\ credits[p][j].via = "sync" => i = j
    /\ play[p].state = "saved" => Len(credits[p]) = 1

\* The server records events in the order in which their plays were queued: a
\* row that fails holds back the later ones.
OrderKept ==
  \A p, q \in Play :
    /\ created[p] \in 1..created[q]
    /\ events[q] # "none"
    /\ ~WipeOrdered
    => events[p] # "none"

\* isSyncing, which blocks every other cycle, is set only while some cycle is
\* sending: no error, expired session or overlap leaves it set for ever.
SyncingHeld ==
  syncing => \E c \in Cycle : cycle[c].phase \in {"ready", "waiting", "wiping"}

\* The app is online and its player signed in with a device of his own.
Ready == online /\ auth.user # Nobody /\ auth.device # NoDevice /\ owner[auth.device] = auth.user

\* Once the app stays online, signed in and open, the queue empties: rejected
\* rows, lost answers, expired tokens and stale cycles do not clog it.
Drained ==
  (<>[]Ready /\ <>[][~Restart]_vars) => <>[](queue = {})
-----------------------------------------------------------------------------
(***************************************************************************)
(* The inductive invariant behind RowKept and SyncingHeld: a row is        *)
(* confirmed, and so deleted, only on an answer to the row itself.         *)
(***************************************************************************)

Sending == {"checking", "ready", "waiting", "wiping"}
Good == {"synced", "wipe", "already"}

\* What a cycle knows: it has the user and the device it was started with, its
\* rows were queued, it waits when an answer comes, a good answer and a confirmed
\* row tell of a recorded event, and it wipes on order.
CycleOK(r) ==
  /\ r.phase \in Sending \union {"loading"} => r.user \in Player /\ r.device \in Device
  /\ \A p \in r.rows : created[p] # 0
  /\ r.try = MaxAttempts => r.phase \in {"waiting", "wiping"}
  /\ r.answer # "none" => r.phase = "waiting"
  /\ r.answer \in Good => events[Oldest(r.rows)] # "none"
  /\ \A p \in r.confirmed : events[p] # "none"
  /\ r.answer = "wipe" \/ r.phase = "wiping" => WipeOrdered

CyclesOK == \A c \in Cycle : CycleOK(cycle[c])

\* A cycle that waits has one request on the wire, for the row it is at, until
\* the answer comes.
SentOldest ==
  \A m \in wire : m.from # Nobody =>
    /\ cycle[m.from].phase = "waiting"
    /\ cycle[m.from].answer = "none"
    /\ m.play = Oldest(cycle[m.from].rows)
    /\ \A n \in wire : n.from = m.from => n = m

\* Rows belong to queued plays, and the file is removed only on order.
RowsQueued ==
  /\ \A p \in Play : created[p] # 0 <=> play[p].state = "queued"
  /\ \A p \in queue : created[p] # 0
  /\ unlinked => WipeOrdered

QueueInv ==
  /\ TypeOK
  /\ CyclesOK
  /\ SentOldest
  /\ RowsQueued
  /\ RowKept
  /\ SyncingHeld

(***************************************************************************)
(* The inductive invariant behind OrderKept and CreditedOnce, which rests  *)
(* on QueueInv: what is sent comes after what the server has.              *)
(***************************************************************************)

\* The rows queued before p, except some, have recorded events.
EarlierRecorded(p, except) ==
  \A q \in Play \ except : created[q] \in 1..created[p] => events[q] # "none" \/ WipeOrdered

\* Rows have times of their own, and a new row a later one.
TimesOrdered ==
  /\ \A p \in Play : created[p] <= Cardinality({q \in Play : created[q] # 0})
  /\ \A p, q \in Play : created[p] # 0 /\ created[p] = created[q] => p = q

\* A cycle has every row before its rows that the server does not have, a request
\* is for the first such row, and events are those of rows.
SentInOrder ==
  /\ \A c \in Cycle : \A p \in cycle[c].rows : EarlierRecorded(p, cycle[c].rows)
  /\ \A m \in wire : created[m.play] # 0 /\ EarlierRecorded(m.play, {m.play})
  /\ \A p \in Play : events[p] # "none" => created[p] # 0

\* A sync credit comes with its event, and while the app waits for its online
\* result a play has the credit of that result only.
CreditsExplained ==
  \A p \in Play :
    /\ events[p] = "none" => \A i \in DOMAIN credits[p] : credits[p][i].via = "online"
    /\ play[p].state \in {"unplayed", "saving", "saved"} =>
         Len(credits[p]) = IF play[p].state = "saved" \/ play[p].request = "done" THEN 1 ELSE 0
    /\ play[p].state \in {"unplayed", "saved"} => play[p].request = "none"

HistoryInv ==
  /\ TimesOrdered
  /\ SentInOrder
  /\ CreditsExplained
  /\ OrderKept
  /\ CreditedOnce
-----------------------------------------------------------------------------
(***************************************************************************)
(* What the code or its documents say and the code does not do.            *)
(***************************************************************************)

\* A row that the server confirmed and the app deleted was credited ("Duplicate
\* sync_event_id -> idempotent success"): a repeated rejected event is not.
ConfirmedIsCredited ==
  \A p \in Play :
    play[p].state = "queued" /\ ~WipeOrdered =>
      p \in queue \/ \E i \in DOMAIN credits[p] : credits[p][i].via = "sync"

\* While a device is marked, every successful answer to it orders the wipe
\* ("next sync response MUST inject wipe_local_data"): a duplicate's does not.
WipeInNextResponse ==
  [][\A c \in Cycle :
       /\ cycle[c].answer = "none"
       /\ cycle'[c].answer \in {"synced", "already"}
       => ~wipe[cycle[c].device]]_vars

\* A play that could not be saved online goes to the local queue, as the message
\* on the screen says, if the app has a device: after a 401 nobody is signed in
\* and it is dropped.
FailedSaveQueued ==
  [][\A p \in Play :
       auth.device # NoDevice /\ play[p].state = "saving" => play'[p].state # "dropped"]_vars
=============================================================================
