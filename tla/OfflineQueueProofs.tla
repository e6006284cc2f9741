------------------------- MODULE OfflineQueueProofs -------------------------
(***************************************************************************)
(* Theorems about OfflineQueue, for any number of players, plays, devices  *)
(* and cycles, any verdicts and any limits.                                *)
(***************************************************************************)
EXTENDS OfflineQueue, FiniteSetTheorems, WellFoundedInduction, TLAPS

(***************************************************************************)
(* The oldest row.                                                         *)
(***************************************************************************)

\* A set of rows has an oldest one: of the sets of plays queued before a row,
\* one is the least.
LEMMA OldestIn ==
  ASSUME created \in [Play -> Nat], NEW rows \in SUBSET Play, rows # {}
  PROVE  Oldest(rows) \in rows /\ \A q \in rows : created[Oldest(rows)] <= created[q]
<1> DEFINE Before(p) == {q \in Play : created[q] < created[p]}
<1>1. IsWellFoundedOn(StrictSubsetOrdering(Play), SUBSET Play)
  <2>1. FiniteSubsetsOf(Play) = SUBSET Play
    BY ConstantsAssumption, FS_FiniteSubsetsOfFinite
  <2> QED BY <2>1, FS_StrictSubsetOrderingWellFounded
<1>2. PICK low \in {Before(p) : p \in rows} :
        \A other \in {Before(p) : p \in rows} : <<other, low>> \notin StrictSubsetOrdering(Play)
  <2>1. {Before(p) : p \in rows} \subseteq SUBSET Play /\ {Before(p) : p \in rows} # {}
    OBVIOUS
  <2> QED BY <1>1, <2>1, WFMin
<1>3. PICK p \in rows : low = Before(p)
  BY <1>2
<1>4. ASSUME NEW q \in rows, created[q] < created[p]
      PROVE  FALSE
  <2>1. Before(q) \subseteq low /\ q \in low /\ q \notin Before(q)
    BY <1>3, <1>4
  <2>2. <<Before(q), low>> \in StrictSubsetOrdering(Play)
    BY <1>3, <2>1 DEF StrictSubsetOrdering
  <2> QED BY <1>2, <2>2
<1>5. \A q \in rows : created[p] <= created[q]
  BY <1>4
<1> QED BY <1>5 DEF Oldest

(***************************************************************************)
(* The invariant in the parts the steps disturb.                           *)
(***************************************************************************)

\* TypeOK without the cycles.
Types ==
  /\ auth \in AuthRecord
  /\ online \in BOOLEAN /\ syncing \in BOOLEAN /\ unlinked \in BOOLEAN
  /\ play \in [Play -> PlayRecord]
  /\ \A p \in Play : play[p].request = "sent" => play[p].token \in Player
  /\ queue \subseteq Play
  /\ created \in [Play -> Nat]
  /\ wire \subseteq Request
  /\ events \in [Play -> {"none", "accepted", "rejected"}]
  /\ credits \in [Play -> Seq([user : Player, via : {"online", "sync"}])]
  /\ owner \in [Device -> Player \union {Nobody}]
  /\ wipe \in [Device -> BOOLEAN]

\* The record of one cycle.
RecordOK(r) ==
  /\ r \in CycleRecord
  /\ r.phase \in {"checking", "ready", "waiting", "wiping"} => r.rows # {}
  /\ r.phase \in {"wiping", "deleting"} => r.confirmed # {}
  /\ CycleOK(r)

Records == cycle \in [Cycle -> CycleRecord] /\ \A c \in Cycle : RecordOK(cycle[c])

InParts == Types /\ Records /\ SentOldest /\ RowsQueued /\ RowKept /\ SyncingHeld

LEMMA Parts == (QueueInv <=> InParts) /\ (QueueInv' <=> InParts')
BY DEF InParts, QueueInv, TypeOK, CyclesOK, Types, Records, RecordOK

\* Every step leaves the time of a row, a recorded event and an ordered wipe.
Grows ==
  /\ \A p \in Play : created[p] # 0 => created'[p] = created[p]
  /\ \A p \in Play : events[p] # "none" => events'[p] # "none"
  /\ WipeOrdered => WipeOrdered'

LEMMA OldestKept ==
  ASSUME NEW rows, \A p \in rows : created'[p] = created[p]
  PROVE  Oldest(rows)' = Oldest(rows)
BY DEF Oldest

\* What a cycle knows remains true.
LEMMA RecordKept ==
  ASSUME Types, Grows, NEW r, RecordOK(r)
  PROVE  RecordOK(r)' /\ Oldest(r.rows)' = Oldest(r.rows)
<1>1. r.rows \subseteq Play /\ r.confirmed \subseteq Play /\ \A p \in r.rows : created[p] # 0
  BY DEF RecordOK, CycleRecord, CycleOK
<1>2. \A p \in r.rows : created'[p] = created[p]
  BY <1>1 DEF Grows
<1>3. Oldest(r.rows)' = Oldest(r.rows)
  BY <1>2, OldestKept
<1>4. r.answer \in Good => r.rows # {} /\ Oldest(r.rows) \in Play
  <2>1. r.answer \in Good => r.phase = "waiting"
    BY DEF RecordOK, CycleOK, Good
  <2> QED BY <1>1, <2>1, OldestIn DEF RecordOK, Types
<1>5. CycleOK(r)'
  BY <1>1, <1>2, <1>3, <1>4 DEF RecordOK, CycleOK, Grows
<1> QED BY <1>3, <1>5 DEF RecordOK

\* A step of one cycle keeps the records of the others.
LEMMA RecordsKept ==
  ASSUME Types, Records, Grows, NEW c \in Cycle, cycle' \in [Cycle -> CycleRecord],
         \A d \in Cycle \ {c} : cycle'[d] = cycle[d], RecordOK(cycle[c])'
  PROVE  Records'
<1>1. ASSUME NEW d \in Cycle \ {c} PROVE RecordOK(cycle[d])'
  <2>1. RecordOK(cycle[d]) /\ cycle'[d] = cycle[d]
    BY DEF Records
  <2> DEFINE r == cycle[d]
  <2> QED BY <2>1, RecordKept DEF RecordOK, CycleOK
<1> QED BY <1>1 DEF Records

\* Requests that somebody still waits for are those of cycles the step left alone.
LEMMA SentKept ==
  ASSUME Types, Records, Grows, SentOldest,
         \A m \in wire' : m.from # Nobody => m \in wire /\ cycle'[m.from] = cycle[m.from]
  PROVE  SentOldest'
<1> SUFFICES ASSUME NEW m \in wire', m.from # Nobody
             PROVE  /\ cycle'[m.from].phase = "waiting"
                    /\ cycle'[m.from].answer = "none"
                    /\ m.play = Oldest(cycle[m.from].rows)'
                    /\ \A n \in wire' : n.from = m.from => n = m
  BY DEF SentOldest
<1>1. m \in wire /\ cycle'[m.from] = cycle[m.from] /\ m.from \in Cycle
  BY DEF Types, Request
<1>2. /\ cycle[m.from].phase = "waiting"
      /\ cycle[m.from].answer = "none"
      /\ m.play = Oldest(cycle[m.from].rows)
      /\ \A n \in wire : n.from = m.from => n = m
  BY <1>1 DEF SentOldest
<1>3. Oldest(cycle[m.from].rows)' = Oldest(cycle[m.from].rows)
  <2>1. RecordOK(cycle[m.from])
    BY <1>1 DEF Records
  <2>2. cycle[m.from].rows \subseteq Play
    BY <1>1 DEF Records, CycleRecord
  <2>3. \A p \in cycle[m.from].rows : created'[p] = created[p]
    BY <2>1, <2>2 DEF RecordOK, CycleOK, Grows
  <2> QED BY <1>1, <2>3 DEF Oldest
<1> QED BY <1>1, <1>2, <1>3

\* A cycle that is not waiting, or has its answer, has no request on the wire.
LEMMA NoRequest ==
  ASSUME SentOldest, NEW c \in Cycle,
         cycle[c].phase # "waiting" \/ cycle[c].answer # "none"
  PROVE  \A m \in wire : m.from # Nobody => m.from # c
BY DEF SentOldest

\* The step of a cycle that sends a request for its row.
LEMMA SentNew ==
  ASSUME Types, Records, Grows, SentOldest, NEW c \in Cycle,
         cycle[c].phase # "waiting" \/ cycle[c].answer # "none",
         wire' = wire \union {RequestOf(c)},
         \A d \in Cycle \ {c} : cycle'[d] = cycle[d],
         cycle'[c].phase = "waiting", cycle'[c].answer = "none",
         cycle'[c].rows = cycle[c].rows, created' = created
  PROVE  SentOldest'
<1> DEFINE new == RequestOf(c)
<1>1. new.from = c /\ new.play = Oldest(cycle[c].rows)
  BY DEF RequestOf
<1>2. Oldest(cycle[c].rows)' = Oldest(cycle[c].rows)
  BY DEF Oldest
<1> SUFFICES ASSUME NEW m \in wire', m.from # Nobody
             PROVE  /\ cycle'[m.from].phase = "waiting"
                    /\ cycle'[m.from].answer = "none"
                    /\ m.play = Oldest(cycle[m.from].rows)'
                    /\ \A n \in wire' : n.from = m.from => n = m
  BY DEF SentOldest
<1>3. CASE m = new
  <2>1. \A n \in wire' : n.from = c => n = m
    BY <1>1, <1>3, NoRequest
  <2> QED BY <1>1, <1>2, <1>3, <2>1
<1>4. CASE m # new
  <2>1. m \in wire /\ m.from \in Cycle \ {c} /\ cycle'[m.from] = cycle[m.from]
    BY <1>4, NoRequest DEF Types, Request
  <2>2. /\ cycle[m.from].phase = "waiting"
        /\ cycle[m.from].answer = "none"
        /\ m.play = Oldest(cycle[m.from].rows)
        /\ \A n \in wire : n.from = m.from => n = m
    BY <2>1 DEF SentOldest
  <2>3. Oldest(cycle[m.from].rows)' = Oldest(cycle[m.from].rows)
    BY <2>1 DEF Oldest
  <2>4. \A n \in wire' : n.from = m.from => n = m
    BY <1>1, <2>1, <2>2
  <2> QED BY <2>1, <2>2, <2>3, <2>4
<1> QED BY <1>3, <1>4

(***************************************************************************)
(* Steps that leave most of the invariant alone.                           *)
(***************************************************************************)

\* A step of the session or of a play that is not queued.
LEMMA QuietStep ==
  ASSUME QueueInv, Types',
         UNCHANGED <<syncing, cycle, queue, created, unlinked, wire, events, wipe>>,
         \A p \in Play : play'[p].state = "queued" <=> play[p].state = "queued"
  PROVE  QueueInv'
<1>1. Types /\ Records /\ SentOldest /\ RowsQueued /\ RowKept /\ SyncingHeld
  BY Parts DEF InParts
<1>2. Records'
  BY <1>1 DEF Records, RecordOK, CycleOK, WipeOrdered, Oldest
<1>3. SentOldest'
  BY <1>1 DEF SentOldest, Oldest
<1>4. RowsQueued' /\ RowKept' /\ SyncingHeld'
  BY <1>1 DEF RowsQueued, RowKept, SyncingHeld, WipeOrdered
<1>5. (Types /\ Records /\ SentOldest /\ RowsQueued /\ RowKept /\ SyncingHeld)'
  BY <1>2, <1>3, <1>4
<1> QED BY <1>5, Parts DEF InParts

\* A step of one cycle that sends nothing and deletes nothing.
LEMMA CycleStep ==
  ASSUME QueueInv, NEW c \in Cycle,
         cycle[c].phase # "waiting" \/ cycle[c].answer # "none",
         cycle' \in [Cycle -> CycleRecord], \A d \in Cycle \ {c} : cycle'[d] = cycle[d],
         RecordOK(cycle'[c]),
         UNCHANGED <<online, play, queue, created, wire, server>>,
         auth' \in AuthRecord, unlinked' \in BOOLEAN, unlinked' => WipeOrdered,
         syncing' \in BOOLEAN,
         syncing' => \/ cycle'[c].phase \in {"ready", "waiting", "wiping"}
                     \/ syncing /\ cycle[c].phase \notin {"ready", "waiting", "wiping"}
  PROVE  QueueInv'
<1>1. Types /\ Records /\ SentOldest /\ RowsQueued /\ RowKept /\ SyncingHeld
  BY Parts DEF InParts
<1>2. Types' /\ Grows
  BY <1>1 DEF Types, Grows, server, WipeOrdered
<1>3. RecordOK(cycle[c])'
  BY DEF RecordOK, CycleOK, Oldest, WipeOrdered, server
<1>4. Records'
  BY <1>1, <1>2, <1>3, RecordsKept
<1>5. SentOldest'
  <2>1. \A m \in wire' : m.from # Nobody => m \in wire /\ cycle'[m.from] = cycle[m.from]
    BY <1>1, NoRequest DEF Types, Request
  <2> QED BY <1>1, <1>2, <2>1, SentKept
<1>6. RowsQueued' /\ RowKept'
  BY <1>1 DEF RowsQueued, RowKept, WipeOrdered, server
<1>7. SyncingHeld'
  BY <1>1 DEF SyncingHeld
<1>8. (Types /\ Records /\ SentOldest /\ RowsQueued /\ RowKept /\ SyncingHeld)'
  BY <1>2, <1>4, <1>5, <1>6, <1>7
<1> QED BY <1>8, Parts DEF InParts

(***************************************************************************)
(* The session, and levels that are finished.                              *)
(***************************************************************************)

\* A step of the session, or of the network.
LEMMA SessionStep ==
  ASSUME QueueInv, auth' \in AuthRecord, online' \in BOOLEAN,
         owner' \in [Device -> Player \union {Nobody}],
         UNCHANGED <<syncing, cycle, play, queue, created, unlinked, wire, events, credits, wipe>>
  PROVE  QueueInv'
<1>1. Types'
  BY Parts DEF InParts, Types
<1> QED BY <1>1, QuietStep

LEMMA AuthShape ==
  ASSUME QueueInv
  PROVE  /\ auth \in AuthRecord
         /\ LoggedOut \in AuthRecord /\ Refreshed \in AuthRecord
         /\ owner \in [Device -> Player \union {Nobody}]
         /\ online \in BOOLEAN
BY DEF QueueInv, TypeOK, AuthRecord, LoggedOut, Refreshed, NoSession

LEMMA SessionActions ==
  ASSUME QueueInv,
         \/ \E u \in Player : Login(u)
         \/ \E d \in Device : RegisterDevice(d)
         \/ RegistrationFails
         \/ SignOut
         \/ NetworkChanges
  PROVE  QueueInv'
<1> USE AuthShape
<1>1. ASSUME NEW u \in Player, Login(u) PROVE QueueInv'
  <2>1. auth' \in AuthRecord
    BY <1>1 DEF Login, AuthRecord
  <2> QED BY <1>1, <2>1, SessionStep DEF Login, server
<1>2. ASSUME NEW d \in Device, RegisterDevice(d) PROVE QueueInv'
  <2>1. auth' \in AuthRecord /\ owner' \in [Device -> Player \union {Nobody}]
    BY <1>2 DEF RegisterDevice, AuthRecord
  <2> QED BY <1>2, <2>1, SessionStep DEF RegisterDevice
<1>3. ASSUME RegistrationFails PROVE QueueInv'
  <2>1. auth' \in AuthRecord
    BY <1>3 DEF RegistrationFails, AuthRecord
  <2> QED BY <1>3, <2>1, SessionStep DEF RegistrationFails, server
<1>4. ASSUME SignOut PROVE QueueInv'
  <2>1. auth' \in AuthRecord
    BY <1>4 DEF SignOut, AuthRecord, NoSession
  <2> QED BY <1>4, <2>1, SessionStep DEF SignOut, server
<1>5. ASSUME NetworkChanges PROVE QueueInv'
  BY <1>5, SessionStep DEF NetworkChanges, server
<1> QED BY <1>1, <1>2, <1>3, <1>4, <1>5

\* A step of one play that does not queue it.
LEMMA PlayStep ==
  ASSUME QueueInv, NEW p \in Play, play[p].state # "queued",
         auth' \in AuthRecord,
         play' \in [Play -> PlayRecord], \A q \in Play \ {p} : play'[q] = play[q],
         play'[p].state # "queued",
         play'[p].request = "sent" => play'[p].token \in Player,
         UNCHANGED <<online, syncing, cycle, queue, created, unlinked, wire, server>>
  PROVE  QueueInv'
<1>1. Types'
  BY Parts DEF InParts, Types, server
<1> QED BY <1>1, QuietStep DEF server

LEMMA UnsavedRecord ==
  ASSUME QueueInv, NEW p \in Play, NEW user, Unsaved(p, user)
  PROVE  /\ play' \in [Play -> PlayRecord]
         /\ \A q \in Play \ {p} : play'[q] = play[q]
         /\ play'[p].state \in {"dropped", "queueing"}
         /\ play'[p].token = play[p].token
         /\ play'[p].request = "sent" => play[p].request = "sent"
<1> DEFINE state == IF user = Nobody \/ auth.device = NoDevice THEN "dropped" ELSE "queueing"
           request == IF play[p].request = "sent" THEN "sent" ELSE "none"
<1>1. play \in [Play -> PlayRecord] /\ play[p] \in PlayRecord
  BY DEF QueueInv, TypeOK
<1>2. play' = [play EXCEPT ![p] = [play[p] EXCEPT !.state = state, !.request = request]]
  BY <1>1 DEF Unsaved
<1>3. state \in {"dropped", "queueing"} /\ request \in {"none", "sent"}
  OBVIOUS
<1>4. [play[p] EXCEPT !.state = state, !.request = request] \in PlayRecord
  <2> HIDE DEF state, request
  <2> QED BY <1>1, <1>3 DEF PlayRecord
<1>5. play'[p] = [play[p] EXCEPT !.state = state, !.request = request]
  BY <1>1, <1>2
<1>6. play'[p].state = state /\ play'[p].token = play[p].token /\ play'[p].request = request
  BY <1>1, <1>5 DEF PlayRecord
<1> QED BY <1>1, <1>2, <1>3, <1>4, <1>6

LEMMA PlayActions ==
  ASSUME QueueInv, NEW p \in Play,
         \/ FinishLevel(p) \/ CompletionSaved(p) \/ CompletionFails(p)
         \/ CompletionResent(p) \/ CompletionUnauthorized(p) \/ EnqueueFails(p)
  PROVE  QueueInv'
<1>1. play \in [Play -> PlayRecord] /\ (play[p].request = "sent" => play[p].token \in Player)
  BY DEF QueueInv, TypeOK
<1>2. CASE FinishLevel(p)
  <2>1. auth.user \in Player
    BY <1>2, AuthShape DEF FinishLevel, AuthRecord
  <2>2. play' \in [Play -> PlayRecord] /\ play'[p].state = "saving" /\ play'[p].token = auth.user
    BY <1>1, <1>2, <2>1 DEF FinishLevel, PlayRecord
  <2> QED BY <1>1, <1>2, <2>1, <2>2, PlayStep, AuthShape DEF FinishLevel
<1>3. CASE CompletionSaved(p)
  <2>1. play' \in [Play -> PlayRecord] /\ play'[p].state = "saved" /\ play'[p].request = "none"
    BY <1>1, <1>3 DEF CompletionSaved, PlayRecord
  <2> QED BY <1>1, <1>3, <2>1, PlayStep, AuthShape DEF CompletionSaved
<1>4. CASE CompletionFails(p)
  BY <1>1, <1>4, UnsavedRecord, PlayStep, AuthShape DEF CompletionFails
<1>5. CASE CompletionResent(p)
  <2>1. auth.user \in Player
    BY <1>5, AuthShape DEF CompletionResent, AuthRecord
  <2>2. play' \in [Play -> PlayRecord] /\ play'[p].state = "saving" /\ play'[p].token = auth.user
    BY <1>1, <1>5, <2>1 DEF CompletionResent, PlayRecord
  <2> QED BY <1>1, <1>5, <2>1, <2>2, PlayStep, AuthShape DEF CompletionResent
<1>6. CASE CompletionUnauthorized(p)
  BY <1>1, <1>6, UnsavedRecord, PlayStep, AuthShape DEF CompletionUnauthorized
<1>7. CASE EnqueueFails(p)
  <2>1. /\ play' \in [Play -> PlayRecord] /\ play'[p].state = "lost"
        /\ play'[p].request = play[p].request /\ play'[p].token = play[p].token
    BY <1>1, <1>7 DEF EnqueueFails, PlayRecord
  <2> QED BY <1>1, <1>7, <2>1, PlayStep, AuthShape DEF EnqueueFails
<1> QED BY <1>2, <1>3, <1>4, <1>5, <1>6, <1>7

\* The server credits an online result to the user of its token.
LEMMA ServerCompletesStep ==
  ASSUME QueueInv, NEW p \in Play, ServerCompletes(p)
  PROVE  QueueInv'
<1>1. Types
  BY Parts DEF InParts
<1>2. PICK answer \in {"done", "unauthorized", "none"} :
        /\ credits' = IF answer = "done"
                      THEN [credits EXCEPT ![p] = Append(@, [user |-> play[p].token, via |-> "online"])]
                      ELSE credits
        /\ play' = [play EXCEPT ![p].request = IF play[p].state = "saving" THEN answer ELSE "none"]
  BY DEF ServerCompletes
<1>3. credits' \in [Play -> Seq([user : Player, via : {"online", "sync"}])]
  <2>1. [user |-> play[p].token, via |-> "online"] \in [user : Player, via : {"online", "sync"}]
    BY <1>1 DEF ServerCompletes, Types
  <2>2. /\ credits \in [Play -> Seq([user : Player, via : {"online", "sync"}])]
        /\ credits[p] \in Seq([user : Player, via : {"online", "sync"}])
    BY <1>1 DEF Types
  <2>3. Append(credits[p], [user |-> play[p].token, via |-> "online"])
          \in Seq([user : Player, via : {"online", "sync"}])
    BY <2>1, <2>2
  <2> QED BY <1>2, <2>2, <2>3
<1>4. /\ play' \in [Play -> PlayRecord] /\ play'[p].request # "sent"
      /\ \A q \in Play : play'[q].state = play[q].state
      /\ \A q \in Play \ {p} : play'[q] = play[q]
  <2> DEFINE request == IF play[p].state = "saving" THEN answer ELSE "none"
  <2>1. play \in [Play -> PlayRecord] /\ play[p] \in PlayRecord
    BY <1>1 DEF Types
  <2>2. request \in {"none", "done", "unauthorized"}
    BY <1>2
  <2>3. play' = [play EXCEPT ![p] = [play[p] EXCEPT !.request = request]]
    BY <1>2, <2>1
  <2> HIDE DEF request
  <2>4. [play[p] EXCEPT !.request = request] \in PlayRecord
    BY <2>1, <2>2 DEF PlayRecord
  <2>5. play'[p] = [play[p] EXCEPT !.request = request]
    BY <2>1, <2>3
  <2>6. play'[p].request = request /\ play'[p].state = play[p].state
    BY <2>1, <2>5 DEF PlayRecord
  <2> QED BY <2>1, <2>2, <2>3, <2>4, <2>6
<1>5. Types'
  BY <1>1, <1>3, <1>4 DEF Types, ServerCompletes
<1> QED BY <1>4, <1>5, QuietStep DEF ServerCompletes

(***************************************************************************)
(* A cycle: rows are loaded, and the loop over them ends.                  *)
(***************************************************************************)

LEMMA CycleShape ==
  ASSUME QueueInv, NEW c \in Cycle
  PROVE  cycle \in [Cycle -> CycleRecord] /\ cycle[c] \in CycleRecord /\ RecordOK(cycle[c])
BY Parts DEF InParts, Records

\* Rows a cycle has are plays, and it is at one of them.
LEMMA AtRow ==
  ASSUME QueueInv, NEW c \in Cycle, cycle[c].phase \in {"ready", "waiting", "wiping"}
  PROVE  /\ cycle[c].rows \in SUBSET Play
         /\ Oldest(cycle[c].rows) \in cycle[c].rows
<1>1. cycle[c].rows \in SUBSET Play /\ cycle[c].rows # {} /\ created \in [Play -> Nat]
  BY CycleShape DEF RecordOK, CycleRecord, QueueInv, TypeOK
<1> QED BY <1>1, OldestIn

LEMMA IdleOK == Idle \in CycleRecord /\ RecordOK(Idle)
<1>1. MaxAttempts \in Nat \ {0}
  BY ConstantsAssumption
<1>2. Idle \in CycleRecord
  BY <1>1 DEF Idle, CycleRecord
<1> QED BY <1>1, <1>2 DEF Idle, RecordOK, CycleOK, Sending, Good

\* The loop ends with rows whose events the server has recorded.
LEMMA FinishedRecord ==
  ASSUME QueueInv, NEW c \in Cycle, NEW confirmed \in SUBSET Play,
         \A p \in confirmed : events[p] # "none", Finished(c, confirmed)
  PROVE  /\ cycle' \in [Cycle -> CycleRecord]
         /\ \A d \in Cycle \ {c} : cycle'[d] = cycle[d]
         /\ RecordOK(cycle'[c])
         /\ syncing' = FALSE
         /\ cycle'[c].phase \in {"idle", "deleting"}
<1> DEFINE r == [Idle EXCEPT !.phase = "deleting", !.confirmed = confirmed]
<1>1. MaxAttempts \in Nat \ {0}
  BY ConstantsAssumption
<1>2. r \in CycleRecord /\ r.phase = "deleting" /\ r.confirmed = confirmed
      /\ r.rows = {} /\ r.answer = "none" /\ r.try = 0
  BY IdleOK, <1>1 DEF Idle, CycleRecord
<1>3. confirmed # {} => RecordOK(r)
  BY <1>1, <1>2 DEF RecordOK, CycleOK, Sending, Good
<1>4. cycle' = [cycle EXCEPT ![c] = IF confirmed = {} THEN Idle ELSE r] /\ syncing' = FALSE
  BY DEF Finished
<1>5. Idle.phase = "idle"
  BY DEF Idle
<1> HIDE DEF r
<1> QED BY <1>2, <1>3, <1>4, <1>5, IdleOK, CycleShape

\* The confirmed rows of a cycle have recorded events.
LEMMA ConfirmedRecorded ==
  ASSUME QueueInv, NEW c \in Cycle
  PROVE  cycle[c].confirmed \in SUBSET Play /\ \A p \in cycle[c].confirmed : events[p] # "none"
BY CycleShape DEF RecordOK, CycleOK, CycleRecord

LEMMA Others ==
  ASSUME QueueInv
  PROVE  /\ auth \in AuthRecord /\ LoggedOut \in AuthRecord
         /\ syncing \in BOOLEAN /\ unlinked \in BOOLEAN
         /\ unlinked => WipeOrdered
BY AuthShape DEF QueueInv, TypeOK, RowsQueued

\* A step that ends the loop.
LEMMA FinishedStep ==
  ASSUME QueueInv, NEW c \in Cycle,
         cycle[c].phase # "waiting" \/ cycle[c].answer # "none",
         NEW confirmed \in SUBSET Play,
         \A p \in confirmed : events[p] # "none", Finished(c, confirmed),
         auth' \in AuthRecord, unlinked' \in BOOLEAN, unlinked' => WipeOrdered,
         UNCHANGED <<online, play, queue, created, wire, server>>
  PROVE  QueueInv'
BY FinishedRecord, CycleStep

LEMMA StartStep ==
  ASSUME QueueInv, NEW c \in Cycle, Start(c)
  PROVE  QueueInv'
<1>1. auth.user \in Player /\ auth.device \in Device
  BY Others DEF Start, AuthRecord
<1>2. /\ cycle' \in [Cycle -> CycleRecord]
      /\ cycle'[c].phase = "loading"
      /\ cycle'[c].user = auth.user /\ cycle'[c].device = auth.device
      /\ cycle'[c].rows = cycle[c].rows /\ cycle'[c].try = cycle[c].try
      /\ cycle'[c].answer = cycle[c].answer /\ cycle'[c].confirmed = cycle[c].confirmed
  <2> DEFINE r == [cycle[c] EXCEPT !.phase = "loading", !.user = auth.user,
                                   !.device = auth.device]
  <2>1. /\ r \in CycleRecord /\ r.phase = "loading"
        /\ r.user = auth.user /\ r.device = auth.device
        /\ r.rows = cycle[c].rows /\ r.try = cycle[c].try
        /\ r.answer = cycle[c].answer /\ r.confirmed = cycle[c].confirmed
    <3>1. cycle[c] \in CycleRecord
      BY CycleShape
    <3> QED BY <1>1, <3>1 DEF CycleRecord
  <2>2. cycle' = [cycle EXCEPT ![c] = r]
    BY CycleShape DEF Start
  <2>3. cycle' \in [Cycle -> CycleRecord] /\ cycle'[c] = r
    BY <2>1, <2>2, CycleShape
  <2> QED BY <2>1, <2>3
<1>3. cycle[c].phase = "idle" /\ cycle[c].try # MaxAttempts /\ cycle[c].answer = "none"
  BY CycleShape DEF Start, RecordOK, CycleOK
<1>4. RecordOK(cycle'[c])
  BY <1>1, <1>2, <1>3, CycleShape DEF RecordOK, CycleOK, Good
<1> QED BY <1>2, <1>3, <1>4, CycleStep, Others DEF Start

\* The batch of a queue that is not empty has its oldest row.
LEMMA BatchNotEmpty ==
  ASSUME QueueInv, queue # {}
  PROVE  Batch # {} /\ Batch \subseteq queue /\ queue \subseteq Play
<1>1. queue \in SUBSET Play /\ created \in [Play -> Nat]
  BY DEF QueueInv, TypeOK
<1> DEFINE p == Oldest(queue)
<1>2. p \in queue /\ \A q \in queue : created[p] <= created[q]
  BY <1>1, OldestIn
<1>3. {q \in queue : created[q] < created[p]} = {}
  BY <1>1, <1>2
<1>4. Cardinality({q \in queue : created[q] < created[p]}) = 0
  BY <1>3, FS_EmptySet
<1>5. BatchLimit \in Nat /\ 0 < BatchLimit
  BY ConstantsAssumption
<1> HIDE DEF p
<1>6. p \in Batch
  BY <1>2, <1>4, <1>5 DEF Batch
<1> QED BY <1>1, <1>6 DEF Batch

LEMMA LoadStep ==
  ASSUME QueueInv, NEW c \in Cycle, Load(c)
  PROVE  QueueInv'
<1>1. cycle[c].phase = "loading"
  BY DEF Load
<1>2. CASE queue = {} \/ syncing \/ ~online
  <2>1. cycle' = [cycle EXCEPT ![c] = Idle]
    BY <1>2 DEF Load
  <2>2. cycle' \in [Cycle -> CycleRecord] /\ cycle'[c] = Idle
    BY <2>1, IdleOK, CycleShape
  <2> QED BY <1>1, <2>1, <2>2, IdleOK, CycleStep, Others DEF Load
<1>3. CASE ~(queue = {} \/ syncing \/ ~online)
  <2>1. Batch # {} /\ Batch \subseteq Play /\ \A p \in Batch : created[p] # 0
    BY <1>3, BatchNotEmpty DEF QueueInv, RowsQueued
  <2>2. cycle' = [cycle EXCEPT ![c] = [cycle[c] EXCEPT !.phase = "checking", !.rows = Batch]]
    BY <1>3, CycleShape DEF Load
  <2>3. /\ cycle' \in [Cycle -> CycleRecord]
        /\ cycle'[c].phase = "checking" /\ cycle'[c].rows = Batch
        /\ cycle'[c].user = cycle[c].user /\ cycle'[c].device = cycle[c].device
        /\ cycle'[c].try = cycle[c].try
        /\ cycle'[c].answer = cycle[c].answer /\ cycle'[c].confirmed = cycle[c].confirmed
    BY <2>1, <2>2, CycleShape DEF CycleRecord
  <2>4. RecordOK(cycle'[c])
    BY <1>1, <2>1, <2>3, CycleShape DEF RecordOK, CycleOK, Good
  <2> QED BY <1>1, <2>2, <2>3, <2>4, CycleStep, Others DEF Load
<1> QED BY <1>2, <1>3

LEMMA BecomesIdle ==
  ASSUME QueueInv, NEW c \in Cycle, GameActive(c) \/ DeleteFails(c)
  PROVE  QueueInv'
<1>1. cycle' = [cycle EXCEPT ![c] = Idle] /\ cycle[c].phase \in {"checking", "deleting"}
  BY DEF GameActive, DeleteFails
<1>2. cycle' \in [Cycle -> CycleRecord] /\ cycle'[c] = Idle
  BY <1>1, IdleOK, CycleShape
<1> QED BY <1>1, <1>2, IdleOK, CycleStep, Others DEF GameActive, DeleteFails

LEMMA StartSendingStep ==
  ASSUME QueueInv, NEW c \in Cycle, StartSending(c)
  PROVE  QueueInv'
<1>1. /\ cycle' \in [Cycle -> CycleRecord] /\ cycle'[c].phase = "ready"
      /\ cycle'[c] = [cycle[c] EXCEPT !.phase = "ready"] /\ cycle[c].phase = "checking"
  BY CycleShape DEF StartSending, CycleRecord
<1>2. RecordOK(cycle'[c])
  BY <1>1, CycleShape DEF RecordOK, CycleOK, CycleRecord, Sending, Good
<1> QED BY <1>1, <1>2, CycleStep, Others DEF StartSending

LEMMA EndsOfLoop ==
  ASSUME QueueInv, NEW c \in Cycle, SignFails(c) \/ SessionExpired(c) \/ WipeLocal(c)
  PROVE  QueueInv'
<1>1. CASE SignFails(c)
  BY <1>1, ConfirmedRecorded, FinishedStep, Others DEF SignFails
<1>2. CASE SessionExpired(c)
  BY <1>2, ConfirmedRecorded, FinishedStep, Others DEF SessionExpired
<1>3. CASE WipeLocal(c)
  <2>1. WipeOrdered
    BY <1>3, CycleShape DEF WipeLocal, RecordOK, CycleOK
  <2> QED BY <1>3, <2>1, ConfirmedRecorded, FinishedStep, Others DEF WipeLocal
<1> QED BY <1>1, <1>2, <1>3

LEMMA ReceiveStep ==
  ASSUME QueueInv, NEW c \in Cycle, Receive(c)
  PROVE  QueueInv'
<1> DEFINE p == Oldest(cycle[c].rows)
           confirmed == cycle[c].confirmed \union {p}
           rest == cycle[c].rows \ {p}
<1>1. /\ cycle[c].phase = "waiting" /\ cycle[c].answer \in Good
      /\ cycle[c].rows \in SUBSET Play /\ p \in cycle[c].rows
  BY AtRow DEF Receive, Good
<1>2. events[p] # "none"
  BY <1>1, CycleShape DEF RecordOK, CycleOK
<1>3. confirmed \in SUBSET Play /\ confirmed # {} /\ \A q \in confirmed : events[q] # "none"
  BY <1>1, <1>2, ConfirmedRecorded
<1>4. rest \in SUBSET Play /\ \A q \in rest : created[q] # 0
  BY <1>1, CycleShape DEF RecordOK, CycleOK
<1>5. UNCHANGED <<auth, online, play, queue, created, unlinked, wire, server>>
  BY DEF Receive
<1>6. MaxAttempts \in Nat \ {0}
  BY ConstantsAssumption
<1>7. CASE cycle[c].answer = "wipe"
  <2>1. /\ cycle' = [cycle EXCEPT ![c].phase = "wiping", ![c].answer = "none",
                                  ![c].confirmed = confirmed]
        /\ UNCHANGED syncing
    BY <1>7 DEF Receive
  <2>2. WipeOrdered
    BY <1>7, CycleShape DEF RecordOK, CycleOK
  <2> HIDE DEF confirmed
  <2>3. /\ cycle' \in [Cycle -> CycleRecord]
        /\ cycle'[c].phase = "wiping" /\ cycle'[c].answer = "none"
        /\ cycle'[c].confirmed = confirmed /\ cycle'[c].rows = cycle[c].rows
        /\ cycle'[c].user = cycle[c].user /\ cycle'[c].device = cycle[c].device
    <3>1. cycle' = [cycle EXCEPT ![c] = [cycle[c] EXCEPT !.phase = "wiping", !.answer = "none",
                                                         !.confirmed = confirmed]]
      BY <2>1, CycleShape
    <3>2. [cycle[c] EXCEPT !.phase = "wiping", !.answer = "none", !.confirmed = confirmed]
            \in CycleRecord
      BY <1>3, CycleShape DEF CycleRecord
    <3> QED BY <3>1, <3>2, CycleShape DEF CycleRecord
  <2>4. RecordOK(cycle'[c])
    BY <1>1, <1>3, <2>2, <2>3, CycleShape DEF RecordOK, CycleOK, Sending, Good
  <2> QED BY <1>1, <1>5, <2>1, <2>3, <2>4, CycleStep, Others DEF Good
<1>8. CASE cycle[c].answer # "wipe" /\ rest # {}
  <2>1. /\ cycle' = [cycle EXCEPT ![c].phase = "ready", ![c].answer = "none",
                                  ![c].confirmed = confirmed, ![c].rows = rest, ![c].try = 0]
        /\ UNCHANGED syncing
    BY <1>8 DEF Receive
  <2> HIDE DEF confirmed, rest
  <2>2. /\ cycle' \in [Cycle -> CycleRecord]
        /\ cycle'[c].phase = "ready" /\ cycle'[c].answer = "none" /\ cycle'[c].try = 0
        /\ cycle'[c].confirmed = confirmed /\ cycle'[c].rows = rest
        /\ cycle'[c].user = cycle[c].user /\ cycle'[c].device = cycle[c].device
    <3> DEFINE r == [cycle[c] EXCEPT !.phase = "ready", !.answer = "none",
                                     !.confirmed = confirmed, !.rows = rest, !.try = 0]
    <3>1. cycle' = [cycle EXCEPT ![c] = r]
      BY <2>1, CycleShape
    <3>2. /\ r \in CycleRecord
          /\ r.phase = "ready" /\ r.answer = "none" /\ r.try = 0
          /\ r.confirmed = confirmed /\ r.rows = rest
          /\ r.user = cycle[c].user /\ r.device = cycle[c].device
      <4>1. cycle[c] \in CycleRecord /\ 0 \in 0..MaxAttempts
        BY <1>6, CycleShape
      <4>2. confirmed \in SUBSET Play /\ rest \in SUBSET Play
        BY <1>3, <1>4
      <4> QED BY <4>1, <4>2 DEF CycleRecord
    <3>3. cycle' \in [Cycle -> CycleRecord] /\ cycle'[c] = r
      BY <3>1, <3>2, CycleShape
    <3> QED BY <3>2, <3>3
  <2>3. RecordOK(cycle'[c])
    BY <1>1, <1>3, <1>4, <1>6, <1>8, <2>2, CycleShape DEF RecordOK, CycleOK, Sending, Good
  <2> QED BY <1>1, <1>5, <2>1, <2>2, <2>3, CycleStep, Others DEF Good
<1>9. CASE cycle[c].answer # "wipe" /\ rest = {}
  <2>1. Finished(c, confirmed)
    BY <1>9 DEF Receive
  <2> HIDE DEF confirmed
  <2> QED BY <1>1, <1>3, <1>5, <2>1, FinishedStep, Others DEF Good
<1> QED BY <1>7, <1>8, <1>9

(***************************************************************************)
(* A cycle: requests.                                                      *)
(***************************************************************************)

\* The step of a cycle that sends a request for its row.
LEMMA SendStep ==
  ASSUME QueueInv, NEW c \in Cycle, cycle[c].phase \in {"ready", "waiting"},
         cycle[c].phase # "waiting" \/ cycle[c].answer # "none",
         wire' = wire \union {RequestOf(c)},
         cycle' \in [Cycle -> CycleRecord], \A d \in Cycle \ {c} : cycle'[d] = cycle[d],
         cycle'[c].phase = "waiting", cycle'[c].answer = "none",
         cycle'[c].rows = cycle[c].rows, RecordOK(cycle'[c]), auth' \in AuthRecord,
         UNCHANGED <<online, syncing, play, queue, created, unlinked, server>>
  PROVE  QueueInv'
<1>1. Types /\ Records /\ SentOldest /\ RowsQueued /\ RowKept /\ SyncingHeld
  BY Parts DEF InParts
<1>2. RequestOf(c) \in Request
  <2>1. Oldest(cycle[c].rows) \in Play
    BY AtRow
  <2>2. cycle[c].user \in Player /\ cycle[c].device \in Device
    BY CycleShape DEF RecordOK, CycleOK, Sending
  <2>3. auth.user \in Player \union {Nobody}
    BY Others DEF AuthRecord
  <2> QED BY <2>1, <2>2, <2>3 DEF RequestOf, Request
<1>3. Types' /\ Grows
  BY <1>1, <1>2 DEF Types, Grows, server, WipeOrdered
<1>4. RecordOK(cycle[c])'
  BY DEF RecordOK, CycleOK, Oldest, WipeOrdered, server
<1>5. Records' /\ SentOldest'
  BY <1>1, <1>3, <1>4, RecordsKept, SentNew
<1>6. RowsQueued' /\ RowKept' /\ SyncingHeld'
  BY <1>1 DEF RowsQueued, RowKept, SyncingHeld, WipeOrdered, server
<1>7. (Types /\ Records /\ SentOldest /\ RowsQueued /\ RowKept /\ SyncingHeld)'
  BY <1>3, <1>5, <1>6
<1> QED BY <1>7, Parts DEF InParts

LEMMA PostStep ==
  ASSUME QueueInv, NEW c \in Cycle, Post(c)
  PROVE  QueueInv'
<1>1. cycle[c].phase = "ready" /\ cycle[c].try # MaxAttempts /\ cycle[c].try \in 0..MaxAttempts
  BY CycleShape DEF Post, RecordOK, CycleOK, CycleRecord
<1>2. cycle[c].try + 1 \in 0..MaxAttempts
  BY <1>1, ConstantsAssumption
<1>3. /\ cycle' \in [Cycle -> CycleRecord]
      /\ cycle'[c].phase = "waiting" /\ cycle'[c].answer = "none"
      /\ cycle'[c].rows = cycle[c].rows /\ cycle'[c].confirmed = cycle[c].confirmed
      /\ cycle'[c].user = cycle[c].user /\ cycle'[c].device = cycle[c].device
  BY <1>2, CycleShape DEF Post, CycleRecord
<1>4. RecordOK(cycle'[c])
  BY <1>1, <1>3, CycleShape DEF RecordOK, CycleOK, Sending, Good
<1> QED BY <1>1, <1>3, <1>4, SendStep, Others DEF Post

LEMMA RefreshStep ==
  ASSUME QueueInv, NEW c \in Cycle, RefreshAndResend(c)
  PROVE  QueueInv'
<1>1. cycle[c].phase = "waiting" /\ cycle[c].answer = "unauthorized"
  BY DEF RefreshAndResend
<1>2. /\ cycle' \in [Cycle -> CycleRecord]
      /\ cycle'[c].phase = "waiting" /\ cycle'[c].answer = "none"
      /\ cycle'[c].rows = cycle[c].rows /\ cycle'[c].confirmed = cycle[c].confirmed
      /\ cycle'[c].user = cycle[c].user /\ cycle'[c].device = cycle[c].device
      /\ cycle'[c].try = cycle[c].try
  BY <1>1, CycleShape DEF RefreshAndResend, CycleRecord
<1>3. RecordOK(cycle'[c])
  BY <1>1, <1>2, CycleShape DEF RecordOK, CycleOK, Sending, Good
<1> QED BY <1>1, <1>2, <1>3, SendStep, AuthShape DEF RefreshAndResend

LEMMA AbandonedRequests ==
  ASSUME QueueInv, NEW cycles \in SUBSET Cycle
  PROVE  /\ Abandoned(cycles) \subseteq Request
         /\ \A m \in Abandoned(cycles) : m.from # Nobody => m \in wire /\ m.from \notin cycles
<1> SUFFICES ASSUME NEW n \in wire
             PROVE  LET m == [n EXCEPT !.from = IF n.from \in cycles THEN Nobody ELSE n.from] IN
                    m \in Request /\ (m.from # Nobody => m \in wire /\ m.from \notin cycles)
  BY DEF Abandoned
<1>1. n \in Request
  BY DEF QueueInv, TypeOK
<1>2. CASE n.from \in cycles
  BY <1>1, <1>2 DEF Request
<1>3. CASE n.from \notin cycles
  <2>1. [n EXCEPT !.from = n.from] = n
    BY <1>1 DEF Request
  <2> QED BY <1>1, <1>3, <2>1
<1> QED BY <1>2, <1>3

\* The step of a cycle that gives up its request.
LEMMA GiveUpStep ==
  ASSUME QueueInv, NEW c \in Cycle, wire' = Abandoned({c}),
         cycle' \in [Cycle -> CycleRecord], \A d \in Cycle \ {c} : cycle'[d] = cycle[d],
         RecordOK(cycle'[c]), syncing' \in BOOLEAN,
         syncing' => cycle'[c].phase \in {"ready", "waiting", "wiping"},
         UNCHANGED <<auth, online, play, queue, created, unlinked, server>>
  PROVE  QueueInv'
<1>1. Types /\ Records /\ SentOldest /\ RowsQueued /\ RowKept /\ SyncingHeld
  BY Parts DEF InParts
<1>2. Types' /\ Grows
  BY <1>1, AbandonedRequests DEF Types, Grows, server, WipeOrdered
<1>3. RecordOK(cycle[c])'
  BY DEF RecordOK, CycleOK, Oldest, WipeOrdered, server
<1>4. Records'
  BY <1>1, <1>2, <1>3, RecordsKept
<1>5. SentOldest'
  <2>1. \A m \in wire' : m.from # Nobody => m \in wire /\ cycle'[m.from] = cycle[m.from]
    BY <1>1, AbandonedRequests DEF Types, Request
  <2> QED BY <1>1, <1>2, <2>1, SentKept
<1>6. RowsQueued' /\ RowKept' /\ SyncingHeld'
  BY <1>1 DEF RowsQueued, RowKept, SyncingHeld, WipeOrdered, server
<1>7. (Types /\ Records /\ SentOldest /\ RowsQueued /\ RowKept /\ SyncingHeld)'
  BY <1>2, <1>4, <1>5, <1>6
<1> QED BY <1>7, Parts DEF InParts

LEMMA FailsStep ==
  ASSUME QueueInv, NEW c \in Cycle, Fails(c)
  PROVE  QueueInv'
<1>1. CASE cycle[c].try < MaxAttempts
  <2>1. /\ cycle' = [cycle EXCEPT ![c].phase = "ready", ![c].answer = "none"]
        /\ cycle[c].phase = "waiting" /\ UNCHANGED syncing
    BY <1>1 DEF Fails
  <2>2. /\ cycle' \in [Cycle -> CycleRecord]
        /\ cycle'[c].phase = "ready" /\ cycle'[c].answer = "none"
        /\ cycle'[c].rows = cycle[c].rows /\ cycle'[c].confirmed = cycle[c].confirmed
        /\ cycle'[c].user = cycle[c].user /\ cycle'[c].device = cycle[c].device
        /\ cycle'[c].try = cycle[c].try
    BY <2>1, CycleShape DEF CycleRecord
  <2>3. cycle[c].try # MaxAttempts
    BY <1>1, CycleShape, ConstantsAssumption DEF CycleRecord
  <2>4. RecordOK(cycle'[c])
    BY <2>1, <2>2, <2>3, CycleShape DEF RecordOK, CycleOK, Sending, Good
  <2> QED BY <2>1, <2>2, <2>4, GiveUpStep, Others DEF Fails
<1>2. CASE ~(cycle[c].try < MaxAttempts)
  <2>1. Finished(c, cycle[c].confirmed)
    BY <1>2 DEF Fails
  <2> QED BY <2>1, ConfirmedRecorded, FinishedRecord, GiveUpStep DEF Fails
<1> QED BY <1>1, <1>2

(***************************************************************************)
(* Rows come and go, the app restarts.                                     *)
(***************************************************************************)

LEMMA RecordsSame ==
  ASSUME Types, Records, Grows, cycle' = cycle
  PROVE  Records'
<1>1. ASSUME NEW d \in Cycle PROVE RecordOK(cycle[d])'
  <2>1. RecordOK(cycle[d]) /\ cycle'[d] = cycle[d]
    BY DEF Records
  <2> QED BY <2>1, RecordKept DEF RecordOK, CycleOK
<1> QED BY <1>1 DEF Records

LEMMA DeleteRowStep ==
  ASSUME QueueInv, NEW c \in Cycle, DeleteRow(c)
  PROVE  QueueInv'
<1> DEFINE p == Oldest(cycle[c].confirmed)
           rest == cycle[c].confirmed \ {p}
<1>1. Types /\ Records /\ SentOldest /\ RowsQueued /\ RowKept /\ SyncingHeld
  BY Parts DEF InParts
<1>2. cycle[c].phase = "deleting" /\ cycle[c].confirmed \in SUBSET Play /\ cycle[c].confirmed # {}
  BY ConfirmedRecorded, CycleShape DEF DeleteRow, RecordOK
<1>3. p \in cycle[c].confirmed /\ events[p] # "none"
  BY <1>1, <1>2, OldestIn, ConfirmedRecorded DEF Types
<1> HIDE DEF p
<1>4. rest \in SUBSET Play /\ \A q \in rest : events[q] # "none"
  BY <1>2, ConfirmedRecorded
<1>5. /\ queue' = queue \ {p}
      /\ cycle' = [cycle EXCEPT ![c] = IF rest = {} THEN Idle
                                       ELSE [cycle[c] EXCEPT !.confirmed = rest]]
      /\ UNCHANGED <<auth, online, syncing, play, created, unlinked, wire, server>>
  BY CycleShape DEF DeleteRow, p
<1> HIDE DEF rest
<1>6. Types' /\ Grows
  BY <1>1, <1>5 DEF Types, Grows, server, WipeOrdered
<1>7. /\ cycle' \in [Cycle -> CycleRecord]
      /\ \A d \in Cycle \ {c} : cycle'[d] = cycle[d]
      /\ RecordOK(cycle'[c])
      /\ cycle'[c].phase \in {"idle", "deleting"}
  <2> DEFINE r == [cycle[c] EXCEPT !.confirmed = rest]
  <2>1. /\ r \in CycleRecord /\ r.confirmed = rest
        /\ r.phase = "deleting" /\ r.rows = cycle[c].rows /\ r.answer = cycle[c].answer
        /\ r.try = cycle[c].try
    BY <1>2, <1>4, CycleShape DEF CycleRecord
  <2>2. rest # {} => RecordOK(r)
    BY <1>2, <1>4, <2>1, CycleShape DEF RecordOK, CycleOK, Sending, Good
  <2>3. Idle.phase = "idle"
    BY DEF Idle
  <2> HIDE DEF r
  <2>4. cycle' = [cycle EXCEPT ![c] = IF rest = {} THEN Idle ELSE r]
    BY <1>5 DEF r
  <2> QED BY <2>1, <2>2, <2>3, <2>4, IdleOK, CycleShape
<1>8. RecordOK(cycle[c])'
  BY <1>5, <1>7 DEF RecordOK, CycleOK, Oldest, WipeOrdered, server
<1>9. Records'
  BY <1>1, <1>6, <1>7, <1>8, RecordsKept
<1>10. SentOldest'
  <2>1. \A m \in wire' : m.from # Nobody => m \in wire /\ cycle'[m.from] = cycle[m.from]
    BY <1>1, <1>2, <1>5, <1>7, NoRequest DEF Types, Request
  <2> QED BY <1>1, <1>6, <2>1, SentKept
<1>11. RowsQueued' /\ RowKept'
  BY <1>1, <1>3, <1>5 DEF RowsQueued, RowKept, WipeOrdered, server
<1>12. SyncingHeld'
  BY <1>1, <1>2, <1>5, <1>7 DEF SyncingHeld
<1>13. (Types /\ Records /\ SentOldest /\ RowsQueued /\ RowKept /\ SyncingHeld)'
  BY <1>6, <1>9, <1>10, <1>11, <1>12
<1> QED BY <1>13, Parts DEF InParts

LEMMA EnqueueStep ==
  ASSUME QueueInv, NEW p \in Play, Enqueue(p)
  PROVE  QueueInv'
<1> DEFINE time == 1 + Cardinality({q \in Play : created[q] # 0})
<1>1. Types /\ Records /\ SentOldest /\ RowsQueued /\ RowKept /\ SyncingHeld
  BY Parts DEF InParts
<1>2. time \in Nat /\ time # 0
  <2>1. IsFiniteSet({q \in Play : created[q] # 0})
    BY ConstantsAssumption, FS_Subset
  <2> QED BY <2>1, FS_CardinalityType
<1> HIDE DEF time
<1>3. /\ play[p].state = "queueing" /\ created[p] = 0
      /\ play' = [play EXCEPT ![p].state = "queued"]
      /\ queue' = queue \union {p}
      /\ created' = [created EXCEPT ![p] = time]
      /\ UNCHANGED <<auth, online, syncing, cycle, unlinked, wire, server>>
  BY <1>1 DEF Enqueue, RowsQueued, time
<1>4. /\ play' \in [Play -> PlayRecord]
      /\ play'[p].state = "queued"
      /\ play'[p].request = play[p].request /\ play'[p].token = play[p].token
      /\ \A q \in Play \ {p} : play'[q] = play[q]
  BY <1>1, <1>3 DEF Types, PlayRecord
<1>5. created' \in [Play -> Nat] /\ created'[p] # 0 /\ \A q \in Play \ {p} : created'[q] = created[q]
  BY <1>1, <1>2, <1>3 DEF Types
<1>6. Types' /\ Grows
  BY <1>1, <1>3, <1>4, <1>5 DEF Types, Grows, server, WipeOrdered
<1>7. Records' /\ SentOldest'
  BY <1>1, <1>3, <1>6, RecordsSame, SentKept
<1>8. RowsQueued' /\ RowKept' /\ SyncingHeld'
  BY <1>1, <1>3, <1>4, <1>5 DEF Types, RowsQueued, RowKept, SyncingHeld, WipeOrdered, server
<1>9. (Types /\ Records /\ SentOldest /\ RowsQueued /\ RowKept /\ SyncingHeld)'
  BY <1>6, <1>7, <1>8
<1> QED BY <1>9, Parts DEF InParts

LEMMA RestartStep ==
  ASSUME QueueInv, Restart
  PROVE  QueueInv'
<1>1. Types /\ Records /\ SentOldest /\ RowsQueued /\ RowKept /\ SyncingHeld
  BY Parts DEF InParts
<1>2. auth' \in AuthRecord
  BY <1>1 DEF Types, Restart, AuthRecord
<1>3. /\ play' \in [Play -> PlayRecord]
      /\ \A p \in Play : /\ play'[p].state = "queued" <=> play[p].state = "queued"
                         /\ play'[p].request = "sent" => play[p].request = "sent"
                         /\ play'[p].token = play[p].token
  <2> SUFFICES ASSUME NEW p \in Play
               PROVE  /\ play'[p] \in PlayRecord
                      /\ play'[p].state = "queued" <=> play[p].state = "queued"
                      /\ play'[p].request = "sent" => play[p].request = "sent"
                      /\ play'[p].token = play[p].token
    BY DEF Restart
  <2> DEFINE request == IF play[p].request = "sent" THEN "sent" ELSE "none"
  <2>1. play[p] \in PlayRecord
    BY <1>1 DEF Types
  <2>2. request \in {"none", "sent"}
    OBVIOUS
  <2>3. play'[p] = IF play[p].state \in {"saving", "queueing"}
                   THEN [play[p] EXCEPT !.state = "lost", !.request = request]
                   ELSE play[p]
    BY <2>1 DEF Restart, PlayRecord
  <2>4. request = "sent" => play[p].request = "sent"
    OBVIOUS
  <2> HIDE DEF request
  <2> QED BY <2>1, <2>2, <2>3, <2>4 DEF PlayRecord
<1>4. /\ wire' = Abandoned(Cycle) /\ cycle' = [c \in Cycle |-> Idle]
      /\ online' = TRUE /\ syncing' = FALSE /\ unlinked' = FALSE
      /\ queue' = IF unlinked THEN {} ELSE queue
      /\ UNCHANGED <<created, server>>
  BY DEF Restart
<1>5. wire' \subseteq Request /\ \A m \in wire' : m.from # Nobody => FALSE
  <2>1. /\ wire' \subseteq Request
        /\ \A m \in wire' : m.from # Nobody => m.from \notin Cycle
    BY <1>4, AbandonedRequests
  <2> QED BY <2>1 DEF Request
<1>6. Types' /\ Grows
  BY <1>1, <1>2, <1>3, <1>4, <1>5 DEF Types, Grows, server, WipeOrdered
<1>7. Records'
  <2>1. RecordOK(Idle)'
    BY <1>1, <1>6, IdleOK, RecordKept DEF RecordOK, CycleOK
  <2> QED BY <1>4, <2>1, IdleOK DEF Records, RecordOK, CycleOK
<1>8. SentOldest' /\ SyncingHeld'
  BY <1>4, <1>5 DEF SentOldest, SyncingHeld
<1>9. RowsQueued' /\ RowKept'
  BY <1>1, <1>3, <1>4 DEF RowsQueued, RowKept, WipeOrdered, server
<1>10. (Types /\ Records /\ SentOldest /\ RowsQueued /\ RowKept /\ SyncingHeld)'
  BY <1>6, <1>7, <1>8, <1>9
<1> QED BY <1>10, Parts DEF InParts

(***************************************************************************)
(* The server.                                                             *)
(***************************************************************************)

\* A request is answered; its answer is good only if its event is recorded.
LEMMA AnswerStep ==
  ASSUME QueueInv, NEW m \in wire, NEW answer \in Good \union {"none", "unauthorized"},
         Answers(m, answer),
         answer \in Good => events'[m.play] # "none",
         answer = "wipe" => WipeOrdered,
         events' \in [Play -> {"none", "accepted", "rejected"}],
         \A p \in Play : events[p] # "none" => events'[p] # "none",
         credits' \in [Play -> Seq([user : Player, via : {"online", "sync"}])]
  PROVE  QueueInv'
<1>1. Types /\ Records /\ SentOldest /\ RowsQueued /\ RowKept /\ SyncingHeld
  BY Parts DEF InParts
<1>2. /\ wire' = wire \ {m}
      /\ UNCHANGED <<auth, online, syncing, play, queue, created, unlinked, owner, wipe>>
  BY DEF Answers
<1>3. Types' /\ Grows
  BY <1>1, <1>2 DEF Types, Grows, WipeOrdered
<1>4. RowsQueued' /\ RowKept'
  BY <1>1, <1>2, <1>3 DEF RowsQueued, RowKept, WipeOrdered, Grows
<1>5. CASE m.from = Nobody
  <2>1. cycle' = cycle
    BY <1>5 DEF Answers
  <2>2. Records' /\ SentOldest' /\ SyncingHeld'
    BY <1>1, <1>2, <1>3, <2>1, RecordsSame, SentKept DEF SyncingHeld
  <2>3. (Types /\ Records /\ SentOldest /\ RowsQueued /\ RowKept /\ SyncingHeld)'
    BY <1>3, <1>4, <2>2
  <2> QED BY <2>3, Parts DEF InParts
<1>6. CASE m.from # Nobody
  <2> DEFINE c == m.from
  <2>1. /\ c \in Cycle /\ cycle[c].phase = "waiting" /\ cycle[c].answer = "none"
        /\ m.play = Oldest(cycle[c].rows) /\ \A n \in wire : n.from = c => n = m
    BY <1>1, <1>6 DEF Types, Request, SentOldest
  <2>2. cycle' = [cycle EXCEPT ![c].answer = answer]
    BY <1>6 DEF Answers
  <2> HIDE DEF c
  <2>3. /\ cycle' \in [Cycle -> CycleRecord]
        /\ \A d \in Cycle \ {c} : cycle'[d] = cycle[d]
        /\ cycle'[c].answer = answer /\ cycle'[c].phase = "waiting"
        /\ cycle'[c].rows = cycle[c].rows /\ cycle'[c].confirmed = cycle[c].confirmed
        /\ cycle'[c].user = cycle[c].user /\ cycle'[c].device = cycle[c].device
        /\ cycle'[c].try = cycle[c].try
    BY <2>1, <2>2, CycleShape DEF CycleRecord, Good
  <2>4. RecordOK(cycle[c])'
    <3>1. RecordOK(cycle[c])' <=>
            /\ cycle'[c].rows # {}
            /\ cycle'[c].user \in Player /\ cycle'[c].device \in Device
            /\ \A p \in cycle'[c].rows : created'[p] # 0
            /\ cycle'[c].answer \in Good => events'[Oldest(cycle[c].rows)'] # "none"
            /\ \A p \in cycle'[c].confirmed : events'[p] # "none"
            /\ cycle'[c].answer = "wipe" => WipeOrdered'
      BY <2>1, <2>3 DEF RecordOK, CycleOK, Sending
    <3>2. Oldest(cycle[c].rows)' = m.play
      BY <1>2, <2>1, <2>3 DEF Oldest
    <3>3. WipeOrdered' <=> WipeOrdered
      BY <1>2 DEF WipeOrdered
    <3>4. cycle[c].confirmed \subseteq Play
      BY <2>1, CycleShape DEF CycleRecord
    <3>5. RecordOK(cycle[c])
      BY <2>1, CycleShape
    <3>6. /\ cycle[c].rows # {}
          /\ cycle[c].user \in Player /\ cycle[c].device \in Device
          /\ \A p \in cycle[c].rows : created[p] # 0
          /\ \A p \in cycle[c].confirmed : events[p] # "none"
      BY <2>1, <3>5 DEF RecordOK, CycleOK, Sending
    <3> QED BY <1>2, <2>3, <3>1, <3>2, <3>3, <3>4, <3>6
  <2>5. Records'
    BY <1>1, <1>3, <2>1, <2>3, <2>4, RecordsKept
  <2>6. SentOldest'
    <3>1. \A n \in wire' : n.from # Nobody => n \in wire /\ cycle'[n.from] = cycle[n.from]
      BY <1>1, <1>2, <2>1, <2>3 DEF Types, Request
    <3> QED BY <1>1, <1>3, <3>1, SentKept
  <2>7. SyncingHeld'
    BY <1>1, <1>2, <2>1, <2>3 DEF SyncingHeld
  <2>8. (Types /\ Records /\ SentOldest /\ RowsQueued /\ RowKept /\ SyncingHeld)'
    BY <1>3, <1>4, <2>5, <2>6, <2>7
  <2> QED BY <2>8, Parts DEF InParts
<1> QED BY <1>5, <1>6

LEMMA ServerShape ==
  ASSUME QueueInv, NEW m \in wire
  PROVE  /\ m.play \in Play /\ m.user \in Player /\ m.device \in Device
         /\ events \in [Play -> {"none", "accepted", "rejected"}]
         /\ credits \in [Play -> Seq([user : Player, via : {"online", "sync"}])]
BY DEF QueueInv, TypeOK, Request

LEMMA ServerActions ==
  ASSUME QueueInv, NEW m \in wire, Serve(m) \/ Unauthorized(m) \/ Refuse(m)
  PROVE  QueueInv'
<1> USE ServerShape
<1>1. CASE Credit(m)
  <2>1. /\ events' = [events EXCEPT ![m.play] = "accepted"]
        /\ credits' = [credits EXCEPT
             ![m.play] = Append(credits[m.play], [user |-> m.user, via |-> "sync"])]
        /\ Answers(m, IF wipe[m.device] THEN "wipe" ELSE "synced")
    BY <1>1 DEF Credit
  <2>2. Append(credits[m.play], [user |-> m.user, via |-> "sync"])
          \in Seq([user : Player, via : {"online", "sync"}])
    <3>1. [user |-> m.user, via |-> "sync"] \in [user : Player, via : {"online", "sync"}]
      OBVIOUS
    <3>2. credits[m.play] \in Seq([user : Player, via : {"online", "sync"}])
      OBVIOUS
    <3> QED BY <3>1, <3>2
  <2>3. credits' \in [Play -> Seq([user : Player, via : {"online", "sync"}])]
    BY <2>1, <2>2
  <2>4. /\ events' \in [Play -> {"none", "accepted", "rejected"}]
        /\ events'[m.play] = "accepted"
        /\ \A p \in Play : events[p] # "none" => events'[p] # "none"
    BY <2>1
  <2>5. wipe[m.device] => WipeOrdered
    BY DEF WipeOrdered
  <2>6. CASE wipe[m.device]
    BY <2>1, <2>3, <2>4, <2>5, <2>6, AnswerStep DEF Good
  <2>7. CASE ~wipe[m.device]
    BY <2>1, <2>3, <2>4, <2>7, AnswerStep DEF Good
  <2> QED BY <2>6, <2>7
<1>2. CASE Reject(m)
  <2>1. /\ events' = [events EXCEPT ![m.play] = "rejected"] /\ credits' = credits
        /\ Answers(m, IF Verdict[m.play] = "badSignature" THEN "unauthorized" ELSE "none")
    BY <1>2 DEF Reject
  <2>2. /\ events' \in [Play -> {"none", "accepted", "rejected"}]
        /\ \A p \in Play : events[p] # "none" => events'[p] # "none"
    BY <2>1
  <2>3. CASE Verdict[m.play] = "badSignature"
    BY <2>1, <2>2, <2>3, AnswerStep DEF Good
  <2>4. CASE Verdict[m.play] # "badSignature"
    BY <2>1, <2>2, <2>4, AnswerStep DEF Good
  <2> QED BY <2>3, <2>4
<1>3. CASE AlreadyProcessed(m)
  BY <1>3, AnswerStep DEF AlreadyProcessed, Good
<1>4. CASE Unauthorized(m)
  BY <1>4, AnswerStep DEF Unauthorized, Good
<1>5. CASE Refuse(m)
  BY <1>5, AnswerStep DEF Refuse, Good
<1> QED BY <1>1, <1>2, <1>3, <1>4, <1>5 DEF Serve

LEMMA ArcoCancelStep ==
  ASSUME QueueInv, NEW u \in Player, ArcoCancel(u)
  PROVE  QueueInv'
<1>1. Types /\ Records /\ SentOldest /\ RowsQueued /\ RowKept /\ SyncingHeld
  BY Parts DEF InParts
<1>2. /\ wipe' = [d \in Device |-> wipe[d] \/ owner[d] = u]
      /\ UNCHANGED <<auth, online, syncing, cycle, play, queue, created, unlinked, wire,
                     events, credits, owner>>
  BY DEF ArcoCancel, client
<1>3. WipeOrdered => WipeOrdered'
  BY <1>2 DEF WipeOrdered
<1>4. wipe' \in [Device -> BOOLEAN]
  BY <1>2
<1>5. Types' /\ Grows
  BY <1>1, <1>2, <1>3, <1>4 DEF Types, Grows
<1>6. Records' /\ SentOldest'
  BY <1>1, <1>2, <1>5, RecordsSame, SentKept
<1>7. RowsQueued' /\ RowKept' /\ SyncingHeld'
  BY <1>1, <1>2, <1>3 DEF RowsQueued, RowKept, SyncingHeld
<1>8. (Types /\ Records /\ SentOldest /\ RowsQueued /\ RowKept /\ SyncingHeld)'
  BY <1>5, <1>6, <1>7
<1> QED BY <1>8, Parts DEF InParts

(***************************************************************************)
(* The theorems.                                                           *)
(***************************************************************************)

LEMMA QueueInit == Init => QueueInv
<1> SUFFICES ASSUME Init PROVE QueueInv
  OBVIOUS
<1>1. Types
  <2>1. auth \in AuthRecord
    BY DEF Init, AuthRecord, NoSession
  <2>2. play \in [Play -> PlayRecord] /\ \A p \in Play : play[p].request = "none"
    BY DEF Init, PlayRecord, NotPlayed
  <2>3. <<>> \in Seq([user : Player, via : {"online", "sync"}])
    OBVIOUS
  <2>4. credits \in [Play -> Seq([user : Player, via : {"online", "sync"}])]
    BY <2>3 DEF Init
  <2> QED BY <2>1, <2>2, <2>4 DEF Init, Types
<1>2. Records
  BY IdleOK DEF Init, Records
<1>3. SentOldest /\ RowsQueued /\ RowKept /\ SyncingHeld
  BY DEF Init, SentOldest, RowsQueued, RowKept, SyncingHeld, NotPlayed
<1> QED BY <1>1, <1>2, <1>3, Parts DEF InParts

LEMMA QueueNext == QueueInv /\ [Next]_vars => QueueInv'
<1> SUFFICES ASSUME QueueInv, [Next]_vars PROVE QueueInv'
  OBVIOUS
<1>1. ASSUME NEW u \in Player, Login(u) \/ ArcoCancel(u) PROVE QueueInv'
  BY <1>1, SessionActions, ArcoCancelStep
<1>2. CASE (\E d \in Device : RegisterDevice(d)) \/ RegistrationFails \/ SignOut \/ NetworkChanges
  BY <1>2, SessionActions
<1>3. CASE Restart
  BY <1>3, RestartStep
<1>4. ASSUME NEW p \in Play,
             \/ FinishLevel(p) \/ ServerCompletes(p) \/ CompletionSaved(p) \/ CompletionFails(p)
             \/ CompletionResent(p) \/ CompletionUnauthorized(p) \/ Enqueue(p)
             \/ EnqueueFails(p)
      PROVE  QueueInv'
  BY <1>4, PlayActions, ServerCompletesStep, EnqueueStep
<1>5. ASSUME NEW c \in Cycle,
             \/ Start(c) \/ Load(c) \/ GameActive(c) \/ StartSending(c) \/ SignFails(c) \/ Post(c)
             \/ Fails(c) \/ RefreshAndResend(c) \/ SessionExpired(c) \/ Receive(c) \/ WipeLocal(c)
             \/ DeleteRow(c) \/ DeleteFails(c)
      PROVE  QueueInv'
  BY <1>5, StartStep, LoadStep, BecomesIdle, StartSendingStep, EndsOfLoop, PostStep, FailsStep,
     RefreshStep, ReceiveStep, DeleteRowStep
<1>6. ASSUME NEW m \in wire, Serve(m) \/ Unauthorized(m) \/ Refuse(m) PROVE QueueInv'
  BY <1>6, ServerActions
<1>7. CASE UNCHANGED vars
  <2>1. Types'
    BY <1>7, Parts DEF InParts, Types, vars, client, server
  <2> QED BY <1>7, <2>1, QuietStep DEF vars, client, server
<1> QED BY <1>1, <1>2, <1>3, <1>4, <1>5, <1>6, <1>7 DEF Next

\* The inductive invariant: a good answer a cycle holds, and a row it has
\* confirmed, tell of a recorded event, for any number of overlapping cycles.
THEOREM QueueInvariant == Spec => []QueueInv
BY QueueInit, QueueNext, PTL DEF Spec

\* Type correctness of the app, the wire and the server.
THEOREM QueueTypes == Spec => []TypeOK
<1>1. QueueInv => TypeOK
  BY DEF QueueInv
<1> QED BY <1>1, QueueInvariant, PTL

\* RF14: a queued row is deleted only after the server has recorded its event.
THEOREM RowsKept == Spec => []RowKept
<1>1. QueueInv => RowKept
  BY DEF QueueInv
<1> QED BY <1>1, QueueInvariant, PTL

\* isSyncing is never left set by a cycle that is gone.
THEOREM FlagReleased == Spec => []SyncingHeld
<1>1. QueueInv => SyncingHeld
  BY DEF QueueInv
<1> QED BY <1>1, QueueInvariant, PTL

(***************************************************************************)
(* Order.                                                                  *)
(***************************************************************************)

\* The rows of a cycle stay, go all together, or go once their event is recorded.
RowsShrink(c) ==
  \/ cycle'[c].rows = cycle[c].rows
  \/ cycle'[c].rows = {}
  \/ /\ cycle'[c].rows \subseteq cycle[c].rows
     /\ \A q \in cycle[c].rows \ cycle'[c].rows : events[q] # "none"

\* A request on the wire was there, or is for the first row the server lacks.
SentBefore(m) ==
  \/ \E n \in wire : n.play = m.play
  \/ created[m.play] # 0 /\ EarlierRecorded(m.play, {m.play})

\* A step that adds no row to a cycle.
LEMMA InOrderStep ==
  ASSUME QueueInv, QueueInv', SentInOrder,
         created' = created,
         \A q \in Play : events[q] # "none" => events'[q] # "none",
         WipeOrdered => WipeOrdered',
         \A q \in Play : events'[q] # "none" => created[q] # 0,
         \A c \in Cycle : RowsShrink(c),
         \A m \in wire' : SentBefore(m)
  PROVE  SentInOrder'
<1>1. ASSUME NEW c \in Cycle, NEW p \in cycle'[c].rows
      PROVE  EarlierRecorded(p, cycle[c].rows)'
  <2>1. cycle[c].rows \subseteq Play
    BY CycleShape DEF CycleRecord
  <2>2. p \in cycle[c].rows /\ \A q \in cycle[c].rows \ cycle'[c].rows : events[q] # "none"
    BY <1>1 DEF RowsShrink
  <2>3. EarlierRecorded(p, cycle[c].rows)
    BY <2>2 DEF SentInOrder
  <2> QED BY <2>1, <2>2, <2>3 DEF EarlierRecorded
<1>2. ASSUME NEW m \in wire'
      PROVE  created'[m.play] # 0 /\ EarlierRecorded(m.play, {m.play})'
  <2>1. created[m.play] # 0 /\ EarlierRecorded(m.play, {m.play})
    BY <1>2 DEF SentBefore, SentInOrder
  <2> QED BY <2>1 DEF EarlierRecorded
<1> QED BY <1>1, <1>2 DEF SentInOrder

\* A step of the session or of cycles: the server and the plays stay.
LEMMA HistoryStep ==
  ASSUME QueueInv, QueueInv', HistoryInv,
         UNCHANGED <<play, created, events, credits, wipe>>,
         \A c \in Cycle : RowsShrink(c),
         \A m \in wire' : SentBefore(m)
  PROVE  HistoryInv'
<1>1. SentInOrder'
  BY InOrderStep DEF HistoryInv, SentInOrder, WipeOrdered
<1> QED BY <1>1 DEF HistoryInv, TimesOrdered, CreditsExplained, OrderKept, CreditedOnce, WipeOrdered

\* The first row of a cycle is the first the server lacks.
LEMMA FirstRow ==
  ASSUME QueueInv, HistoryInv, NEW c \in Cycle, cycle[c].phase \in {"ready", "waiting"}
  PROVE  SentBefore(RequestOf(c))
<1> DEFINE p == Oldest(cycle[c].rows)
           rows == cycle[c].rows
<1>1. RequestOf(c).play = p
  BY DEF RequestOf
<1>2. rows \in SUBSET Play /\ rows # {} /\ created \in [Play -> Nat]
  BY CycleShape DEF RecordOK, CycleRecord, QueueInv, TypeOK
<1>3. p \in rows /\ \A q \in rows : created[p] <= created[q]
  BY <1>2, OldestIn
<1>4. created[p] # 0 /\ EarlierRecorded(p, rows)
  BY <1>3, CycleShape DEF RecordOK, CycleOK, HistoryInv, SentInOrder
<1> HIDE DEF p, rows
<1>5. ASSUME NEW q \in Play \ {p}, created[q] \in 1..created[p]
      PROVE  events[q] # "none" \/ WipeOrdered
  <2>1. CASE q \in rows
    <3>1. created[q] = created[p]
      BY <1>2, <1>3, <1>5, <2>1
    <3> QED BY <1>2, <1>3, <1>4, <1>5, <3>1 DEF HistoryInv, TimesOrdered
  <2>2. CASE q \notin rows
    BY <1>4, <1>5, <2>2 DEF EarlierRecorded
  <2> QED BY <2>1, <2>2
<1> QED BY <1>1, <1>4, <1>5 DEF SentBefore, EarlierRecorded

LEMMA HistorySession ==
  ASSUME QueueInv, QueueInv', HistoryInv,
         \/ \E u \in Player : Login(u)
         \/ \E d \in Device : RegisterDevice(d)
         \/ RegistrationFails
         \/ SignOut
         \/ NetworkChanges
  PROVE  HistoryInv'
<1>1. UNCHANGED <<cycle, wire, play, created, events, credits, wipe>>
  BY DEF Login, RegisterDevice, RegistrationFails, SignOut, NetworkChanges, server
<1> QED BY <1>1, HistoryStep DEF RowsShrink, SentBefore

LEMMA FinishedRows ==
  ASSUME QueueInv, NEW c \in Cycle, NEW confirmed, Finished(c, confirmed)
  PROVE  \A d \in Cycle : RowsShrink(d)
BY CycleShape DEF Finished, Idle, RowsShrink

\* One cycle changes, and its rows are what they were, or none.
LEMMA CycleRows ==
  ASSUME QueueInv, NEW c \in Cycle,
         \/ Start(c) \/ GameActive(c) \/ StartSending(c) \/ SignFails(c) \/ Post(c)
         \/ Fails(c) \/ RefreshAndResend(c) \/ SessionExpired(c) \/ WipeLocal(c)
         \/ DeleteRow(c) \/ DeleteFails(c)
  PROVE  \A d \in Cycle : RowsShrink(d)
<1>1. CASE Start(c)
  BY <1>1, CycleShape DEF Start, RowsShrink, CycleRecord
<1>2. CASE GameActive(c)
  BY <1>2, CycleShape DEF GameActive, RowsShrink, Idle
<1>3. CASE StartSending(c)
  BY <1>3, CycleShape DEF StartSending, RowsShrink, CycleRecord
<1>4. CASE SignFails(c) \/ SessionExpired(c) \/ WipeLocal(c)
  BY <1>4, FinishedRows DEF SignFails, SessionExpired, WipeLocal
<1>5. CASE Post(c)
  BY <1>5, CycleShape DEF Post, RowsShrink, CycleRecord
<1>6. CASE Fails(c)
  <2>1. CASE cycle[c].try < MaxAttempts
    BY <1>6, <2>1, CycleShape DEF Fails, RowsShrink, CycleRecord
  <2>2. CASE ~(cycle[c].try < MaxAttempts)
    BY <1>6, <2>2, FinishedRows DEF Fails
  <2> QED BY <2>1, <2>2
<1>7. CASE RefreshAndResend(c)
  BY <1>7, CycleShape DEF RefreshAndResend, RowsShrink, CycleRecord
<1>8. CASE DeleteRow(c)
  <2>1. cycle' = [cycle EXCEPT ![c] =
          IF cycle[c].confirmed \ {Oldest(cycle[c].confirmed)} = {} THEN Idle
          ELSE [cycle[c] EXCEPT !.confirmed = cycle[c].confirmed \ {Oldest(cycle[c].confirmed)}]]
    BY <1>8, CycleShape DEF DeleteRow
  <2> QED BY <2>1, CycleShape DEF RowsShrink, CycleRecord, Idle
<1>9. CASE DeleteFails(c)
  BY <1>9, CycleShape DEF DeleteFails, RowsShrink, Idle
<1> QED BY <1>1, <1>2, <1>3, <1>4, <1>5, <1>6, <1>7, <1>8, <1>9

LEMMA ReceiveRows ==
  ASSUME QueueInv, NEW c \in Cycle, Receive(c)
  PROVE  \A d \in Cycle : RowsShrink(d)
<1> DEFINE p == Oldest(cycle[c].rows)
           confirmed == cycle[c].confirmed \union {p}
           rest == cycle[c].rows \ {p}
<1>1. events[p] # "none"
  BY CycleShape DEF Receive, RecordOK, CycleOK, Good
<1>2. \/ cycle' = [cycle EXCEPT ![c].phase = "wiping", ![c].answer = "none",
                                ![c].confirmed = confirmed]
      \/ cycle' = [cycle EXCEPT ![c].phase = "ready", ![c].answer = "none",
                                ![c].confirmed = confirmed, ![c].rows = rest, ![c].try = 0]
      \/ Finished(c, confirmed)
  BY DEF Receive
<1>3. \A q \in cycle[c].rows \ rest : events[q] # "none"
  BY <1>1
<1>4. rest \subseteq cycle[c].rows
  OBVIOUS
<1> HIDE DEF confirmed, rest
<1>5. CASE cycle' = [cycle EXCEPT ![c].phase = "wiping", ![c].answer = "none",
                                  ![c].confirmed = confirmed]
  BY <1>5, CycleShape DEF RowsShrink, CycleRecord
<1>6. CASE cycle' = [cycle EXCEPT ![c].phase = "ready", ![c].answer = "none",
                                  ![c].confirmed = confirmed, ![c].rows = rest, ![c].try = 0]
  <2>1. cycle'[c].rows = rest /\ \A d \in Cycle \ {c} : cycle'[d] = cycle[d]
    BY <1>6, CycleShape DEF CycleRecord
  <2> QED BY <1>3, <1>4, <2>1 DEF RowsShrink
<1>7. CASE Finished(c, confirmed)
  BY <1>7, FinishedRows
<1> QED BY <1>2, <1>5, <1>6, <1>7

LEMMA HistoryCycle ==
  ASSUME QueueInv, QueueInv', HistoryInv, NEW c \in Cycle,
         \/ Start(c) \/ GameActive(c) \/ StartSending(c) \/ SignFails(c) \/ Post(c)
         \/ Fails(c) \/ RefreshAndResend(c) \/ SessionExpired(c) \/ Receive(c) \/ WipeLocal(c)
         \/ DeleteRow(c) \/ DeleteFails(c)
  PROVE  HistoryInv'
<1>1. UNCHANGED <<play, created, events, credits, wipe>>
  BY DEF Start, GameActive, StartSending, SignFails, Post, Fails, RefreshAndResend, SessionExpired,
         Receive, WipeLocal, DeleteRow, DeleteFails, server
<1>2. \A d \in Cycle : RowsShrink(d)
  BY CycleRows, ReceiveRows
<1>3. \A m \in wire' : SentBefore(m)
  <2>1. CASE Post(c) \/ RefreshAndResend(c)
    <3>1. SentBefore(RequestOf(c))
      BY <2>1, FirstRow DEF Post, RefreshAndResend
    <3>2. wire' = wire \union {RequestOf(c)}
      BY <2>1 DEF Post, RefreshAndResend
    <3> QED BY <3>1, <3>2 DEF SentBefore
  <2>2. CASE Fails(c)
    <3>1. wire' = Abandoned({c}) /\ wire \subseteq Request
      BY <2>2 DEF Fails, QueueInv, TypeOK
    <3>2. \A m \in wire' : \E n \in wire : n.play = m.play
      BY <3>1 DEF Abandoned, Request
    <3> QED BY <3>2 DEF SentBefore
  <2>3. CASE wire' = wire
    BY <2>3 DEF SentBefore
  <2> QED BY <2>1, <2>2, <2>3 DEF Start, GameActive, StartSending, SignFails, SessionExpired,
                                  Receive, WipeLocal, DeleteRow, DeleteFails
<1> QED BY <1>1, <1>2, <1>3, HistoryStep

\* A batch has the rows before its rows that the server lacks, as a row that is
\* not in the queue any more has its event recorded.
LEMMA BatchInOrder ==
  ASSUME QueueInv, NEW p \in Batch
  PROVE  EarlierRecorded(p, Batch)
<1>1. queue \subseteq Play /\ created \in [Play -> Nat] /\ p \in queue
  BY DEF QueueInv, TypeOK, Batch
<1> SUFFICES ASSUME NEW q \in Play \ Batch, created[q] \in 1..created[p]
             PROVE  events[q] # "none" \/ WipeOrdered
  BY DEF EarlierRecorded
<1>2. CASE q \in queue
  <2> DEFINE before(r) == {x \in queue : created[x] < created[r]}
  <2>1. before(q) \subseteq before(p) /\ before(p) \subseteq Play
    BY <1>1
  <2>2. IsFiniteSet(before(p))
    BY <2>1, ConstantsAssumption, FS_Subset
  <2>3. /\ Cardinality(before(q)) \in Nat /\ Cardinality(before(p)) \in Nat
        /\ Cardinality(before(q)) <= Cardinality(before(p))
    BY <2>1, <2>2, FS_Subset, FS_CardinalityType
  <2>4. Cardinality(before(p)) < BatchLimit /\ BatchLimit \in Nat
    BY ConstantsAssumption DEF Batch
  <2>5. Cardinality(before(q)) < BatchLimit
    BY <2>3, <2>4
  <2> QED BY <1>2, <2>5 DEF Batch
<1>3. CASE q \notin queue
  <2>1. play[q].state = "queued"
    BY <1>1 DEF QueueInv, RowsQueued
  <2> QED BY <1>3, <2>1 DEF QueueInv, RowKept
<1> QED BY <1>2, <1>3

LEMMA HistoryLoad ==
  ASSUME QueueInv, QueueInv', HistoryInv, NEW c \in Cycle, Load(c)
  PROVE  HistoryInv'
<1>1. UNCHANGED <<play, created, events, credits, wipe, wire>>
  BY DEF Load, server
<1>2. cycle' = [cycle EXCEPT ![c] =
        IF queue = {} \/ syncing \/ ~online THEN Idle
        ELSE [cycle[c] EXCEPT !.phase = "checking", !.rows = Batch]]
  BY CycleShape DEF Load
<1>3. CASE queue = {} \/ syncing \/ ~online
  <2>1. \A d \in Cycle : RowsShrink(d)
    BY <1>2, <1>3, CycleShape DEF RowsShrink, Idle
  <2> QED BY <1>1, <2>1, HistoryStep DEF SentBefore
<1>4. CASE ~(queue = {} \/ syncing \/ ~online)
  <2>1. cycle'[c].rows = Batch /\ \A d \in Cycle \ {c} : cycle'[d] = cycle[d]
    BY <1>2, <1>4, CycleShape DEF CycleRecord
  <2>2. \A d \in Cycle : \A p \in cycle'[d].rows : EarlierRecorded(p, cycle'[d].rows)
    BY <2>1, BatchInOrder DEF HistoryInv, SentInOrder
  <2>3. SentInOrder'
    BY <1>1, <2>2 DEF HistoryInv, SentInOrder, EarlierRecorded, WipeOrdered
  <2> QED BY <1>1, <2>3 DEF HistoryInv, TimesOrdered, CreditsExplained, OrderKept, CreditedOnce,
                            WipeOrdered
<1> QED BY <1>3, <1>4

(***************************************************************************)
(* Order and credits: rows, plays and the server.                          *)
(***************************************************************************)

LEMMA HistoryEnqueue ==
  ASSUME QueueInv, QueueInv', HistoryInv, NEW p \in Play, Enqueue(p)
  PROVE  HistoryInv'
<1> DEFINE rows == {q \in Play : created[q] # 0}
           time == 1 + Cardinality(rows)
<1>1. /\ play \in [Play -> PlayRecord] /\ created \in [Play -> Nat]
      /\ play[p].state = "queueing" /\ created[p] = 0
  BY DEF Enqueue, QueueInv, TypeOK, RowsQueued
<1>2. /\ IsFiniteSet(rows) /\ Cardinality(rows) \in Nat /\ p \notin rows
      /\ Cardinality(rows \union {p}) = Cardinality(rows) + 1
  <2>1. IsFiniteSet(rows)
    BY ConstantsAssumption, FS_Subset
  <2>2. p \notin rows
    BY <1>1
  <2> QED BY <2>1, <2>2, FS_CardinalityType, FS_AddElement
<1>3. /\ created' = [created EXCEPT ![p] = time]
      /\ play' = [play EXCEPT ![p].state = "queued"]
      /\ UNCHANGED <<cycle, wire, events, credits, wipe>>
  BY DEF Enqueue, server
<1>4. /\ created'[p] = time /\ time \in Nat /\ time # 0
      /\ \A q \in Play \ {p} : created'[q] = created[q]
  BY <1>1, <1>2, <1>3
<1>5. \A q \in Play : created[q] < time
  BY <1>1, <1>2 DEF HistoryInv, TimesOrdered
<1>6. TimesOrdered'
  <2>1. {q \in Play : created'[q] # 0} = rows \union {p}
    BY <1>1, <1>4
  <2>2. \A q \in Play : created'[q] <= Cardinality(rows \union {p})
    BY <1>1, <1>2, <1>4, <1>5
  <2>3. \A q, r \in Play : created'[q] # 0 /\ created'[q] = created'[r] => q = r
    <3> SUFFICES ASSUME NEW q \in Play, NEW r \in Play, created'[q] # 0, created'[q] = created'[r]
                 PROVE  q = r
      OBVIOUS
    <3> HIDE DEF time
    <3>1. q # p /\ r # p => q = r
      BY <1>4 DEF HistoryInv, TimesOrdered
    <3>2. q = p <=> r = p
      BY <1>1, <1>4, <1>5
    <3> QED BY <3>1, <3>2
  <2> QED BY <2>1, <2>2, <2>3 DEF TimesOrdered
<1> HIDE DEF time, rows
<1>7. ASSUME NEW r \in Play, created[r] # 0, NEW except, EarlierRecorded(r, except)
      PROVE  created'[r] = created[r] /\ EarlierRecorded(r, except)'
  <2>1. r # p /\ created'[r] = created[r]
    BY <1>1, <1>4, <1>7
  <2>2. \A q \in Play : created'[q] \in 1..created[r] => q # p
    BY <1>1, <1>4, <1>5
  <2>3. WipeOrdered' <=> WipeOrdered
    BY <1>3 DEF WipeOrdered
  <2> QED BY <1>3, <1>4, <1>7, <2>1, <2>2, <2>3 DEF EarlierRecorded
<1>8. SentInOrder'
  <2>1. ASSUME NEW c \in Cycle, NEW r \in cycle'[c].rows
        PROVE  EarlierRecorded(r, cycle[c].rows)'
    <3>1. cycle'[c] = cycle[c] /\ r \in Play /\ created[r] # 0
      BY <1>3, CycleShape DEF CycleRecord, RecordOK, CycleOK
    <3>2. EarlierRecorded(r, cycle[c].rows)
      BY <3>1 DEF HistoryInv, SentInOrder
    <3> QED BY <1>7, <3>1, <3>2 DEF EarlierRecorded
  <2>2. ASSUME NEW m \in wire'
        PROVE  created'[m.play] # 0 /\ EarlierRecorded(m.play, {m.play})'
    <3>1. m \in wire /\ m.play \in Play
      BY <1>3 DEF QueueInv, TypeOK, Request
    <3>2. created[m.play] # 0 /\ EarlierRecorded(m.play, {m.play})
      BY <3>1 DEF HistoryInv, SentInOrder
    <3> QED BY <1>7, <3>1, <3>2 DEF EarlierRecorded
  <2>3. \A q \in Play : events'[q] # "none" => created'[q] # 0
    BY <1>3, <1>4 DEF HistoryInv, SentInOrder
  <2> QED BY <2>1, <2>2, <2>3 DEF SentInOrder
<1>9. OrderKept'
  <2> SUFFICES ASSUME NEW q \in Play, NEW r \in Play, created'[q] \in 1..created'[r],
                      events[r] # "none", ~WipeOrdered
               PROVE  events[q] # "none"
    BY <1>3 DEF OrderKept, WipeOrdered
  <2>1. r # p /\ created'[r] = created[r]
    BY <1>1, <1>4 DEF HistoryInv, SentInOrder
  <2>2. q # p
    BY <1>1, <1>4, <1>5, <2>1
  <2> QED BY <1>4, <2>1, <2>2 DEF HistoryInv, OrderKept
<1>10. CreditsExplained' /\ CreditedOnce'
  <2>1. play'[p].state = "queued" /\ \A q \in Play \ {p} : play'[q] = play[q]
    BY <1>1, <1>3 DEF PlayRecord
  <2> QED BY <1>3, <2>1 DEF HistoryInv, CreditsExplained, CreditedOnce
<1> QED BY <1>6, <1>8, <1>9, <1>10 DEF HistoryInv

LEMMA HistoryRestart ==
  ASSUME QueueInv, QueueInv', HistoryInv, Restart
  PROVE  HistoryInv'
<1>1. /\ cycle' = [c \in Cycle |-> Idle] /\ wire' = Abandoned(Cycle)
      /\ UNCHANGED <<created, events, credits, wipe>>
  BY DEF Restart, server
<1>2. \A m \in wire' : SentBefore(m)
  <2>1. wire \subseteq Request
    BY DEF QueueInv, TypeOK
  <2>2. \A m \in wire' : \E n \in wire : n.play = m.play
    BY <1>1, <2>1 DEF Abandoned, Request
  <2> QED BY <2>2 DEF SentBefore
<1>3. \A c \in Cycle : RowsShrink(c)
  BY <1>1 DEF RowsShrink, Idle
<1>4. SentInOrder'
  BY <1>1, <1>2, <1>3, InOrderStep DEF HistoryInv, SentInOrder, WipeOrdered
<1>5. \A p \in Play : play'[p] = play[p] \/ play'[p].state = "lost"
  <2>1. ASSUME NEW p \in Play PROVE play[p] \in PlayRecord
    BY DEF QueueInv, TypeOK
  <2> QED BY <2>1 DEF Restart, PlayRecord
<1>6. CreditsExplained' /\ CreditedOnce'
  BY <1>1, <1>5 DEF HistoryInv, CreditsExplained, CreditedOnce
<1> QED BY <1>1, <1>4, <1>6 DEF HistoryInv, TimesOrdered, OrderKept, WipeOrdered

\* A step of one play, and of its credits.
LEMMA HistoryPlayStep ==
  ASSUME QueueInv, HistoryInv,
         UNCHANGED <<cycle, wire, created, events, wipe>>,
         CreditsExplained', CreditedOnce'
  PROVE  HistoryInv'
BY DEF HistoryInv, TimesOrdered, SentInOrder, EarlierRecorded, OrderKept, WipeOrdered

LEMMA HistoryPlay ==
  ASSUME QueueInv, QueueInv', HistoryInv, NEW p \in Play,
         \/ FinishLevel(p) \/ CompletionSaved(p) \/ CompletionFails(p)
         \/ CompletionResent(p) \/ CompletionUnauthorized(p) \/ EnqueueFails(p)
  PROVE  HistoryInv'
<1>1. UNCHANGED <<cycle, wire, created, events, credits, wipe>>
  BY DEF FinishLevel, CompletionSaved, CompletionFails, CompletionResent, CompletionUnauthorized,
         EnqueueFails, server
<1>2. play \in [Play -> PlayRecord] /\ play[p] \in PlayRecord
  BY DEF QueueInv, TypeOK
<1>3. /\ \A q \in Play \ {p} : play'[q] = play[q]
      /\ \/ play'[p].state \in {"dropped", "queueing", "lost"}
         \/ /\ play[p].state = "unplayed" \/ play[p].request = "unauthorized"
            /\ play[p].state \in {"unplayed", "saving"}
            /\ play'[p].state = "saving" /\ play'[p].request = "sent"
         \/ /\ play[p].state = "saving" /\ play[p].request = "done"
            /\ play'[p].state = "saved" /\ play'[p].request = "none"
  <2>1. CASE FinishLevel(p)
    BY <1>2, <2>1 DEF FinishLevel, PlayRecord
  <2>2. CASE CompletionSaved(p)
    BY <1>2, <2>2 DEF CompletionSaved, PlayRecord
  <2>3. CASE CompletionFails(p)
    BY <2>3, UnsavedRecord DEF CompletionFails
  <2>4. CASE CompletionResent(p)
    BY <1>2, <2>4 DEF CompletionResent, PlayRecord
  <2>5. CASE CompletionUnauthorized(p)
    BY <2>5, UnsavedRecord DEF CompletionUnauthorized
  <2>6. CASE EnqueueFails(p)
    BY <1>2, <2>6 DEF EnqueueFails, PlayRecord
  <2> QED BY <2>1, <2>2, <2>3, <2>4, <2>5, <2>6
<1>4. CreditsExplained'
  BY <1>1, <1>2, <1>3 DEF HistoryInv, CreditsExplained
<1>5. CreditedOnce'
  <2>1. \A q \in Play : play'[q].state = "saved" => Len(credits[q]) = 1
    BY <1>1, <1>4 DEF CreditsExplained
  <2> QED BY <1>1, <2>1 DEF HistoryInv, CreditedOnce
<1> QED BY <1>1, <1>4, <1>5, HistoryPlayStep

\* The credits of a play after one more.
LEMMA OneMore ==
  ASSUME QueueInv, NEW p \in Play, NEW x
  PROVE  /\ Len(Append(credits[p], x)) = Len(credits[p]) + 1
         /\ \A i \in DOMAIN Append(credits[p], x) :
              \/ i \in DOMAIN credits[p] /\ Append(credits[p], x)[i] = credits[p][i]
              \/ i = Len(credits[p]) + 1 /\ Append(credits[p], x)[i] = x
         /\ Len(credits[p]) \in Nat
<1>1. credits[p] \in Seq([user : Player, via : {"online", "sync"}])
  BY DEF QueueInv, TypeOK
<1> QED BY <1>1

LEMMA HistoryCompletes ==
  ASSUME QueueInv, QueueInv', HistoryInv, NEW p \in Play, ServerCompletes(p)
  PROVE  HistoryInv'
<1> DEFINE x == [user |-> play[p].token, via |-> "online"]
<1>1. /\ play \in [Play -> PlayRecord] /\ play[p] \in PlayRecord
      /\ credits \in [Play -> Seq([user : Player, via : {"online", "sync"}])]
      /\ play[p].request = "sent"
  BY DEF QueueInv, TypeOK, ServerCompletes
<1>2. UNCHANGED <<cycle, wire, created, events, wipe>>
  BY DEF ServerCompletes
<1>3. PICK answer \in {"done", "unauthorized", "none"} :
        /\ credits' = IF answer = "done" THEN [credits EXCEPT ![p] = Append(credits[p], x)]
                      ELSE credits
        /\ play' = [play EXCEPT ![p].request = IF play[p].state = "saving" THEN answer ELSE "none"]
  BY DEF ServerCompletes
<1>4. /\ \A q \in Play \ {p} : play'[q] = play[q] /\ credits'[q] = credits[q]
      /\ play'[p].state = play[p].state
      /\ play[p].state = "saving" => play'[p].request = answer
      /\ play[p].state \notin {"unplayed", "saved"}
      /\ credits'[p] = IF answer = "done" THEN Append(credits[p], x) ELSE credits[p]
  BY <1>1, <1>3 DEF PlayRecord, HistoryInv, CreditsExplained
<1>5. x.via = "online"
  OBVIOUS
<1> HIDE DEF x
<1>6. CreditsExplained'
  <2> SUFFICES ASSUME NEW q \in Play
               PROVE  /\ events[q] = "none" =>
                           \A i \in DOMAIN credits'[q] : credits'[q][i].via = "online"
                      /\ play'[q].state \in {"unplayed", "saving", "saved"} =>
                           Len(credits'[q]) = IF play'[q].state = "saved" \/ play'[q].request = "done"
                                              THEN 1 ELSE 0
                      /\ play'[q].state \in {"unplayed", "saved"} => play'[q].request = "none"
    BY <1>2 DEF CreditsExplained
  <2>1. CASE q # p
    BY <1>4, <2>1 DEF HistoryInv, CreditsExplained
  <2>2. CASE q = p /\ answer = "done"
    <3>1. events[p] = "none" => \A i \in DOMAIN credits'[p] : credits'[p][i].via = "online"
      BY <1>4, <1>5, <2>2, OneMore DEF HistoryInv, CreditsExplained
    <3>2. play[p].state = "saving" => Len(credits[p]) = 0
      BY <1>1 DEF HistoryInv, CreditsExplained
    <3>3. play[p].state = "saving" => Len(credits'[p]) = 1
      BY <1>4, <2>2, <3>2, OneMore
    <3> QED BY <1>4, <2>2, <3>1, <3>3
  <2>3. CASE q = p /\ answer # "done"
    BY <1>1, <1>4, <2>3 DEF HistoryInv, CreditsExplained
  <2> QED BY <2>1, <2>2, <2>3
<1>7. CreditedOnce'
  <2> SUFFICES ASSUME NEW q \in Play
               PROVE  /\ \A i, j \in DOMAIN credits'[q] :
                           credits'[q][i].via = "sync" /\ credits'[q][j].via = "sync" => i = j
                      /\ play'[q].state = "saved" => Len(credits'[q]) = 1
    BY DEF CreditedOnce
  <2>1. CASE q # p
    BY <1>4, <2>1 DEF HistoryInv, CreditedOnce
  <2>2. CASE q = p
    <3>1. play'[p].state # "saved"
      BY <1>4
    <3>2. \A i, j \in DOMAIN credits[p] :
            credits[p][i].via = "sync" /\ credits[p][j].via = "sync" => i = j
      BY DEF HistoryInv, CreditedOnce
    <3>3. \A i \in DOMAIN credits'[p] : credits'[p][i].via = "sync" =>
            i \in DOMAIN credits[p] /\ credits'[p][i] = credits[p][i]
      <4>1. CASE answer = "done"
        BY <1>4, <1>5, <4>1, OneMore
      <4>2. CASE answer # "done"
        BY <1>4, <4>2
      <4> QED BY <4>1, <4>2
    <3> QED BY <2>2, <3>1, <3>2, <3>3
  <2> QED BY <2>1, <2>2
<1> QED BY <1>2, <1>6, <1>7, HistoryPlayStep

LEMMA AnswerRows ==
  ASSUME QueueInv, NEW m \in wire, NEW answer, Answers(m, answer)
  PROVE  /\ \A c \in Cycle : RowsShrink(c)
         /\ \A n \in wire' : SentBefore(n)
         /\ UNCHANGED <<play, created, wipe>>
<1>1. \A n \in wire' : SentBefore(n)
  BY DEF Answers, SentBefore
<1>2. \A c \in Cycle : RowsShrink(c)
  <2>1. CASE m.from = Nobody
    BY <2>1 DEF Answers, RowsShrink
  <2>2. CASE m.from # Nobody
    <3> DEFINE d == m.from
    <3>1. d \in Cycle /\ cycle' = [cycle EXCEPT ![d].answer = answer]
      BY <2>2 DEF QueueInv, TypeOK, Request, Answers
    <3> HIDE DEF d
    <3>2. cycle \in [Cycle -> CycleRecord] /\ cycle[d] \in CycleRecord
      BY <3>1, CycleShape
    <3> QED BY <3>1, <3>2 DEF RowsShrink, CycleRecord
  <2> QED BY <2>1, <2>2
<1> QED BY <1>1, <1>2 DEF Answers

\* An event is recorded: all of the earlier rows have theirs.
LEMMA HistoryRecords ==
  ASSUME QueueInv, QueueInv', HistoryInv, NEW m \in wire, NEW answer, Answers(m, answer),
         NEW status \in {"accepted", "rejected"}, events[m.play] = "none",
         events' = [events EXCEPT ![m.play] = status],
         CreditsExplained', CreditedOnce'
  PROVE  HistoryInv'
<1>1. /\ \A c \in Cycle : RowsShrink(c)
      /\ \A n \in wire' : SentBefore(n)
      /\ UNCHANGED <<play, created, wipe>>
  BY AnswerRows
<1>2. created[m.play] # 0 /\ EarlierRecorded(m.play, {m.play})
  BY DEF HistoryInv, SentInOrder
<1>3. /\ events'[m.play] # "none"
      /\ \A q \in Play \ {m.play} : events'[q] = events[q]
  BY ServerShape
<1>4. WipeOrdered' <=> WipeOrdered
  BY <1>1 DEF WipeOrdered
<1>5. SentInOrder'
  BY <1>1, <1>2, <1>3, <1>4, InOrderStep DEF HistoryInv, SentInOrder
<1>6. OrderKept'
  <2> SUFFICES ASSUME NEW p \in Play, NEW q \in Play, created[p] \in 1..created[q],
                      events'[q] # "none", ~WipeOrdered
               PROVE  events'[p] # "none"
    BY <1>1, <1>4 DEF OrderKept
  <2>1. CASE q = m.play
    BY <1>2, <1>3, <2>1 DEF EarlierRecorded
  <2>2. CASE q # m.play
    BY <1>3, <2>2 DEF HistoryInv, OrderKept
  <2> QED BY <2>1, <2>2
<1> QED BY <1>1, <1>5, <1>6 DEF HistoryInv, TimesOrdered

LEMMA HistoryServer ==
  ASSUME QueueInv, QueueInv', HistoryInv, NEW m \in wire, Serve(m) \/ Unauthorized(m) \/ Refuse(m)
  PROVE  HistoryInv'
<1> USE ServerShape
<1>1. CASE Credit(m)
  <2> DEFINE x == [user |-> m.user, via |-> "sync"]
             p == m.play
  <2>1. /\ events[p] = "none" /\ events' = [events EXCEPT ![p] = "accepted"]
        /\ credits' = [credits EXCEPT ![p] = Append(credits[p], x)]
        /\ Answers(m, IF wipe[m.device] THEN "wipe" ELSE "synced")
    BY <1>1 DEF Credit, Fresh
  <2>2. play' = play /\ play[p].state = "queued"
    BY <2>1 DEF Answers, HistoryInv, SentInOrder, QueueInv, RowsQueued
  <2>3. /\ events'[p] # "none" /\ \A q \in Play \ {p} : events'[q] = events[q]
        /\ credits'[p] = Append(credits[p], x)
        /\ \A q \in Play \ {p} : credits'[q] = credits[q]
    BY <2>1
  <2> HIDE DEF x
  <2>4. CreditsExplained'
    BY <2>2, <2>3 DEF HistoryInv, CreditsExplained
  <2>5. CreditedOnce'
    <3> SUFFICES ASSUME NEW q \in Play
                 PROVE  /\ \A i, j \in DOMAIN credits'[q] :
                             credits'[q][i].via = "sync" /\ credits'[q][j].via = "sync" => i = j
                        /\ play'[q].state = "saved" => Len(credits'[q]) = 1
      BY DEF CreditedOnce
    <3>1. CASE q # p
      BY <2>2, <2>3, <3>1 DEF HistoryInv, CreditedOnce
    <3>2. CASE q = p
      <4>1. \A i \in DOMAIN credits[p] : credits[p][i].via = "online"
        BY <2>1 DEF HistoryInv, CreditsExplained
      <4>2. \A i \in DOMAIN credits'[p] :
              \/ credits'[p][i].via = "online"
              \/ i = Len(credits[p]) + 1
        BY <2>3, <4>1, OneMore
      <4> QED BY <2>2, <3>2, <4>2
    <3> QED BY <3>1, <3>2
  <2> QED BY <2>1, <2>4, <2>5, HistoryRecords
<1>2. CASE Reject(m)
  <2>1. /\ events[m.play] = "none" /\ events' = [events EXCEPT ![m.play] = "rejected"]
        /\ credits' = credits /\ play' = play
        /\ Answers(m, IF Verdict[m.play] = "badSignature" THEN "unauthorized" ELSE "none")
    BY <1>2 DEF Reject, Fresh, Answers
  <2>2. \A q \in Play : events'[q] = "none" => events[q] = "none"
    BY <2>1
  <2>3. CreditsExplained' /\ CreditedOnce'
    BY <2>1, <2>2 DEF HistoryInv, CreditsExplained, CreditedOnce
  <2> QED BY <2>1, <2>3, HistoryRecords
<1>3. CASE AlreadyProcessed(m) \/ Unauthorized(m) \/ Refuse(m)
  <2>1. /\ \A c \in Cycle : RowsShrink(c)
        /\ \A n \in wire' : SentBefore(n)
        /\ UNCHANGED <<play, created, wipe>>
    BY <1>3, AnswerRows DEF AlreadyProcessed, Unauthorized, Refuse
  <2> QED BY <1>3, <2>1, HistoryStep DEF AlreadyProcessed, Unauthorized, Refuse
<1> QED BY <1>1, <1>2, <1>3 DEF Serve

LEMMA HistoryCancel ==
  ASSUME QueueInv, QueueInv', HistoryInv, NEW u \in Player, ArcoCancel(u)
  PROVE  HistoryInv'
<1>1. /\ wipe' = [d \in Device |-> wipe[d] \/ owner[d] = u]
      /\ UNCHANGED <<cycle, wire, play, created, events, credits>>
  BY DEF ArcoCancel, client
<1>2. WipeOrdered => WipeOrdered'
  BY <1>1 DEF WipeOrdered
<1>3. SentInOrder'
  BY <1>1, <1>2, InOrderStep DEF HistoryInv, SentInOrder, RowsShrink, SentBefore
<1> QED BY <1>1, <1>2, <1>3 DEF HistoryInv, TimesOrdered, CreditsExplained, OrderKept, CreditedOnce

LEMMA HistoryInit == Init => HistoryInv
<1> SUFFICES ASSUME Init PROVE HistoryInv
  OBVIOUS
<1>1. TimesOrdered
  <2>1. IsFiniteSet({q \in Play : created[q] # 0})
    BY ConstantsAssumption, FS_Subset
  <2>2. Cardinality({q \in Play : created[q] # 0}) \in Nat
    BY <2>1, FS_CardinalityType
  <2>3. \A p \in Play : created[p] = 0
    BY DEF Init
  <2> QED BY <2>2, <2>3 DEF TimesOrdered
<1>2. SentInOrder
  BY DEF Init, SentInOrder, Idle
<1>3. CreditsExplained /\ OrderKept /\ CreditedOnce
  BY DEF Init, CreditsExplained, OrderKept, CreditedOnce, NotPlayed
<1> QED BY <1>1, <1>2, <1>3 DEF HistoryInv

LEMMA HistoryNext == QueueInv /\ QueueInv' /\ HistoryInv /\ [Next]_vars => HistoryInv'
<1> SUFFICES ASSUME QueueInv, QueueInv', HistoryInv, [Next]_vars PROVE HistoryInv'
  OBVIOUS
<1>1. ASSUME NEW u \in Player, Login(u) \/ ArcoCancel(u) PROVE HistoryInv'
  BY <1>1, HistorySession, HistoryCancel
<1>2. CASE (\E d \in Device : RegisterDevice(d)) \/ RegistrationFails \/ SignOut \/ NetworkChanges
  BY <1>2, HistorySession
<1>3. CASE Restart
  BY <1>3, HistoryRestart
<1>4. ASSUME NEW p \in Play,
             \/ FinishLevel(p) \/ ServerCompletes(p) \/ CompletionSaved(p) \/ CompletionFails(p)
             \/ CompletionResent(p) \/ CompletionUnauthorized(p) \/ Enqueue(p)
             \/ EnqueueFails(p)
      PROVE  HistoryInv'
  BY <1>4, HistoryPlay, HistoryCompletes, HistoryEnqueue
<1>5. ASSUME NEW c \in Cycle,
             \/ Start(c) \/ Load(c) \/ GameActive(c) \/ StartSending(c) \/ SignFails(c) \/ Post(c)
             \/ Fails(c) \/ RefreshAndResend(c) \/ SessionExpired(c) \/ Receive(c) \/ WipeLocal(c)
             \/ DeleteRow(c) \/ DeleteFails(c)
      PROVE  HistoryInv'
  BY <1>5, HistoryCycle, HistoryLoad
<1>6. ASSUME NEW m \in wire, Serve(m) \/ Unauthorized(m) \/ Refuse(m) PROVE HistoryInv'
  BY <1>6, HistoryServer
<1>7. CASE UNCHANGED vars
  BY <1>7, HistoryStep DEF vars, client, server, RowsShrink, SentBefore
<1> QED BY <1>1, <1>2, <1>3, <1>4, <1>5, <1>6, <1>7 DEF Next

\* The inductive invariant of the order: what is on its way, even of a cycle that
\* has given up, comes after what the server has recorded.
THEOREM HistoryInvariant == Spec => []HistoryInv
BY QueueInvariant, HistoryInit, HistoryNext, PTL DEF Spec

\* Events are recorded in the order of their rows.
THEOREM OrderPreserved == Spec => []OrderKept
<1>1. HistoryInv => OrderKept
  BY DEF HistoryInv
<1> QED BY <1>1, HistoryInvariant, PTL

\* At-least-once delivery and an idempotent server: one credit for a row.
THEOREM OneCredit == Spec => []CreditedOnce
<1>1. HistoryInv => CreditedOnce
  BY DEF HistoryInv
<1> QED BY <1>1, HistoryInvariant, PTL
=============================================================================
