----------------------------- MODULE ProgressAbs -----------------------------
(***************************************************************************)
(* What the progress service promises, with no transactions, snapshots or  *)
(* locks in sight: attempts are credited one batch at a time.  A batch is  *)
(* appended to the boards of its levels, its points follow the schedule    *)
(* printed beside level_attempts.attempt_number (1 = 100%, 2-3 = 50%, more *)
(* = 0%), an event of the offline queue is credited or rejected at most    *)
(* once, and whoever has the points for a badge has the badge.             *)
(***************************************************************************)
EXTENDS Integers, Sequences, FiniteSets, Functions, Xp

CONSTANTS
  User, Level, Date, Badge, Event,
  Difficulties,  \* the difficulties a level can have
  Threshold,     \* points a badge asks for
  Request,       \* what clients may send, see Progress
  NoEvent        \* the event of a batch played online

VARIABLES
  board,   \* per user, level and day: the attempts in order
  total,   \* per user: points earned
  earned,  \* per user: badges
  days,    \* per user: days of activity
  event    \* per offline event: "none", "processed" or "rejected"

vars == <<board, total, earned, days, event>>

Init ==
  /\ board  = [k \in User \X Level \X Date |-> <<>>]
  /\ total  = [u \in User |-> 0]
  /\ earned = [u \in User |-> {}]
  /\ days   = [u \in User |-> {}]
  /\ event  = [e \in Event |-> "none"]

\* The batch r, its levels having the difficulties d, as entries of board k.
Entries(r, d, k) ==
  LET mine == {i \in DOMAIN r.items : <<r.user, r.items[i].level, r.items[i].date>> = k}
      nth(n) == CHOOSE i \in mine : Cardinality({j \in mine : j <= i}) = n
  IN  [n \in 1..Cardinality(mine) |->
         [completed |-> r.items[nth(n)].completed, difficulty |-> d[nth(n)]]]

BoardPoints(b) ==
  SumFunction([n \in DOMAIN b |-> ScheduledXP(b[n].difficulty, n, b[n].completed)])
TotalOf(u, b) == SumFunction([k \in {k \in DOMAIN b : k[1] = u} |-> BoardPoints(b[k])])

Credit(r) ==
  \E d \in [DOMAIN r.items -> Difficulties] :
    /\ r.event # NoEvent => event[r.event] = "none"
    /\ board' = [k \in DOMAIN board |-> board[k] \o Entries(r, d, k)]
    /\ total' = [total EXCEPT ![r.user] = TotalOf(r.user, board')]
    /\ earned' = [earned EXCEPT ![r.user] =
                    @ \union {b \in Badge : Threshold[b] <= total'[r.user]}]
    /\ days' = [days EXCEPT ![r.user] = @ \union r.days]
    /\ event' = [e \in Event |-> IF e = r.event THEN "processed" ELSE event[e]]

RejectEvent(e) ==
  /\ event[e] = "none"
  /\ event' = [event EXCEPT ![e] = "rejected"]
  /\ UNCHANGED <<board, total, earned, days>>

Next ==
  \/ \E r \in Request : r.valid /\ Credit(r)
  \/ \E e \in Event : RejectEvent(e)

Spec == Init /\ [][Next]_vars
=============================================================================
