----------------------------- MODULE MCProgress -----------------------------
(***************************************************************************)
(* Small instances of Progress: one player with a device, and a second     *)
(* user whose device id somebody else sends.                               *)
(***************************************************************************)
EXTENDS Progress, TLC

CONSTANTS u1, u2, l1, l2, d1, b1, b2, dev1, dev2, e1, e2, e3

MCOwner == dev1 :> u1 @@ dev2 :> u2
MCOneOwner == dev1 :> u1
\* Neither an online completion nor the two attempts of e1 earn b1 alone.
MCThreshold == b1 :> 7 @@ b2 :> 11

Play(l, c) == [level |-> l, date |-> d1, completed |-> c]
Sync(u, e, d, items, days, ok) ==
  [kind |-> "sync", user |-> u, event |-> e, device |-> d, items |-> items,
   days |-> days, valid |-> ok]
Online(u, l, c) ==
  [kind |-> "online", user |-> u, event |-> NoEvent, device |-> NoDevice,
   items |-> <<Play(l, c)>>, days |-> IF c THEN {d1} ELSE {}, valid |-> TRUE]

\* Two attempts of a level in a batch, two batches that lock two levels in
\* opposite orders, a bad signature, a foreign device, a batch with only a day
\* of activity, and attempts online.
MCRequest ==
  { Sync(u1, e1, dev1, <<Play(l1, TRUE), Play(l1, TRUE)>>, {d1}, TRUE),
    Sync(u1, e2, dev1, <<Play(l1, TRUE), Play(l2, TRUE)>>, {}, TRUE),
    Sync(u1, e3, dev1, <<Play(l2, FALSE), Play(l1, TRUE)>>, {}, TRUE),
    Sync(u1, e3, dev1, <<>>, {d1}, FALSE),
    Sync(u1, e1, dev2, <<Play(l1, TRUE)>>, {}, TRUE),
    Online(u1, l2, TRUE),
    Online(u2, l1, FALSE) }

\* A long day at one level, whose difficulty may be edited meanwhile.
MCLongDay ==
  { Sync(u1, e1, dev1, <<Play(l1, TRUE), Play(l1, TRUE)>>, {}, TRUE),
    Online(u1, l1, TRUE) }

Symmetric == Permutations(Session)
=============================================================================
