--------------------------- MODULE BlockingQueue ---------------------------
(***************************************************************************)
(* What threads/synchlist.h promises: a first-in first-out queue that      *)
(* threads share, from which each item is taken once.                      *)
(***************************************************************************)
EXTENDS Sequences

CONSTANTS Thread, Item, NoItem

VARIABLES queue,   \* the items, the oldest first
          taken    \* what the last RemoveFront of each thread returned

vars == <<queue, taken>>

Init ==
  /\ queue = <<>>
  /\ taken = [t \in Thread |-> NoItem]

Put(x) ==
  /\ queue' = Append(queue, x)
  /\ UNCHANGED taken

Get(t) ==
  /\ queue # <<>>
  /\ queue' = Tail(queue)
  /\ taken' = [taken EXCEPT ![t] = Head(queue)]

\* The caller has used its item.
Forget(t) ==
  /\ taken' = [taken EXCEPT ![t] = NoItem]
  /\ UNCHANGED queue

Next ==
  \/ \E x \in Item : Put(x)
  \/ \E t \in Thread : Get(t) \/ Forget(t)

Spec == Init /\ [][Next]_vars
=============================================================================
