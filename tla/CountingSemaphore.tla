------------------------- MODULE CountingSemaphore -------------------------
(***************************************************************************)
(* What the semaphores of threads/synch.h promise, with no thread          *)
(* scheduler in sight: a semaphore holds a number of units, P takes one,   *)
(* waiting while there is none, and V adds one.  Nothing is said about the *)
(* order in which waiters are served: Semaphore::P re-tests the value      *)
(* after it was woken, so a newcomer may overtake a waiter.                *)
(***************************************************************************)
EXTENDS Integers

CONSTANTS Thread,        \* the threads that use the semaphores
          Sem,           \* the semaphores
          InitialValue   \* the value each semaphore is created with

VARIABLES avail,         \* avail[s]: the units semaphore s holds
          waiting        \* waiting[s]: the threads inside a P(s) that found none

vars == <<avail, waiting>>

Init ==
  /\ avail = InitialValue
  /\ waiting = [s \in Sem |-> {}]

IsWaiting(t) == \E s \in Sem : t \in waiting[s]

\* P(s) returns at once.
Take(t, s) ==
  /\ ~IsWaiting(t)
  /\ avail[s] > 0
  /\ avail' = [avail EXCEPT ![s] = @ - 1]
  /\ UNCHANGED waiting

\* P(s) finds no unit and waits.
Wait(t, s) ==
  /\ ~IsWaiting(t)
  /\ avail[s] = 0
  /\ waiting' = [waiting EXCEPT ![s] = @ \cup {t}]
  /\ UNCHANGED avail

\* A waiting P(s) gets a unit and returns.
Grant(t, s) ==
  /\ t \in waiting[s]
  /\ avail[s] > 0
  /\ avail' = [avail EXCEPT ![s] = @ - 1]
  /\ waiting' = [waiting EXCEPT ![s] = @ \ {t}]

\* V(s), from a thread or from an interrupt handler.
Release(s) ==
  /\ avail' = [avail EXCEPT ![s] = @ + 1]
  /\ UNCHANGED waiting

Next ==
  \E s \in Sem :
    \/ \E t \in Thread : Take(t, s) \/ Wait(t, s) \/ Grant(t, s)
    \/ Release(s)

Spec == Init /\ [][Next]_vars
=============================================================================
