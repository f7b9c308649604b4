-------------------------- MODULE NamedSemaphores --------------------------
(***************************************************************************)
(* What CreateSemaphore, Wait and Signal promise to user programs: a name  *)
(* stands for at most one counting semaphore, which is never lost once it  *)
(* is created, and there are at most Capacity of them.                     *)
(***************************************************************************)
EXTENDS Integers, FiniteSets

CONSTANTS Process, Name, InitialValue, Capacity

VARIABLES created,   \* the names that stand for a semaphore
          units,     \* the value of each of them
          blocked    \* the processes inside Wait, by name

vars == <<created, units, blocked>>

Init ==
  /\ created = {}
  /\ units = [n \in Name |-> 0]
  /\ blocked = [n \in Name |-> {}]

Blocked(p) == \E n \in Name : p \in blocked[n]

Create(n, v) ==
  /\ n \notin created
  /\ Cardinality(created) < Capacity
  /\ created' = created \cup {n}
  /\ units' = [units EXCEPT ![n] = v]
  /\ UNCHANGED blocked

\* Wait returns at once, starts to block, and comes back.
Take(p, n) ==
  /\ n \in created /\ units[n] > 0 /\ ~Blocked(p)
  /\ units' = [units EXCEPT ![n] = @ - 1]
  /\ UNCHANGED <<created, blocked>>

Block(p, n) ==
  /\ n \in created /\ units[n] = 0 /\ ~Blocked(p)
  /\ blocked' = [blocked EXCEPT ![n] = @ \cup {p}]
  /\ UNCHANGED <<created, units>>

Return(p, n) ==
  /\ n \in created /\ units[n] > 0 /\ p \in blocked[n]
  /\ units' = [units EXCEPT ![n] = @ - 1]
  /\ blocked' = [blocked EXCEPT ![n] = @ \ {p}]
  /\ UNCHANGED created

Signal(n) ==
  /\ n \in created
  /\ units' = [units EXCEPT ![n] = @ + 1]
  /\ UNCHANGED <<created, blocked>>

Next ==
  \E n \in Name :
    \/ \E v \in InitialValue : Create(n, v)
    \/ \E p \in Process : Take(p, n) \/ Block(p, n) \/ Return(p, n)
    \/ Signal(n)

Spec == Init /\ [][Next]_vars
=============================================================================
