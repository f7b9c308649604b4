----------------------------- MODULE SynchList -----------------------------
(***************************************************************************)
(* SynchList (threads/synchlist.cc): a list under a Lock, with a Condition *)
(* for its consumers (both in threads/synch.cc).                           *)
(*                                                                         *)
(* The Lock is a semaphore and its holder.  Condition::Wait makes a        *)
(* semaphore for each waiting thread; a thread waits for one condition at  *)
(* a time, so the semaphore bears the name of its thread.  As everywhere,  *)
(* an action is the code between two points at which interrupts come back  *)
(* on: the ends of P and V.                                                *)
(***************************************************************************)
EXTENDS Integers, Sequences, FiniteSets

CONSTANTS Thread,      \* producers and consumers
          Item,        \* what they put on the list
          NoItem,      \* no item
          NoThread,    \* the NULL of lockHolder
          MaxLen       \* bound: no Append to a list of this length

ASSUME SynchListAssumption ==
  /\ IsFiniteSet(Thread)
  /\ NoThread \notin Thread
  /\ NoItem \notin Item
  /\ MaxLen \in Nat

VARIABLES
  list,        \* List<T>
  lockHolder,  \* Lock::lockHolder
  waitQueue,   \* Condition::waitQueue
  avail,       \* the values of the semaphores
  waiting,     \* who is inside P of each semaphore
  pc,          \* where each thread is
  item         \* the item a thread appends, or has removed

vars == <<list, lockHolder, waitQueue, avail, waiting, pc, item>>

lock == <<"lock">>
waiter(t) == <<"waiter", t>>
KSem == {lock} \cup {waiter(t) : t \in Thread}

S == INSTANCE CountingSemaphore
     WITH Sem <- KSem, InitialValue <- [s \in KSem |-> IF s = lock THEN 1 ELSE 0]

Location == {"user", "append", "signalled", "remove", "unlocked", "woken"}

TypeOK ==
  /\ list \in Seq(Item)
  /\ lockHolder \in Thread \cup {NoThread}
  /\ waitQueue \in Seq(Thread)
  /\ avail \in [KSem -> 0..1]
  /\ waiting \in [KSem -> SUBSET Thread]
  /\ pc \in [Thread -> Location]
  /\ item \in [Thread -> Item \cup {NoItem}]

Init ==
  /\ list = <<>>
  /\ lockHolder = NoThread
  /\ waitQueue = <<>>
  /\ S!Init
  /\ pc = [t \in Thread |-> "user"]
  /\ item = [t \in Thread |-> NoItem]

At(t, loc) == pc[t] = loc /\ ~S!IsWaiting(t)

Goto(t, loc) == pc' = [pc EXCEPT ![t] = loc]

P(t, s, loc) == (S!Take(t, s) \/ S!Wait(t, s)) /\ Goto(t, loc)

Wake(t, s) == S!Grant(t, s) /\ UNCHANGED <<list, lockHolder, waitQueue, pc, item>>

-----------------------------------------------------------------------------
\* Mutant: Lock::Acquire that names the holder before its P.
AppendCallEarly(t, x) ==
  /\ At(t, "user")
  /\ Len(list) < MaxLen
  /\ item' = [item EXCEPT ![t] = x]
  /\ lockHolder' = t
  /\ P(t, lock, "append")
  /\ UNCHANGED <<list, waitQueue>>

\* SynchList::Append: the P of lock->Acquire.
AppendCall(t, x) ==
  /\ At(t, "user")
  /\ Len(list) < MaxLen
  /\ item' = [item EXCEPT ![t] = x]
  /\ P(t, lock, "append")
  /\ UNCHANGED <<list, lockHolder, waitQueue>>

\* Mutant: Append that signals only when the list was empty.
AppendSignalIfEmpty(t) ==
  /\ At(t, "append")
  /\ waitQueue # <<>>
  /\ lockHolder' = t
  /\ list' = Append(list, item[t])
  /\ IF list = <<>>
     THEN waitQueue' = Tail(waitQueue) /\ S!Release(waiter(Head(waitQueue)))
     ELSE UNCHANGED <<waitQueue, avail, waiting>>
  /\ Goto(t, "signalled")
  /\ UNCHANGED item

\* The item is appended; Condition::Signal finds a waiter and makes its V.
AppendSignal(t) ==
  /\ At(t, "append")
  /\ waitQueue # <<>>
  /\ lockHolder' = t
  /\ list' = Append(list, item[t])
  /\ waitQueue' = Tail(waitQueue)
  /\ S!Release(waiter(Head(waitQueue)))
  /\ Goto(t, "signalled")
  /\ UNCHANGED item

\* Mutant: The list grows at its front.
PrependNoWaiter(t) ==
  /\ At(t, "append")
  /\ waitQueue = <<>>
  /\ list' = <<item[t]>> \o list
  /\ lockHolder' = NoThread
  /\ S!Release(lock)
  /\ item' = [item EXCEPT ![t] = NoItem]
  /\ Goto(t, "user")
  /\ UNCHANGED waitQueue

\* There is none: Append goes straight on to lock->Release.
AppendNoWaiter(t) ==
  /\ At(t, "append")
  /\ waitQueue = <<>>
  /\ list' = Append(list, item[t])
  /\ lockHolder' = NoThread
  /\ S!Release(lock)
  /\ item' = [item EXCEPT ![t] = NoItem]
  /\ Goto(t, "user")
  /\ UNCHANGED waitQueue

\* lock->Release after the signal.
AppendReturn(t) ==
  /\ At(t, "signalled")
  /\ lockHolder' = NoThread
  /\ S!Release(lock)
  /\ item' = [item EXCEPT ![t] = NoItem]
  /\ Goto(t, "user")
  /\ UNCHANGED <<list, waitQueue>>

-----------------------------------------------------------------------------
\* SynchList::RemoveFront: the P of lock->Acquire.
RemoveCall(t) ==
  /\ At(t, "user")
  /\ item' = [item EXCEPT ![t] = NoItem]
  /\ P(t, lock, "remove")
  /\ UNCHANGED <<list, lockHolder, waitQueue>>

\* The list is empty: Condition::Wait queues a new semaphore, releases the lock.
ConditionWait(t) ==
  /\ At(t, "remove")
  /\ list = <<>>
  /\ waitQueue' = Append(waitQueue, t)
  /\ lockHolder' = NoThread
  /\ S!Release(lock)
  /\ Goto(t, "unlocked")
  /\ UNCHANGED <<list, item>>

\* waiter->P.
ConditionSleep(t) ==
  /\ At(t, "unlocked")
  /\ P(t, waiter(t), "woken")
  /\ UNCHANGED <<list, lockHolder, waitQueue, item>>

\* Mutant: Condition::Wait that does not get the lock again.
ConditionReturnUnlocked(t) ==
  /\ At(t, "woken")
  /\ Goto(t, "remove")
  /\ UNCHANGED <<list, lockHolder, waitQueue, avail, waiting, item>>

\* conditionLock->Acquire; the loop of RemoveFront tests the list again.
ConditionReturn(t) ==
  /\ At(t, "woken")
  /\ P(t, lock, "remove")
  /\ UNCHANGED <<list, lockHolder, waitQueue, item>>

RemoveFront(t) ==
  /\ At(t, "remove")
  /\ list # <<>>
  /\ item' = [item EXCEPT ![t] = Head(list)]
  /\ list' = Tail(list)
  /\ lockHolder' = NoThread
  /\ S!Release(lock)
  /\ Goto(t, "user")
  /\ UNCHANGED waitQueue

Step(t) ==
  \/ \E s \in KSem : Wake(t, s)
  \/ \E x \in Item : AppendCall(t, x)
  \/ AppendSignal(t) \/ AppendNoWaiter(t) \/ AppendReturn(t)
  \/ RemoveCall(t) \/ ConditionWait(t) \/ ConditionSleep(t) \/ ConditionReturn(t)
  \/ RemoveFront(t)

Next == \E t \in Thread : Step(t)

Spec == Init /\ [][Next]_vars

-----------------------------------------------------------------------------
\* The assertion of Lock::Release never fails: the thread that signalled still
\* holds the lock when it comes back, and nobody is named holder otherwise.
HolderReleases ==
  \A t \in Thread : At(t, "signalled") <=> lockHolder = t

\* The threads on their way to the list: they hold the lock, wait for it, or
\* have been signalled.
Coming ==
  {t \in Thread : \/ pc[t] = "remove"
                  \/ /\ pc[t] \in {"unlocked", "woken"}
                     /\ \A i \in 1..Len(waitQueue) : waitQueue[i] # t}

\* No signal is lost: while a consumer waits unsignalled, every item on the list
\* has a consumer coming for it, even if a newcomer takes an item first.
NoLostSignal == waitQueue # <<>> => Len(list) <= Cardinality(Coming)

Queue == INSTANCE BlockingQueue
         WITH queue <- list,
              taken <- [t \in Thread |-> IF pc[t] = "user" THEN item[t] ELSE NoItem]

\* The list under its lock and condition is a first-in first-out queue: each
\* item is handed to one consumer, in the order of the Append calls.
ImplementsQueue == Queue!Spec
=============================================================================
