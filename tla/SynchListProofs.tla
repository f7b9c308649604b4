-------------------------- MODULE SynchListProofs --------------------------
(***************************************************************************)
(* Proofs about SynchList, for any number of threads and items: its        *)
(* invariants, and that it implements BlockingQueue.  And about the tests  *)
(* that Kernel::ThreadSelfTest runs over it (KernelTests), and about the   *)
(* semaphores that user programs share (SemTable).                         *)
(***************************************************************************)
EXTENDS SynchList, FiniteSetTheorems, TLAPS

In(x, seq) == \E i \in 1..Len(seq) : seq[i] = x

NoDuplicates(seq) == \A i, j \in 1..Len(seq) : seq[i] = seq[j] => i = j

-----------------------------------------------------------------------------
(* The invariant.  HolderReleases needs that the lock excludes; that a     *)
(* waiter's semaphore stays at 0 or 1 needs that a thread is signalled at  *)
(* most once for each Wait.                                                *)

\* The threads between an Acquire and its Release.
Inside(t) == At(t, "append") \/ At(t, "signalled") \/ At(t, "remove")

\* At most one thread is inside, and then the lock has no unit.
LockExcludes ==
  /\ \A t \in Thread : Inside(t) => avail[lock] = 0
  /\ \A t, u \in Thread : Inside(t) /\ Inside(u) => t = u

\* A thread waits only where its code calls P: on the lock before it is inside, on
\* its own semaphore in Condition::Wait.
WaitsWhere ==
  /\ \A t \in waiting[lock] : pc[t] \in {"append", "remove"}
  /\ \A u \in Thread : \A t \in waiting[waiter(u)] : t = u /\ pc[t] = "woken"

\* A thread is queued at most once, between the Release of Condition::Wait and
\* its signal; its semaphore gets one unit when it leaves the queue.
SignalledOnce ==
  /\ NoDuplicates(waitQueue)
  /\ \A t \in Thread :
       /\ In(t, waitQueue) => avail[waiter(t)] = 0
       /\ In(t, waitQueue) \/ avail[waiter(t)] = 1
            => pc[t] = "unlocked" \/ (pc[t] = "woken" /\ t \in waiting[waiter(t)])

\* Append holds its item until it returns.
ItemHeld == \A t \in Thread : pc[t] \in {"append", "signalled"} => item[t] \in Item

Structure ==
  TypeOK /\ LockExcludes /\ HolderReleases /\ WaitsWhere /\ SignalledOnce /\ ItemHeld

\* A leaf is given half a minute.
USE SynchListAssumption, SMTT(30)

-----------------------------------------------------------------------------
(* The names of the semaphores, and who waits on them.                     *)

\* The lock and the waiters are different semaphores.
LEMMA Names ==
  /\ lock \in KSem
  /\ \A t \in Thread : waiter(t) \in KSem /\ waiter(t) # lock
  /\ \A t, u \in Thread : waiter(t) = waiter(u) => t = u
  /\ \A s \in KSem : s = lock \/ \E t \in Thread : s = waiter(t)
<1>1. \A t : <<"waiter", t>> # <<"lock">>
  BY Zenon
<1>2. \A t, u : <<"waiter", t>> = <<"waiter", u>> => t = u
  BY Zenon
<1> QED
  BY <1>1, <1>2, Zenon DEF KSem, lock, waiter

\* A thread waits on the lock, on its own semaphore, or not at all.
LEMMA WaitsIff ==
  ASSUME NEW w, \A u \in Thread : \A t \in w[waiter(u)] : t = u
  PROVE  \A t \in Thread :
           (\E s \in KSem : t \in w[s]) <=> (t \in w[lock] \/ t \in w[waiter(t)])
  BY Names, Zenon

\* The two forms of At in which the steps below use it.
LEMMA AtIff ==
  ASSUME WaitsWhere
  PROVE  \A t \in Thread : \A loc :
           At(t, loc) <=> (pc[t] = loc /\ t \notin waiting[lock] /\ t \notin waiting[waiter(t)])
<1>1. \A t \in Thread : S!IsWaiting(t) <=> (t \in waiting[lock] \/ t \in waiting[waiter(t)])
  BY WaitsIff, Zenon DEF WaitsWhere, S!IsWaiting
<1> QED
  BY <1>1, Zenon DEF At

\* The same of the state after a step.
LEMMA AtIffNext ==
  ASSUME WaitsWhere'
  PROVE  \A t \in Thread : \A loc :
           At(t, loc)' <=> (pc'[t] = loc /\ t \notin waiting'[lock] /\ t \notin waiting'[waiter(t)])
<1>1. \A t \in Thread :
        S!IsWaiting(t)' <=> (t \in waiting'[lock] \/ t \in waiting'[waiter(t)])
  BY WaitsIff, Zenon DEF WaitsWhere, S!IsWaiting
<1> QED
  BY <1>1, Zenon DEF At

-----------------------------------------------------------------------------
(* Lists: what List::Append and List::RemoveFront do to membership.        *)

\* List::Append adds its argument and nothing else.
LEMMA AppendIn ==
  ASSUME NEW R, NEW seq \in Seq(R), NEW x \in R
  PROVE  /\ Append(seq, x) \in Seq(R)
         /\ \A y : In(y, Append(seq, x)) <=> In(y, seq) \/ y = x
         /\ (NoDuplicates(seq) /\ ~In(x, seq)) => NoDuplicates(Append(seq, x))
<1> DEFINE app == Append(seq, x)
<1>1. /\ app \in Seq(R)
      /\ Len(app) = Len(seq) + 1
      /\ \A i \in 1..Len(seq) : app[i] = seq[i]
      /\ app[Len(seq) + 1] = x
      /\ Len(seq) \in Nat
  OBVIOUS
<1> HIDE DEF app
<1>2. \A y : In(y, app) <=> In(y, seq) \/ y = x
  BY <1>1 DEF In
<1>3. (NoDuplicates(seq) /\ ~In(x, seq)) => NoDuplicates(app)
  BY <1>1 DEF In, NoDuplicates
<1> QED
  BY <1>1, <1>2, <1>3, Zenon DEF app

\* List::RemoveFront takes away the front and nothing else.
LEMMA TailIn ==
  ASSUME NEW R, NEW seq \in Seq(R), seq # <<>>, NoDuplicates(seq)
  PROVE  /\ Tail(seq) \in Seq(R)
         /\ Head(seq) \in R
         /\ In(Head(seq), seq)
         /\ \A y : In(y, Tail(seq)) <=> In(y, seq) /\ y # Head(seq)
         /\ NoDuplicates(Tail(seq))
<1> DEFINE tl == Tail(seq)
<1>1. /\ tl \in Seq(R)
      /\ Len(seq) \in Nat \ {0}
      /\ Len(tl) = Len(seq) - 1
      /\ \A i \in 1..Len(tl) : tl[i] = seq[i + 1]
      /\ Head(seq) = seq[1]
      /\ Head(seq) \in R
  OBVIOUS
<1> HIDE DEF tl
<1>2. In(Head(seq), seq)
  BY <1>1 DEF In
<1>3. ASSUME NEW y, In(y, tl)
      PROVE  In(y, seq) /\ y # Head(seq)
  <2>1. PICK i \in 1..Len(tl) : tl[i] = y
    BY <1>3, Zenon DEF In
  <2>2. i + 1 \in 1..Len(seq) /\ 1 \in 1..Len(seq) /\ seq[i + 1] = y /\ i + 1 # 1
    BY <1>1, <2>1
  <2> QED
    BY <1>1, <2>2, Zenon DEF In, NoDuplicates
<1>4. ASSUME NEW y, In(y, seq), y # Head(seq)
      PROVE  In(y, tl)
  <2>1. PICK i \in 1..Len(seq) : seq[i] = y
    BY <1>4, Zenon DEF In
  <2>2. i - 1 \in 1..Len(tl) /\ tl[i - 1] = y
    BY <1>1, <1>4, <2>1
  <2> QED
    BY <2>2, Zenon DEF In
<1>5. NoDuplicates(tl)
  BY <1>1 DEF NoDuplicates
<1> QED
  BY <1>1, <1>2, <1>3, <1>4, <1>5, Zenon DEF tl

-----------------------------------------------------------------------------
(* Every step keeps the invariant.                                         *)

\* The constructors of SynchList, Lock and Condition establish it.
LEMMA StructureInit == Init => Structure
<1> SUFFICES ASSUME Init
             PROVE  Structure
  BY Zenon
<1>1. /\ avail = [s \in KSem |-> IF s = lock THEN 1 ELSE 0]
      /\ waiting = [s \in KSem |-> {}]
  BY Zenon DEF Init, S!Init
<1>2. TypeOK
  BY <1>1, Names DEF Init, TypeOK, Location
<1>3. WaitsWhere
  BY <1>1, Names, Zenon DEF WaitsWhere
<1>4. LockExcludes /\ HolderReleases
  BY <1>3, AtIff, Zenon DEF Init, LockExcludes, HolderReleases, Inside
<1>5. SignalledOnce
  BY <1>1, Names DEF Init, SignalledOnce, NoDuplicates, In
<1>6. ItemHeld
  BY Zenon DEF Init, ItemHeld
<1> QED
  BY <1>2, <1>3, <1>4, <1>5, <1>6, Zenon DEF Structure

\* A waiting P returns: it found a unit, so it is alone with it.
LEMMA WakeStep ==
  ASSUME Structure, NEW t \in Thread, NEW s \in KSem, Wake(t, s)
  PROVE  Structure'
<1> USE DEF Structure
<1>0. /\ t \in waiting[s] /\ avail[s] > 0
      /\ avail' = [avail EXCEPT ![s] = @ - 1]
      /\ waiting' = [waiting EXCEPT ![s] = @ \ {t}]
      /\ UNCHANGED <<list, lockHolder, waitQueue, pc, item>>
  BY Zenon DEF Wake, S!Grant
<1>1. TypeOK'
  BY <1>0 DEF TypeOK, Location
<1>2. WaitsWhere'
  BY <1>0, AtIff, Names DEF WaitsWhere, TypeOK
<1>3. LockExcludes'
  BY <1>0, <1>2, AtIff, AtIffNext, Names DEF LockExcludes, Inside, WaitsWhere, TypeOK
<1>4. HolderReleases'
  BY <1>0, <1>2, AtIff, AtIffNext, Names DEF HolderReleases, LockExcludes, Inside,
     WaitsWhere, TypeOK
<1>5. SignalledOnce'
  BY <1>0, AtIff, Names DEF SignalledOnce, WaitsWhere, TypeOK
<1>6. ItemHeld'
  BY <1>0, AtIff, Zenon DEF ItemHeld, TypeOK
<1> QED
  BY <1>1, <1>2, <1>3, <1>4, <1>5, <1>6, Zenon

\* Append: the thread gets the lock or waits for it.
LEMMA AppendCallStep ==
  ASSUME Structure, NEW t \in Thread, NEW x \in Item, AppendCall(t, x)
  PROVE  Structure'
<1> USE DEF Structure
<1>0. /\ At(t, "user")
      /\ item' = [item EXCEPT ![t] = x]
      /\ pc' = [pc EXCEPT ![t] = "append"]
      /\ \/ /\ avail[lock] > 0 /\ waiting' = waiting
            /\ avail' = [avail EXCEPT ![lock] = @ - 1]
         \/ /\ avail[lock] = 0 /\ avail' = avail
            /\ waiting' = [waiting EXCEPT ![lock] = @ \cup {t}]
      /\ UNCHANGED <<list, lockHolder, waitQueue>>
  BY Zenon DEF AppendCall, P, Goto, S!Take, S!Wait
<1>1. TypeOK'
  BY <1>0 DEF TypeOK, Location
<1>2. WaitsWhere'
  BY <1>0, AtIff, Names DEF WaitsWhere, TypeOK
<1>3. LockExcludes'
  BY <1>0, <1>2, AtIff, AtIffNext, Names DEF LockExcludes, Inside, WaitsWhere, TypeOK
<1>4. HolderReleases'
  BY <1>0, <1>2, AtIff, AtIffNext, Names DEF HolderReleases, LockExcludes, Inside,
     WaitsWhere, TypeOK
<1>5. SignalledOnce'
  BY <1>0, AtIff, Names DEF SignalledOnce, WaitsWhere, TypeOK
<1>6. ItemHeld'
  BY <1>0, AtIff, Zenon DEF ItemHeld, TypeOK
<1> QED
  BY <1>1, <1>2, <1>3, <1>4, <1>5, <1>6, Zenon

\* Signal hands its unit to a thread that had none and is not queued any more.
LEMMA AppendSignalStep ==
  ASSUME Structure, NEW t \in Thread, AppendSignal(t)
  PROVE  Structure'
<1> USE DEF Structure
<1> DEFINE w == Head(waitQueue)
<1>0. /\ At(t, "append") /\ lockHolder' = t
      /\ avail' = [avail EXCEPT ![waiter(w)] = @ + 1] /\ waiting' = waiting
      /\ pc' = [pc EXCEPT ![t] = "signalled"]
      /\ item' = item
  BY Zenon DEF AppendSignal, Goto, S!Release
<1>a. /\ list' \in Seq(Item)
      /\ w \in Thread /\ In(w, waitQueue)
      /\ \A y : In(y, waitQueue') <=> In(y, waitQueue) /\ y # w
      /\ NoDuplicates(waitQueue') /\ waitQueue' \in Seq(Thread)
  <2>1. item[t] \in Item
    BY <1>0, AtIff, Zenon DEF ItemHeld
  <2>2. list' = Append(list, item[t]) /\ waitQueue # <<>> /\ waitQueue' = Tail(waitQueue)
    BY Zenon DEF AppendSignal
  <2> QED
    BY <2>1, <2>2, TailIn DEF TypeOK, SignalledOnce
<1>b. avail[waiter(w)] = 0 /\ waiter(w) \in KSem /\ waiter(w) # lock
  BY <1>a, Names, Zenon DEF SignalledOnce
<1> HIDE DEF w
<1>1. TypeOK'
  BY <1>0, <1>a, <1>b DEF TypeOK, Location
<1>2. WaitsWhere'
  BY <1>0, AtIff, Names DEF WaitsWhere, TypeOK
<1>3. LockExcludes'
  BY <1>0, <1>2, <1>a, <1>b, AtIff, AtIffNext, Names DEF LockExcludes, Inside, WaitsWhere, TypeOK
<1>4. HolderReleases'
  BY <1>0, <1>2, AtIff, AtIffNext, Names DEF HolderReleases, LockExcludes, Inside,
     WaitsWhere, TypeOK
<1>5. SignalledOnce'
  BY <1>0, AtIff, Names, <1>a, <1>b DEF SignalledOnce, WaitsWhere, TypeOK
<1>6. ItemHeld'
  BY <1>0, AtIff, <1>a, Zenon DEF ItemHeld, TypeOK
<1> QED
  BY <1>1, <1>2, <1>3, <1>4, <1>5, <1>6, Zenon

\* Append without a waiter: Release by the one thread inside.
LEMMA AppendNoWaiterStep ==
  ASSUME Structure, NEW t \in Thread, AppendNoWaiter(t)
  PROVE  Structure'
<1> USE DEF Structure
<1>0. /\ At(t, "append")
      /\ lockHolder' = NoThread
      /\ avail' = [avail EXCEPT ![lock] = @ + 1] /\ avail[lock] = 0 /\ lock \in KSem
      /\ waiting' = waiting
      /\ pc' = [pc EXCEPT ![t] = "user"]
      /\ item' = [item EXCEPT ![t] = NoItem] /\ waitQueue' = waitQueue
  BY Names, Zenon DEF AppendNoWaiter, Goto, S!Release, LockExcludes, Inside
<1>a. list' \in Seq(Item)
  <2>1. item[t] \in Item
    BY <1>0, AtIff, Zenon DEF ItemHeld
  <2> QED
    BY <2>1 DEF AppendNoWaiter, TypeOK
<1>1. TypeOK'
  BY <1>0, <1>a DEF TypeOK, Location
<1>2. WaitsWhere'
  BY <1>0, AtIff, Names DEF WaitsWhere, TypeOK
<1>3. LockExcludes'
  <2>1. Inside(t) /\ \A u \in Thread : ~Inside(u)'
    BY <1>0, <1>2, AtIff, AtIffNext DEF LockExcludes, Inside, TypeOK
  <2> QED
    BY <2>1, Zenon DEF LockExcludes
<1>4. HolderReleases'
  BY <1>0, <1>2, AtIff, AtIffNext, Names DEF HolderReleases, LockExcludes, Inside,
     WaitsWhere, TypeOK
<1>5. SignalledOnce'
  BY <1>0, AtIff, Names, <1>a DEF SignalledOnce, WaitsWhere, TypeOK
<1>6. ItemHeld'
  BY <1>0, AtIff, <1>a DEF ItemHeld, TypeOK
<1> QED
  BY <1>1, <1>2, <1>3, <1>4, <1>5, <1>6, Zenon

\* Append after its signal: Release by the one thread inside.
LEMMA AppendReturnStep ==
  ASSUME Structure, NEW t \in Thread, AppendReturn(t)
  PROVE  Structure'
<1> USE DEF Structure
<1>0. /\ At(t, "signalled")
      /\ lockHolder' = NoThread
      /\ avail' = [avail EXCEPT ![lock] = @ + 1] /\ avail[lock] = 0 /\ lock \in KSem
      /\ waiting' = waiting
      /\ pc' = [pc EXCEPT ![t] = "user"]
      /\ item' = [item EXCEPT ![t] = NoItem] /\ UNCHANGED <<list, waitQueue>>
  BY Names, Zenon DEF AppendReturn, Goto, S!Release, LockExcludes, Inside
<1>1. TypeOK'
  BY <1>0 DEF TypeOK, Location
<1>2. WaitsWhere'
  BY <1>0, AtIff, Names DEF WaitsWhere, TypeOK
<1>3. LockExcludes'
  <2>1. Inside(t) /\ \A u \in Thread : ~Inside(u)'
    BY <1>0, <1>2, AtIff, AtIffNext DEF LockExcludes, Inside, TypeOK
  <2> QED
    BY <2>1, Zenon DEF LockExcludes
<1>4. HolderReleases'
  BY <1>0, <1>2, AtIff, AtIffNext, Names DEF HolderReleases, LockExcludes, Inside,
     WaitsWhere, TypeOK
<1>5. SignalledOnce'
  BY <1>0, AtIff, Names DEF SignalledOnce, WaitsWhere, TypeOK
<1>6. ItemHeld'
  BY <1>0, AtIff DEF ItemHeld, TypeOK
<1> QED
  BY <1>1, <1>2, <1>3, <1>4, <1>5, <1>6, Zenon

\* RemoveFront: the thread gets the lock or waits for it.
LEMMA RemoveCallStep ==
  ASSUME Structure, NEW t \in Thread, RemoveCall(t)
  PROVE  Structure'
<1> USE DEF Structure
<1>0. /\ At(t, "user")
      /\ item' = [item EXCEPT ![t] = NoItem]
      /\ pc' = [pc EXCEPT ![t] = "remove"]
      /\ \/ /\ avail[lock] > 0 /\ waiting' = waiting
            /\ avail' = [avail EXCEPT ![lock] = @ - 1]
         \/ /\ avail[lock] = 0 /\ avail' = avail
            /\ waiting' = [waiting EXCEPT ![lock] = @ \cup {t}]
      /\ UNCHANGED <<list, lockHolder, waitQueue>>
  BY Zenon DEF RemoveCall, P, Goto, S!Take, S!Wait
<1>1. TypeOK'
  BY <1>0 DEF TypeOK, Location
<1>2. WaitsWhere'
  BY <1>0, AtIff, Names DEF WaitsWhere, TypeOK
<1>3. LockExcludes'
  BY <1>0, <1>2, AtIff, AtIffNext, Names DEF LockExcludes, Inside, WaitsWhere, TypeOK
<1>4. HolderReleases'
  BY <1>0, <1>2, AtIff, AtIffNext, Names DEF HolderReleases, LockExcludes, Inside,
     WaitsWhere, TypeOK
<1>5. SignalledOnce'
  BY <1>0, AtIff, Names DEF SignalledOnce, WaitsWhere, TypeOK
<1>6. ItemHeld'
  BY <1>0, AtIff, Zenon DEF ItemHeld, TypeOK
<1> QED
  BY <1>1, <1>2, <1>3, <1>4, <1>5, <1>6, Zenon

\* Condition::Wait queues a thread that was not queued and has no unit.
LEMMA ConditionWaitStep ==
  ASSUME Structure, NEW t \in Thread, ConditionWait(t)
  PROVE  Structure'
<1> USE DEF Structure
<1>0. /\ At(t, "remove")
      /\ lockHolder' = NoThread
      /\ avail' = [avail EXCEPT ![lock] = @ + 1] /\ avail[lock] = 0 /\ lock \in KSem
      /\ waiting' = waiting
      /\ pc' = [pc EXCEPT ![t] = "unlocked"]
      /\ UNCHANGED <<list, item>>
  BY Names, Zenon DEF ConditionWait, Goto, S!Release, LockExcludes, Inside
<1>a. /\ waitQueue' \in Seq(Thread)
      /\ \A y : In(y, waitQueue') <=> In(y, waitQueue) \/ y = t
      /\ NoDuplicates(waitQueue')
  <2>1. ~In(t, waitQueue)
    BY <1>0, AtIff, Zenon DEF SignalledOnce
  <2>2. waitQueue' = Append(waitQueue, t)
    BY Zenon DEF ConditionWait
  <2> QED
    BY <2>1, <2>2, AppendIn, Zenon DEF TypeOK, SignalledOnce
<1>1. TypeOK'
  BY <1>0, <1>a DEF TypeOK, Location
<1>2. WaitsWhere'
  BY <1>0, AtIff, Names DEF WaitsWhere, TypeOK
<1>3. LockExcludes'
  <2>1. Inside(t) /\ \A u \in Thread : ~Inside(u)'
    BY <1>0, <1>2, AtIff, AtIffNext DEF LockExcludes, Inside, TypeOK
  <2> QED
    BY <2>1, Zenon DEF LockExcludes
<1>4. HolderReleases'
  BY <1>0, <1>2, AtIff, AtIffNext, Names DEF HolderReleases, LockExcludes, Inside,
     WaitsWhere, TypeOK
<1>5. SignalledOnce'
  BY <1>0, AtIff, Names, <1>a DEF SignalledOnce, WaitsWhere, TypeOK
<1>6. ItemHeld'
  BY <1>0, AtIff, <1>a, Zenon DEF ItemHeld, TypeOK
<1> QED
  BY <1>1, <1>2, <1>3, <1>4, <1>5, <1>6, Zenon

\* Condition::Wait sleeps, or takes the unit of a signal that came first.
LEMMA ConditionSleepStep ==
  ASSUME Structure, NEW t \in Thread, ConditionSleep(t)
  PROVE  Structure'
<1> USE DEF Structure
<1>0. /\ At(t, "unlocked")
      /\ pc' = [pc EXCEPT ![t] = "woken"]
      /\ \/ /\ avail[waiter(t)] > 0 /\ waiting' = waiting
            /\ avail' = [avail EXCEPT ![waiter(t)] = @ - 1]
         \/ /\ avail[waiter(t)] = 0 /\ avail' = avail
            /\ waiting' = [waiting EXCEPT ![waiter(t)] = @ \cup {t}]
      /\ UNCHANGED <<list, lockHolder, waitQueue, item>>
  BY Zenon DEF ConditionSleep, P, Goto, S!Take, S!Wait
<1>1. TypeOK'
  BY <1>0 DEF TypeOK, Location
<1>2. WaitsWhere'
  BY <1>0, AtIff, Names DEF WaitsWhere, TypeOK
<1>3. LockExcludes'
  BY <1>0, <1>2, AtIff, AtIffNext, Names DEF LockExcludes, Inside, WaitsWhere, TypeOK
<1>4. HolderReleases'
  BY <1>0, <1>2, AtIff, AtIffNext, Names DEF HolderReleases, LockExcludes, Inside,
     WaitsWhere, TypeOK
<1>5. SignalledOnce'
  BY <1>0, AtIff, Names DEF SignalledOnce, WaitsWhere, TypeOK
<1>6. ItemHeld'
  BY <1>0, AtIff DEF ItemHeld, TypeOK
<1> QED
  BY <1>1, <1>2, <1>3, <1>4, <1>5, <1>6, Zenon

\* A signalled thread asks for the lock again.
LEMMA ConditionReturnStep ==
  ASSUME Structure, NEW t \in Thread, ConditionReturn(t)
  PROVE  Structure'
<1> USE DEF Structure
<1>0. /\ At(t, "woken")
      /\ pc' = [pc EXCEPT ![t] = "remove"]
      /\ \/ /\ avail[lock] > 0 /\ waiting' = waiting
            /\ avail' = [avail EXCEPT ![lock] = @ - 1]
         \/ /\ avail[lock] = 0 /\ avail' = avail
            /\ waiting' = [waiting EXCEPT ![lock] = @ \cup {t}]
      /\ UNCHANGED <<list, lockHolder, waitQueue, item>>
  BY Zenon DEF ConditionReturn, P, Goto, S!Take, S!Wait
<1>1. TypeOK'
  BY <1>0 DEF TypeOK, Location
<1>2. WaitsWhere'
  BY <1>0, AtIff, Names DEF WaitsWhere, TypeOK
<1>3. LockExcludes'
  BY <1>0, <1>2, AtIff, AtIffNext, Names DEF LockExcludes, Inside, WaitsWhere, TypeOK
<1>4. HolderReleases'
  BY <1>0, <1>2, AtIff, AtIffNext, Names DEF HolderReleases, LockExcludes, Inside,
     WaitsWhere, TypeOK
<1>5. SignalledOnce'
  BY <1>0, AtIff, Names DEF SignalledOnce, WaitsWhere, TypeOK
<1>6. ItemHeld'
  BY <1>0, AtIff, Zenon DEF ItemHeld, TypeOK
<1> QED
  BY <1>1, <1>2, <1>3, <1>4, <1>5, <1>6, Zenon

\* RemoveFront takes the first item; Release by the one thread inside.
LEMMA RemoveFrontStep ==
  ASSUME Structure, NEW t \in Thread, RemoveFront(t)
  PROVE  Structure'
<1> USE DEF Structure
<1>0. /\ At(t, "remove")
      /\ lockHolder' = NoThread
      /\ avail' = [avail EXCEPT ![lock] = @ + 1] /\ avail[lock] = 0 /\ lock \in KSem
      /\ waiting' = waiting
      /\ pc' = [pc EXCEPT ![t] = "user"]
      /\ item' = [item EXCEPT ![t] = Head(list)] /\ waitQueue' = waitQueue
  BY Names, Zenon DEF RemoveFront, Goto, S!Release, LockExcludes, Inside
<1>a. list' \in Seq(Item) /\ Head(list) \in Item
  BY DEF RemoveFront, TypeOK
<1>1. TypeOK'
  BY <1>0, <1>a DEF TypeOK, Location
<1>2. WaitsWhere'
  BY <1>0, AtIff, Names DEF WaitsWhere, TypeOK
<1>3. LockExcludes'
  <2>1. Inside(t) /\ \A u \in Thread : ~Inside(u)'
    BY <1>0, <1>2, AtIff, AtIffNext DEF LockExcludes, Inside, TypeOK
  <2> QED
    BY <2>1, Zenon DEF LockExcludes
<1>4. HolderReleases'
  BY <1>0, <1>2, AtIff, AtIffNext, Names DEF HolderReleases, LockExcludes, Inside,
     WaitsWhere, TypeOK
<1>5. SignalledOnce'
  BY <1>0, AtIff, Names, <1>a DEF SignalledOnce, WaitsWhere, TypeOK
<1>6. ItemHeld'
  BY <1>0, AtIff, <1>a DEF ItemHeld, TypeOK
<1> QED
  BY <1>1, <1>2, <1>3, <1>4, <1>5, <1>6, Zenon

\* Every step of a thread keeps the structural invariant.
LEMMA StructureNext == Structure /\ [Next]_vars => Structure'
<1> SUFFICES ASSUME Structure, [Next]_vars
             PROVE  Structure'
  BY Zenon
<1>1. ASSUME NEW t \in Thread, Step(t)
      PROVE  Structure'
  BY <1>1, WakeStep, AppendCallStep, AppendSignalStep, AppendNoWaiterStep, AppendReturnStep,
     RemoveCallStep, ConditionWaitStep, ConditionSleepStep, ConditionReturnStep,
     RemoveFrontStep, Zenon DEF Step
<1>2. CASE UNCHANGED vars
  BY <1>2, Zenon DEF vars, Structure, TypeOK, LockExcludes, HolderReleases, WaitsWhere, SignalledOnce,
     ItemHeld, Inside, At, S!IsWaiting
<1> QED
  BY <1>1, <1>2, Zenon DEF Next

\* The invariant of SynchList, its Lock and its Condition.
THEOREM StructureCorrect == Spec => []Structure
<1>1. Init => Structure
  BY StructureInit, Zenon
<1>2. Structure /\ [Next]_vars => Structure'
  BY StructureNext, Zenon
<1> QED
  BY <1>1, <1>2, PTL DEF Spec

\* Lock::Release is called by the holder: its assertion holds for any number of
\* producers and consumers.
THEOREM HolderReleasesCorrect == Spec => []HolderReleases
<1>1. Structure => HolderReleases
  BY Zenon DEF Structure
<1> QED
  BY <1>1, StructureCorrect, PTL

-----------------------------------------------------------------------------
(* No signal is lost.                                                      *)

\* Coming, with the queue's membership named.
LEMMA ComingIn ==
  Coming = {t \in Thread : \/ pc[t] = "remove"
                           \/ pc[t] \in {"unlocked", "woken"} /\ ~In(t, waitQueue)}
  BY Zenon DEF Coming, In

\* The same of the state after a step.
LEMMA ComingInNext ==
  Coming' = {t \in Thread : \/ pc'[t] = "remove"
                            \/ pc'[t] \in {"unlocked", "woken"} /\ ~In(t, waitQueue')}
  BY Zenon DEF Coming, In

\* Coming is a finite set, before a step and after it.
LEMMA ComingFinite ==
  /\ IsFiniteSet(Coming) /\ Cardinality(Coming) \in Nat
  /\ IsFiniteSet(Coming') /\ Cardinality(Coming') \in Nat
<1>1. Coming \subseteq Thread /\ Coming' \subseteq Thread
  BY Zenon DEF Coming
<1> QED
  BY <1>1, FS_Subset, FS_CardinalityType, Zenon

\* A step that leaves the list alone and takes nobody off its way to it.
LEMMA ComingKept ==
  ASSUME NoLostSignal, list' = list, waitQueue' # <<>> => waitQueue # <<>>,
         Len(list) \in Nat, Coming \subseteq Coming'
  PROVE  NoLostSignal'
<1>1. Cardinality(Coming) <= Cardinality(Coming')
  BY ComingFinite, FS_Subset, Zenon
<1> QED
  BY <1>1, ComingFinite DEF NoLostSignal

\* Append with a waiter: one more item, one more consumer on its way.
LEMMA SignalAppendSignal ==
  ASSUME Structure, NoLostSignal, NEW t \in Thread, AppendSignal(t)
  PROVE  NoLostSignal'
<1> USE DEF Structure
<1> DEFINE w == Head(waitQueue)
<1>1. /\ w \in Thread /\ In(w, waitQueue) /\ waitQueue # <<>>
      /\ \A y : In(y, waitQueue') <=> In(y, waitQueue) /\ y # w
  BY TailIn, Zenon DEF AppendSignal, TypeOK, SignalledOnce
<1>2. pc[w] \in {"unlocked", "woken"}
  BY <1>1, Zenon DEF SignalledOnce
<1>3. pc[t] = "append" /\ pc' = [pc EXCEPT ![t] = "signalled"]
  BY Zenon DEF AppendSignal, At, Goto
<1> HIDE DEF w
<1>4. w \notin Coming /\ Coming' = Coming \cup {w}
  BY <1>1, <1>2, <1>3, ComingIn, ComingInNext DEF TypeOK
<1>5. Cardinality(Coming') = Cardinality(Coming) + 1
  BY <1>4, ComingFinite, FS_AddElement, Zenon
<1>6. Len(list') = Len(list) + 1 /\ Len(list) \in Nat
  <2>1. item[t] \in Item
    BY <1>3, Zenon DEF ItemHeld
  <2> QED
    BY <2>1 DEF AppendSignal, TypeOK
<1> QED
  BY <1>1, <1>5, <1>6, ComingFinite DEF NoLostSignal

\* RemoveFront: one item less, one consumer less on its way.
LEMMA SignalRemoveFront ==
  ASSUME Structure, NoLostSignal, NEW t \in Thread, RemoveFront(t)
  PROVE  NoLostSignal'
<1> USE DEF Structure
<1>1. /\ pc[t] = "remove" /\ pc' = [pc EXCEPT ![t] = "user"]
      /\ waitQueue' = waitQueue
  BY Zenon DEF RemoveFront, At, Goto
<1>2. t \in Coming /\ Coming' = Coming \ {t}
  BY <1>1, ComingIn, ComingInNext, Zenon DEF TypeOK
<1>3. Cardinality(Coming') = Cardinality(Coming) - 1
  BY <1>2, ComingFinite, FS_RemoveElement, Zenon
<1>4. Len(list') = Len(list) - 1 /\ Len(list) \in Nat
  BY DEF RemoveFront, TypeOK
<1> QED
  BY <1>1, <1>3, <1>4, ComingFinite DEF NoLostSignal

\* Every step keeps the balance of the items and the consumers on their way, as
\* long as a consumer waits unsignalled.
LEMMA SignalStep ==
  ASSUME Structure, NoLostSignal, NEW t \in Thread, Step(t)
  PROVE  NoLostSignal'
<1> USE DEF Structure
<1>0. Len(list) \in Nat
  BY DEF TypeOK
<1>1. ASSUME NEW s \in KSem, Wake(t, s)
      PROVE  NoLostSignal'
  BY <1>0, <1>1, ComingIn, ComingInNext, ComingKept, Zenon DEF Wake
<1>2. CASE AppendNoWaiter(t) \/ ConditionWait(t)
  <2>1. waitQueue' = <<>> \/ list' = <<>>
    BY <1>2, Zenon DEF AppendNoWaiter, ConditionWait
  <2> QED
    BY <2>1, ComingFinite DEF NoLostSignal
<1>3. ASSUME NEW a \in {"user", "signalled", "unlocked", "woken"},
             NEW b \in {"append", "user", "remove", "woken"},
             pc[t] = a, pc' = [pc EXCEPT ![t] = b],
             UNCHANGED <<list, waitQueue>>,
             a \in {"unlocked", "woken"} => b \in {"woken", "remove"}
      PROVE  NoLostSignal'
  <2>1. Coming \subseteq Coming'
    BY <1>3, ComingIn, ComingInNext, Zenon DEF TypeOK
  <2> QED
    BY <1>0, <1>3, <2>1, ComingKept, Zenon
<1>4. ASSUME NEW x \in Item, AppendCall(t, x)
      PROVE  NoLostSignal'
  BY <1>3, <1>4, Zenon DEF AppendCall, At, P, Goto
<1>5. CASE AppendReturn(t)
  BY <1>3, <1>5, Zenon DEF AppendReturn, At, Goto
<1>6. CASE RemoveCall(t)
  BY <1>3, <1>6, Zenon DEF RemoveCall, At, P, Goto
<1>7. CASE ConditionSleep(t)
  BY <1>3, <1>7, Zenon DEF ConditionSleep, At, P, Goto
<1>8. CASE ConditionReturn(t)
  BY <1>3, <1>8, Zenon DEF ConditionReturn, At, P, Goto
<1> QED
  BY <1>1, <1>2, <1>4, <1>5, <1>6, <1>7, <1>8, SignalAppendSignal, SignalRemoveFront, Zenon DEF Step

\* No signal of a SynchList is lost, for any number of producers and consumers:
\* while a consumer waits unsignalled, each item has a consumer coming for it.
THEOREM NoLostSignalCorrect == Spec => []NoLostSignal
<1>1. Init => NoLostSignal
  BY Zenon DEF Init, NoLostSignal
<1>2. Structure /\ NoLostSignal /\ [Next]_vars => NoLostSignal'
  <2> SUFFICES ASSUME Structure, NoLostSignal, [Next]_vars
               PROVE  NoLostSignal'
    BY Zenon
  <2>1. CASE UNCHANGED vars
    BY <2>1, Zenon DEF vars, NoLostSignal, Coming
  <2> QED
    BY <2>1, SignalStep, Zenon DEF Next
<1> QED
  BY <1>1, <1>2, StructureCorrect, PTL DEF Spec

-----------------------------------------------------------------------------
(* Refinement.                                                             *)

\* What the abstract queue sees a thread holding.
Taken == [t \in Thread |-> IF pc[t] = "user" THEN item[t] ELSE NoItem]

\* A step is an Append at the Append of the inner list, a RemoveFront when it
\* returns, and otherwise a caller that lets go of its last item, or a stutter.
LEMMA RefineStep ==
  ASSUME Structure, NEW t \in Thread, Step(t)
  PROVE  [Queue!Next]_(Queue!vars)
<1> USE DEF Structure
<1>1. ASSUME NEW x \in Item, list' = Append(list, x), Taken' = Taken
      PROVE  Queue!Next
  BY <1>1, Zenon DEF Queue!Next, Queue!Put, Taken
<1>2. ASSUME list' = list, Taken' = [Taken EXCEPT ![t] = NoItem]
      PROVE  Queue!Next
  BY <1>2, Zenon DEF Queue!Next, Queue!Forget, Taken
<1>3. ASSUME list' = list, Taken' = Taken
      PROVE  UNCHANGED Queue!vars
  BY <1>3, Zenon DEF Queue!vars, Taken
<1>4. ASSUME NEW s \in KSem, Wake(t, s)
      PROVE  UNCHANGED Queue!vars
  BY <1>3, <1>4, Zenon DEF Wake, Taken
<1>5. ASSUME NEW x \in Item, AppendCall(t, x)
      PROVE  Queue!Next
  BY <1>2, <1>5, Zenon DEF AppendCall, P, Goto, Taken, TypeOK
<1>6. CASE AppendSignal(t)
  <2>1. item[t] \in Item /\ Taken' = Taken
    BY <1>6, Zenon DEF AppendSignal, At, Goto, Taken, TypeOK, ItemHeld
  <2> QED
    BY <1>1, <1>6, <2>1, Zenon DEF AppendSignal
<1>7. CASE AppendNoWaiter(t)
  <2>1. item[t] \in Item /\ Taken' = Taken
    BY <1>7, Zenon DEF AppendNoWaiter, At, Goto, Taken, TypeOK, ItemHeld
  <2> QED
    BY <1>1, <1>7, <2>1, Zenon DEF AppendNoWaiter
<1>8. CASE AppendReturn(t)
  BY <1>3, <1>8, Zenon DEF AppendReturn, At, Goto, Taken, TypeOK
<1>9. CASE RemoveCall(t)
  BY <1>2, <1>9, Zenon DEF RemoveCall, P, Goto, Taken, TypeOK
<1>10. CASE ConditionWait(t)
  BY <1>3, <1>10, Zenon DEF ConditionWait, At, Goto, Taken, TypeOK
<1>11. CASE ConditionSleep(t)
  BY <1>3, <1>11, Zenon DEF ConditionSleep, At, P, Goto, Taken, TypeOK
<1>12. CASE ConditionReturn(t)
  BY <1>3, <1>12, Zenon DEF ConditionReturn, At, P, Goto, Taken, TypeOK
<1>13. CASE RemoveFront(t)
  <2>1. Taken' = [Taken EXCEPT ![t] = Head(list)]
    BY <1>13, Zenon DEF RemoveFront, Goto, Taken, TypeOK
  <2>2. Queue!Get(t)
    BY <1>13, <2>1, Zenon DEF RemoveFront, Queue!Get, Taken
  <2> QED
    BY <2>2, Zenon DEF Queue!Next
<1> QED
  BY <1>4, <1>5, <1>6, <1>7, <1>8, <1>9, <1>10, <1>11, <1>12, <1>13, Zenon DEF Step

\* SynchList implements the blocking queue: first in, first out, each item handed
\* to one consumer, whatever the interleaving of its callers.
THEOREM QueueRefinement == Spec => ImplementsQueue
<1>1. Init => Queue!Init
  BY Zenon DEF Init, Queue!Init
<1>2. Structure /\ [Next]_vars => [Queue!Next]_(Queue!vars)
  <2> SUFFICES ASSUME Structure, [Next]_vars
               PROVE  [Queue!Next]_(Queue!vars)
    BY Zenon
  <2>1. CASE UNCHANGED vars
    BY <2>1, Zenon DEF vars, Queue!vars
  <2> QED
    BY <2>1, RefineStep, Zenon DEF Next
<1> QED
  BY <1>1, <1>2, StructureCorrect, PTL DEF Spec, ImplementsQueue, Queue!Spec

-----------------------------------------------------------------------------
(* The tests of the kernel, for any number of rounds and any value sent.    *)

HIDE SynchListAssumption

CONSTANTS Loops, Rounds, Val

VARIABLES at, left, value, lists, locked, taken, echoed, deleted

Tst == INSTANCE KernelTests WITH list <- lists, item <- taken

\* The rounds of SimpleThread and of the two other tests (5 and 10 in the code).
Setting == Loops \in Nat /\ Rounds \in Nat \ {0}

\* Where a thread of the tests may be.
Places == {"start", "loop", "V", "P", "deletes", "append", "release1", "remove",
           "release2", "deleteLists", "done", "new", "run", "pong", "releasePing",
           "releasePong"}

TestTypes ==
  /\ at \in [Tst!Threads -> Places]
  /\ left \in [Tst!Threads -> Nat]
  /\ value \in [{"ping", "pong"} -> Nat]
  /\ lists \in [{"selfTestPing", "synchList"} -> Seq({Val})]
  /\ echoed \in Seq({Val})

\* Main is where the given part of the tests is under way.
Early == at["main"] \in {"start", "loop"}
SemRound == at["main"] \in {"V", "P"}
ListRound == at["main"] \in {"append", "release1", "remove", "release2"}
Late == at["main"] \in {"deleteLists", "done"}

\* Where the semaphore helper is, its rounds, and the values of ping and pong.
Sems(l, n, i, o) ==
  /\ at["semHelper"] = l /\ left["semHelper"] = n
  /\ value["ping"] = i /\ value["pong"] = o

\* The ball is in one place: with main, in ping, with the helper, or in pong.
SemGame ==
  /\ Early => Sems("new", 0, 0, 0)
  /\ SemRound => left["main"] > 0
  /\ at["main"] = "V" => Sems("run", left["main"], 0, 0)
  /\ at["main"] = "P" => \/ Sems("run", left["main"], 1, 0)
                         \/ Sems("pong", left["main"], 0, 0)
                         \/ Sems("run", left["main"] - 1, 0, 1)
  /\ at["main"] = "deletes" \/ ListRound \/ Late => Sems("run", 0, 0, 0)
  /\ ~("ping" \in deleted) \/ ListRound \/ Late

\* Where the list helper is, its rounds, the lengths of the two lists and the lock
\* that is held.
Lists(l, n, i, o, k) ==
  /\ at["listHelper"] = l /\ left["listHelper"] = n
  /\ lists["selfTestPing"] = i /\ lists["synchList"] = o
  /\ locked = k

\* The same for the lists; the item the helper has taken is the one main sent.
ListGame ==
  /\ Early \/ SemRound \/ at["main"] = "deletes" => Lists("new", 0, <<>>, <<>>, {})
  /\ ListRound => left["main"] > 0
  /\ at["main"] = "append" => Lists("run", left["main"], <<>>, <<>>, {})
  /\ at["main"] = "release1" =>
       Lists("run", left["main"], <<Val>>, <<>>, {"selfTestPing"})
  /\ at["main"] = "remove" =>
       \/ Lists("run", left["main"], <<Val>>, <<>>, {})
       \/ Lists("releasePing", left["main"], <<>>, <<>>, {"selfTestPing"})
       \/ Lists("append", left["main"], <<>>, <<>>, {})
       \/ Lists("releasePong", left["main"], <<>>, <<Val>>, {"synchList"})
       \/ Lists("run", left["main"] - 1, <<>>, <<Val>>, {})
  /\ at["main"] = "release2" =>
       Lists("run", left["main"] - 1, <<>>, <<>>, {"synchList"})
  /\ Late => Lists("run", 0, <<>>, <<>>, {})
  /\ at["listHelper"] \in {"releasePing", "append"} => taken = Val
  /\ ~("selfTestPing" \in deleted) \/ Late

MainSomewhere == Early \/ SemRound \/ at["main"] = "deletes" \/ ListRound \/ Late

TestInv == TestTypes /\ MainSomewhere /\ SemGame /\ ListGame

\* The names of the threads.
LEMMA ThreadNames ==
  \A t : t \in Tst!Threads <=> t \in {"main", "forked", "semHelper", "listHelper"}
BY Zenon DEF Tst!Threads, Tst!Main, Tst!Forked, Tst!SemHelper, Tst!ListHelper

\* The tests begin with no round to play.
LEMMA TestInvInit ==
  ASSUME Setting, Tst!Init
  PROVE  TestInv
<1> USE ThreadNames DEF Tst!Init, Tst!Main
<1>1. TestTypes
  <2>1. at \in [Tst!Threads -> Places]
    BY Zenon DEF Places
  <2>2. left \in [Tst!Threads -> Nat] /\ value \in [{"ping", "pong"} -> Nat]
    BY Zenon
  <2>3. lists \in [{"selfTestPing", "synchList"} -> Seq({Val})] /\ echoed \in Seq({Val})
    <3>1. <<>> \in Seq({Val})
      OBVIOUS
    <3> QED
      BY <3>1, Zenon
  <2> QED
    BY <2>1, <2>2, <2>3, Zenon DEF TestTypes
<1>2. at["main"] = "start" /\ at["semHelper"] = "new" /\ at["listHelper"] = "new"
  BY Zenon
<1>3. left["semHelper"] = 0 /\ left["listHelper"] = 0
  BY Zenon
<1> QED
  BY <1>1, <1>2, <1>3, Zenon
     DEF TestInv, MainSomewhere, SemGame, ListGame, Sems, Lists, Early, SemRound, ListRound, Late

\* Main is in SimpleThread with the forked thread.
LEMMA ThreadSelfTestTest ==
  ASSUME Setting, TestInv, Tst!ThreadSelfTest
  PROVE  TestInv'
<1> USE ThreadNames
    DEF Tst!ThreadSelfTest, Tst!Goes, Tst!Counts, Tst!Forks, Tst!Unchanged, Tst!Main, Tst!Forked, Tst!SemHelper,
            Tst!ListHelper, Setting, TestTypes
<1>0. Rounds \in Nat
  BY Zenon
<1>1. TestTypes'
  <2>1. at' \in [Tst!Threads -> Places]
    BY Zenon DEF TestInv, Places
  <2>2. left' \in [Tst!Threads -> Nat]
    BY <1>0, Zenon DEF TestInv, MainSomewhere, SemGame, Sems, Early, SemRound, ListRound, Late
  <2>3. value' \in [{"ping", "pong"} -> Nat]
    BY Zenon DEF TestInv
  <2>4. lists' = lists /\ echoed' = echoed
    BY Zenon
  <2> QED
    BY <2>1, <2>2, <2>3, <2>4, Zenon DEF TestInv
<1>2. MainSomewhere'
  BY Zenon DEF TestInv, MainSomewhere, Early, SemRound, ListRound, Late
<1>3. SemGame'
  BY Zenon DEF TestInv, SemGame, Sems, Early, SemRound, ListRound, Late
<1>4. ListGame'
  BY Zenon DEF TestInv, ListGame, Lists, Early, SemRound, ListRound, Late
<1> QED
  BY <1>1, <1>2, <1>3, <1>4, Zenon DEF TestInv

\* A round of SimpleThread changes nothing else.
LEMMA SimpleThreadTest ==
  ASSUME Setting, TestInv, NEW t \in {"main", "forked"}, Tst!SimpleThread(t)
  PROVE  TestInv'
<1> USE ThreadNames
    DEF Tst!SimpleThread, Tst!Goes, Tst!Counts, Tst!Forks, Tst!Unchanged, Tst!Main, Tst!Forked, Tst!SemHelper,
            Tst!ListHelper, Setting, TestTypes
<1>0. Rounds \in Nat
  BY Zenon
<1>1. TestTypes'
  <2>1. at' \in [Tst!Threads -> Places]
    BY Zenon DEF TestInv, Places
  <2>2. left' \in [Tst!Threads -> Nat]
    BY <1>0 DEF TestInv, MainSomewhere, SemGame, Sems, Early, SemRound, ListRound, Late
  <2>3. value' \in [{"ping", "pong"} -> Nat]
    BY Zenon DEF TestInv
  <2>4. lists' = lists /\ echoed' = echoed
    BY Zenon
  <2> QED
    BY <2>1, <2>2, <2>3, <2>4, Zenon DEF TestInv
<1>2. MainSomewhere'
  BY Zenon DEF TestInv, MainSomewhere, Early, SemRound, ListRound, Late
<1>3. SemGame'
  BY Zenon DEF TestInv, SemGame, Sems, Early, SemRound, ListRound, Late
<1>4. ListGame'
  BY Zenon DEF TestInv, ListGame, Lists, Early, SemRound, ListRound, Late
<1> QED
  BY <1>1, <1>2, <1>3, <1>4, Zenon DEF TestInv

\* The first round of the semaphores begins.
LEMMA SemSelfTestTest ==
  ASSUME Setting, TestInv, Tst!SemSelfTest
  PROVE  TestInv'
<1> USE ThreadNames
    DEF Tst!SemSelfTest, Tst!Goes, Tst!Counts, Tst!Forks, Tst!Unchanged, Tst!Main, Tst!Forked, Tst!SemHelper,
            Tst!ListHelper, Setting, TestTypes
<1>0. Rounds \in Nat
  BY Zenon
<1>1. TestTypes'
  <2>1. at' \in [Tst!Threads -> Places]
    BY Zenon DEF TestInv, Places
  <2>2. left' \in [Tst!Threads -> Nat]
    BY <1>0, Zenon DEF TestInv, MainSomewhere, SemGame, Sems, Early, SemRound, ListRound, Late
  <2>3. value' \in [{"ping", "pong"} -> Nat]
    BY Zenon DEF TestInv
  <2>4. lists' = lists /\ echoed' = echoed
    BY Zenon
  <2> QED
    BY <2>1, <2>2, <2>3, <2>4, Zenon DEF TestInv
<1>2. MainSomewhere'
  BY Zenon DEF TestInv, MainSomewhere, Early, SemRound, ListRound, Late
<1>3. SemGame'
  BY DEF TestInv, SemGame, Sems, Early, SemRound, ListRound, Late
<1>4. ListGame'
  BY Zenon DEF TestInv, ListGame, Lists, Early, SemRound, ListRound, Late
<1> QED
  BY <1>1, <1>2, <1>3, <1>4, Zenon DEF TestInv

\* The ball goes to ping.
LEMMA SemPingTest ==
  ASSUME Setting, TestInv, Tst!SemPing
  PROVE  TestInv'
<1> USE ThreadNames
    DEF Tst!SemPing, Tst!Goes, Tst!Counts, Tst!Forks, Tst!Unchanged, Tst!Main, Tst!Forked, Tst!SemHelper,
            Tst!ListHelper, Setting, TestTypes
<1>0. Rounds \in Nat
  BY Zenon
<1>1. TestTypes'
  <2>1. at' \in [Tst!Threads -> Places]
    BY Zenon DEF TestInv, Places
  <2>2. left' \in [Tst!Threads -> Nat]
    BY <1>0, Zenon DEF TestInv, MainSomewhere, SemGame, Sems, Early, SemRound, ListRound, Late
  <2>3. value' \in [{"ping", "pong"} -> Nat]
    BY DEF TestInv
  <2>4. lists' = lists /\ echoed' = echoed
    BY Zenon
  <2> QED
    BY <2>1, <2>2, <2>3, <2>4, Zenon DEF TestInv
<1>2. MainSomewhere'
  BY Zenon DEF TestInv, MainSomewhere, Early, SemRound, ListRound, Late
<1>3. SemGame'
  BY DEF TestInv, SemGame, Sems, Early, SemRound, ListRound, Late
<1>4. ListGame'
  BY Zenon DEF TestInv, ListGame, Lists, Early, SemRound, ListRound, Late
<1> QED
  BY <1>1, <1>2, <1>3, <1>4, Zenon DEF TestInv

\* The ball comes from pong; the last round ends with the helper's last.
LEMMA SemWaitTest ==
  ASSUME Setting, TestInv, Tst!SemWait
  PROVE  TestInv'
<1> USE ThreadNames
    DEF Tst!SemWait, Tst!Goes, Tst!Counts, Tst!Forks, Tst!Unchanged, Tst!Main, Tst!Forked, Tst!SemHelper,
            Tst!ListHelper, Setting, TestTypes
<1>0. Rounds \in Nat
  BY Zenon
<1>1. TestTypes'
  <2>1. at' \in [Tst!Threads -> Places]
    BY Zenon DEF TestInv, Places
  <2>2. left' \in [Tst!Threads -> Nat]
    BY <1>0 DEF TestInv, MainSomewhere, SemGame, Sems, Early, SemRound, ListRound, Late
  <2>3. value' \in [{"ping", "pong"} -> Nat]
    BY DEF TestInv
  <2>4. lists' = lists /\ echoed' = echoed
    BY Zenon
  <2> QED
    BY <2>1, <2>2, <2>3, <2>4, Zenon DEF TestInv
<1>2. MainSomewhere'
  BY Zenon DEF TestInv, MainSomewhere, Early, SemRound, ListRound, Late
<1>3. SemGame'
  BY DEF TestInv, SemGame, Sems, Early, SemRound, ListRound, Late
<1>4. ListGame'
  BY Zenon DEF TestInv, ListGame, Lists, Early, SemRound, ListRound, Late
<1> QED
  BY <1>1, <1>2, <1>3, <1>4, Zenon DEF TestInv

\* The helper takes the ball from ping.
LEMMA SemHelperWaitTest ==
  ASSUME Setting, TestInv, Tst!SemHelperWait
  PROVE  TestInv'
<1> USE ThreadNames
    DEF Tst!SemHelperWait, Tst!Goes, Tst!Counts, Tst!Forks, Tst!Unchanged, Tst!Main, Tst!Forked, Tst!SemHelper,
            Tst!ListHelper, Setting, TestTypes
<1>0. Rounds \in Nat
  BY Zenon
<1>1. TestTypes'
  <2>1. at' \in [Tst!Threads -> Places]
    BY Zenon DEF TestInv, Places
  <2>2. left' \in [Tst!Threads -> Nat]
    BY <1>0, Zenon DEF TestInv, MainSomewhere, SemGame, Sems, Early, SemRound, ListRound, Late
  <2>3. value' \in [{"ping", "pong"} -> Nat]
    BY DEF TestInv
  <2>4. lists' = lists /\ echoed' = echoed
    BY Zenon
  <2> QED
    BY <2>1, <2>2, <2>3, <2>4, Zenon DEF TestInv
<1>2. MainSomewhere'
  BY Zenon DEF TestInv, MainSomewhere, Early, SemRound, ListRound, Late
<1>3. SemGame'
  BY DEF TestInv, SemGame, Sems, Early, SemRound, ListRound, Late
<1>4. ListGame'
  BY Zenon DEF TestInv, ListGame, Lists, Early, SemRound, ListRound, Late
<1> QED
  BY <1>1, <1>2, <1>3, <1>4, Zenon DEF TestInv

\* The helper puts the ball into pong.
LEMMA SemHelperPongTest ==
  ASSUME Setting, TestInv, Tst!SemHelperPong
  PROVE  TestInv'
<1> USE ThreadNames
    DEF Tst!SemHelperPong, Tst!Goes, Tst!Counts, Tst!Forks, Tst!Unchanged, Tst!Main, Tst!Forked, Tst!SemHelper,
            Tst!ListHelper, Setting, TestTypes
<1>0. Rounds \in Nat
  BY Zenon
<1>1. TestTypes'
  <2>1. at' \in [Tst!Threads -> Places]
    BY Zenon DEF TestInv, Places
  <2>2. left' \in [Tst!Threads -> Nat]
    BY <1>0 DEF TestInv, MainSomewhere, SemGame, Sems, Early, SemRound, ListRound, Late
  <2>3. value' \in [{"ping", "pong"} -> Nat]
    BY DEF TestInv
  <2>4. lists' = lists /\ echoed' = echoed
    BY Zenon
  <2> QED
    BY <2>1, <2>2, <2>3, <2>4, Zenon DEF TestInv
<1>2. MainSomewhere'
  BY Zenon DEF TestInv, MainSomewhere, Early, SemRound, ListRound, Late
<1>3. SemGame'
  BY DEF TestInv, SemGame, Sems, Early, SemRound, ListRound, Late
<1>4. ListGame'
  BY Zenon DEF TestInv, ListGame, Lists, Early, SemRound, ListRound, Late
<1> QED
  BY <1>1, <1>2, <1>3, <1>4, Zenon DEF TestInv

\* The semaphores are deleted when the helper has no round left.
LEMMA ListSelfTestTest ==
  ASSUME Setting, TestInv, Tst!ListSelfTest
  PROVE  TestInv'
<1> USE ThreadNames
    DEF Tst!ListSelfTest, Tst!Goes, Tst!Counts, Tst!Forks, Tst!Unchanged, Tst!Main, Tst!Forked, Tst!SemHelper,
            Tst!ListHelper, Setting, TestTypes
<1>0. Rounds \in Nat
  BY Zenon
<1>1. TestTypes'
  <2>1. at' \in [Tst!Threads -> Places]
    <3>1. "append" \in Places /\ "run" \in Places
      BY Zenon DEF Places
    <3> QED
      BY <3>1, Zenon DEF TestInv
  <2>2. left' \in [Tst!Threads -> Nat]
    BY <1>0, Zenon DEF TestInv, MainSomewhere, SemGame, Sems, Early, SemRound, ListRound, Late
  <2>3. value' \in [{"ping", "pong"} -> Nat]
    BY Zenon DEF TestInv
  <2>4. lists' = lists /\ echoed' = echoed
    BY Zenon
  <2> QED
    BY <2>1, <2>2, <2>3, <2>4, Zenon DEF TestInv
<1>2. MainSomewhere'
  BY Zenon DEF TestInv, MainSomewhere, Early, SemRound, ListRound, Late
<1>3. SemGame'
  BY Zenon DEF TestInv, SemGame, Sems, Early, SemRound, ListRound, Late
<1>4. ListGame'
  BY DEF TestInv, ListGame, Lists, Early, SemRound, ListRound, Late
<1> QED
  BY <1>1, <1>2, <1>3, <1>4, Zenon DEF TestInv

\* The rounds of main over the lists.
LEMMA MainListTest ==
  ASSUME Setting, TestInv, Tst!MainList
  PROVE  TestInv'
<1> USE ThreadNames
    DEF Tst!MainList, Tst!Goes, Tst!Counts, Tst!Forks, Tst!Unchanged, Tst!Main, Tst!Forked, Tst!SemHelper,
            Tst!ListHelper, Setting, TestTypes
<1>0. Rounds \in Nat
  BY Zenon
<1>1. CASE /\ Tst!ListAppend(Tst!Main, "append", "selfTestPing", Val, "release1")
      /\ UNCHANGED <<left, value, taken, echoed, deleted>>
  <2> USE <1>1 DEF Tst!ListAppend
  <2>1. at' \in [Tst!Threads -> Places]
    BY Zenon DEF TestInv, Places
  <2>7. left' \in [Tst!Threads -> Nat]
    BY Zenon DEF TestInv, MainSomewhere, ListGame, Lists, Early, SemRound, ListRound, Late
  <2>8. Append(<<>>, Val) = <<Val>> /\ Head(<<Val>>) = Val /\ Tail(<<Val>>) = <<>>
    OBVIOUS
  <2>2. value' \in [{"ping", "pong"} -> Nat]
    BY Zenon DEF TestInv
  <2>3. lists' \in [{"selfTestPing", "synchList"} -> Seq({Val})] /\ echoed' \in Seq({Val})
    BY DEF TestInv, ListGame, Lists
  <2>4. MainSomewhere'
    BY Zenon DEF TestInv, MainSomewhere, Early, SemRound, ListRound, Late
  <2>5. SemGame'
    BY Zenon DEF TestInv, SemGame, Sems, Early, SemRound, ListRound, Late
  <2>9. lists["selfTestPing"] = <<>> /\ lists["synchList"] = <<>> /\ locked = {} /\ at["main"] = "append"
    BY Zenon DEF TestInv, ListGame, Lists, Early, SemRound, ListRound, Late, MainSomewhere
  <2>10. lists'["selfTestPing"] = <<Val>> /\ lists'["synchList"] = <<>> /\ locked' = {"selfTestPing"}
    <3>1. Val = Val
      BY Zenon DEF TestInv, ListGame
    <3> QED
      BY <2>8, <2>9, <3>1, SMT DEF TestInv
  <2>6. ListGame'
    BY <2>9, <2>10, Zenon DEF TestInv, ListGame, Lists, Early, SemRound, ListRound, Late
  <2> QED
    BY <2>1, <2>2, <2>3, <2>4, <2>5, <2>6, <2>7, Zenon DEF TestInv
<1>2. CASE /\ Tst!Release(Tst!Main, "release1", "selfTestPing", "remove") /\ UNCHANGED left
  <2> USE <1>2 DEF Tst!Release
  <2>1. at' \in [Tst!Threads -> Places]
    BY Zenon DEF TestInv, Places
  <2>7. left' \in [Tst!Threads -> Nat]
    BY Zenon DEF TestInv, MainSomewhere, ListGame, Lists, Early, SemRound, ListRound, Late
  <2>8. Append(<<>>, Val) = <<Val>> /\ Head(<<Val>>) = Val /\ Tail(<<Val>>) = <<>>
    OBVIOUS
  <2>2. value' \in [{"ping", "pong"} -> Nat]
    BY Zenon DEF TestInv
  <2>3. lists' \in [{"selfTestPing", "synchList"} -> Seq({Val})] /\ echoed' \in Seq({Val})
    BY Zenon DEF TestInv, ListGame, Lists
  <2>4. MainSomewhere'
    BY Zenon DEF TestInv, MainSomewhere, Early, SemRound, ListRound, Late
  <2>5. SemGame'
    BY Zenon DEF TestInv, SemGame, Sems, Early, SemRound, ListRound, Late
  <2>6. ListGame'
    BY <2>8, Zenon DEF TestInv, ListGame, Lists, Early, SemRound, ListRound, Late, MainSomewhere
  <2> QED
    BY <2>1, <2>2, <2>3, <2>4, <2>5, <2>6, <2>7, Zenon DEF TestInv
<1>3. CASE /\ Tst!ListRemove(Tst!Main, "remove", "synchList", "release2")
      /\ echoed' = Append(echoed, Head(lists["synchList"]))
      /\ UNCHANGED <<left, value, taken, deleted>>
  <2> USE <1>3 DEF Tst!ListRemove
  <2>1. at' \in [Tst!Threads -> Places]
    BY Zenon DEF TestInv, Places
  <2>7. left' \in [Tst!Threads -> Nat]
    BY Zenon DEF TestInv, MainSomewhere, ListGame, Lists, Early, SemRound, ListRound, Late
  <2>8. Append(<<>>, Val) = <<Val>> /\ Head(<<Val>>) = Val /\ Tail(<<Val>>) = <<>>
    OBVIOUS
  <2>2. value' \in [{"ping", "pong"} -> Nat]
    BY Zenon DEF TestInv
  <2>3. lists' \in [{"selfTestPing", "synchList"} -> Seq({Val})] /\ echoed' \in Seq({Val})
    BY DEF TestInv, ListGame, Lists
  <2>4. MainSomewhere'
    BY Zenon DEF TestInv, MainSomewhere, Early, SemRound, ListRound, Late
  <2>5. SemGame'
    BY Zenon DEF TestInv, SemGame, Sems, Early, SemRound, ListRound, Late
  <2>6. ListGame'
    BY <2>8, Zenon DEF TestInv, ListGame, Lists, Early, SemRound, ListRound, Late, MainSomewhere
  <2> QED
    BY <2>1, <2>2, <2>3, <2>4, <2>5, <2>6, <2>7, Zenon DEF TestInv
<1>4. CASE /\ Tst!Release(Tst!Main, "release2", "synchList",
                  IF left["main"] > 1 THEN "append" ELSE "deleteLists")
      /\ Tst!Counts(Tst!Main)
  <2> USE <1>4 DEF Tst!Release
  <2>1. at' \in [Tst!Threads -> Places]
    BY Zenon DEF TestInv, Places
  <2>7. left' \in [Tst!Threads -> Nat]
    BY Zenon DEF TestInv, MainSomewhere, ListGame, Lists, Early, SemRound, ListRound, Late
  <2>8. Append(<<>>, Val) = <<Val>> /\ Head(<<Val>>) = Val /\ Tail(<<Val>>) = <<>>
    OBVIOUS
  <2>2. value' \in [{"ping", "pong"} -> Nat]
    BY Zenon DEF TestInv
  <2>3. lists' \in [{"selfTestPing", "synchList"} -> Seq({Val})] /\ echoed' \in Seq({Val})
    BY Zenon DEF TestInv, ListGame, Lists
  <2>4. MainSomewhere'
    BY Zenon DEF TestInv, MainSomewhere, Early, SemRound, ListRound, Late
  <2>5. SemGame'
    BY Zenon DEF TestInv, SemGame, Sems, Early, SemRound, ListRound, Late
  <2>6. ListGame'
    BY <2>8 DEF TestInv, ListGame, Lists, Early, SemRound, ListRound, Late, MainSomewhere
  <2> QED
    BY <2>1, <2>2, <2>3, <2>4, <2>5, <2>6, <2>7, Zenon DEF TestInv
<1> QED
  BY <1>1, <1>2, <1>3, <1>4, Zenon

\* The rounds of the helper over the lists.
LEMMA HelperListTest ==
  ASSUME Setting, TestInv, Tst!HelperList
  PROVE  TestInv'
<1> USE ThreadNames
    DEF Tst!HelperList, Tst!Goes, Tst!Counts, Tst!Forks, Tst!Unchanged, Tst!Main, Tst!Forked, Tst!SemHelper,
            Tst!ListHelper, Setting, TestTypes
<1>0. Rounds \in Nat
  BY Zenon
<1>1. CASE /\ left["listHelper"] > 0
      /\ Tst!ListRemove(Tst!ListHelper, "run", "selfTestPing", "releasePing")
      /\ taken' = Head(lists["selfTestPing"])
      /\ UNCHANGED <<left, value, echoed, deleted>>
  <2> USE <1>1 DEF Tst!ListRemove
  <2>1. at' \in [Tst!Threads -> Places]
    BY Zenon DEF TestInv, Places
  <2>7. left' \in [Tst!Threads -> Nat]
    BY Zenon DEF TestInv, MainSomewhere, ListGame, Lists, Early, SemRound, ListRound, Late
  <2>8. Append(<<>>, Val) = <<Val>> /\ Head(<<Val>>) = Val /\ Tail(<<Val>>) = <<>>
    OBVIOUS
  <2>2. value' \in [{"ping", "pong"} -> Nat]
    BY Zenon DEF TestInv
  <2>3. lists' \in [{"selfTestPing", "synchList"} -> Seq({Val})] /\ echoed' \in Seq({Val})
    BY DEF TestInv, ListGame, Lists
  <2>4. MainSomewhere'
    BY Zenon DEF TestInv, MainSomewhere, Early, SemRound, ListRound, Late
  <2>5. SemGame'
    BY Zenon DEF TestInv, SemGame, Sems, Early, SemRound, ListRound, Late
  <2>6. ListGame'
    BY <2>8, Zenon DEF TestInv, ListGame, Lists, Early, SemRound, ListRound, Late, MainSomewhere
  <2> QED
    BY <2>1, <2>2, <2>3, <2>4, <2>5, <2>6, <2>7, Zenon DEF TestInv
<1>2. CASE /\ Tst!Release(Tst!ListHelper, "releasePing", "selfTestPing", "append") /\ UNCHANGED left
  <2> USE <1>2 DEF Tst!Release
  <2>1. at' \in [Tst!Threads -> Places]
    BY Zenon DEF TestInv, Places
  <2>7. left' \in [Tst!Threads -> Nat]
    BY Zenon DEF TestInv, MainSomewhere, ListGame, Lists, Early, SemRound, ListRound, Late
  <2>8. Append(<<>>, Val) = <<Val>> /\ Head(<<Val>>) = Val /\ Tail(<<Val>>) = <<>>
    OBVIOUS
  <2>2. value' \in [{"ping", "pong"} -> Nat]
    BY Zenon DEF TestInv
  <2>3. lists' \in [{"selfTestPing", "synchList"} -> Seq({Val})] /\ echoed' \in Seq({Val})
    BY Zenon DEF TestInv, ListGame, Lists
  <2>4. MainSomewhere'
    BY Zenon DEF TestInv, MainSomewhere, Early, SemRound, ListRound, Late
  <2>5. SemGame'
    BY Zenon DEF TestInv, SemGame, Sems, Early, SemRound, ListRound, Late
  <2>6. ListGame'
    BY <2>8, Zenon DEF TestInv, ListGame, Lists, Early, SemRound, ListRound, Late, MainSomewhere
  <2> QED
    BY <2>1, <2>2, <2>3, <2>4, <2>5, <2>6, <2>7, Zenon DEF TestInv
<1>3. CASE /\ Tst!ListAppend(Tst!ListHelper, "append", "synchList", taken, "releasePong")
      /\ UNCHANGED <<left, value, taken, echoed, deleted>>
  <2> USE <1>3 DEF Tst!ListAppend
  <2>1. at' \in [Tst!Threads -> Places]
    BY Zenon DEF TestInv, Places
  <2>7. left' \in [Tst!Threads -> Nat]
    BY Zenon DEF TestInv, MainSomewhere, ListGame, Lists, Early, SemRound, ListRound, Late
  <2>8. Append(<<>>, Val) = <<Val>> /\ Head(<<Val>>) = Val /\ Tail(<<Val>>) = <<>>
    OBVIOUS
  <2>2. value' \in [{"ping", "pong"} -> Nat]
    BY Zenon DEF TestInv
  <2>3. lists' \in [{"selfTestPing", "synchList"} -> Seq({Val})] /\ echoed' \in Seq({Val})
    BY DEF TestInv, ListGame, Lists
  <2>4. MainSomewhere'
    BY Zenon DEF TestInv, MainSomewhere, Early, SemRound, ListRound, Late
  <2>5. SemGame'
    BY Zenon DEF TestInv, SemGame, Sems, Early, SemRound, ListRound, Late
  <2>9. lists["selfTestPing"] = <<>> /\ lists["synchList"] = <<>> /\ locked = {} /\ at["main"] = "remove"
    BY Zenon DEF TestInv, ListGame, Lists, Early, SemRound, ListRound, Late, MainSomewhere
  <2>10. lists'["synchList"] = <<Val>> /\ lists'["selfTestPing"] = <<>> /\ locked' = {"synchList"}
    <3>1. taken = Val
      BY Zenon DEF TestInv, ListGame
    <3> QED
      BY <2>8, <2>9, <3>1, SMT DEF TestInv
  <2>6. ListGame'
    BY <2>9, <2>10, Zenon DEF TestInv, ListGame, Lists, Early, SemRound, ListRound, Late
  <2> QED
    BY <2>1, <2>2, <2>3, <2>4, <2>5, <2>6, <2>7, Zenon DEF TestInv
<1>4. CASE /\ Tst!Release(Tst!ListHelper, "releasePong", "synchList", "run") /\ Tst!Counts(Tst!ListHelper)
  <2> USE <1>4 DEF Tst!Release
  <2>1. at' \in [Tst!Threads -> Places]
    BY Zenon DEF TestInv, Places
  <2>7. left' \in [Tst!Threads -> Nat]
    BY DEF TestInv, MainSomewhere, ListGame, Lists, Early, SemRound, ListRound, Late
  <2>8. Append(<<>>, Val) = <<Val>> /\ Head(<<Val>>) = Val /\ Tail(<<Val>>) = <<>>
    OBVIOUS
  <2>2. value' \in [{"ping", "pong"} -> Nat]
    BY Zenon DEF TestInv
  <2>3. lists' \in [{"selfTestPing", "synchList"} -> Seq({Val})] /\ echoed' \in Seq({Val})
    BY Zenon DEF TestInv, ListGame, Lists
  <2>4. MainSomewhere'
    BY Zenon DEF TestInv, MainSomewhere, Early, SemRound, ListRound, Late
  <2>5. SemGame'
    BY Zenon DEF TestInv, SemGame, Sems, Early, SemRound, ListRound, Late
  <2>6. ListGame'
    BY <2>8, Zenon DEF TestInv, ListGame, Lists, Early, SemRound, ListRound, Late, MainSomewhere
  <2> QED
    BY <2>1, <2>2, <2>3, <2>4, <2>5, <2>6, <2>7, Zenon DEF TestInv
<1> QED
  BY <1>1, <1>2, <1>3, <1>4, Zenon

\* The lists are deleted when the helper has no round left.
LEMMA DeleteListsTest ==
  ASSUME Setting, TestInv, Tst!DeleteLists
  PROVE  TestInv'
<1> USE ThreadNames
    DEF Tst!DeleteLists, Tst!Goes, Tst!Counts, Tst!Forks, Tst!Unchanged, Tst!Main, Tst!Forked, Tst!SemHelper,
            Tst!ListHelper, Setting, TestTypes
<1>0. Rounds \in Nat
  BY Zenon
<1>1. TestTypes'
  <2>1. at' \in [Tst!Threads -> Places]
    BY Zenon DEF TestInv, Places
  <2>2. left' \in [Tst!Threads -> Nat]
    BY <1>0, Zenon DEF TestInv, MainSomewhere, SemGame, Sems, Early, SemRound, ListRound, Late
  <2>3. value' \in [{"ping", "pong"} -> Nat]
    BY Zenon DEF TestInv
  <2>4. lists' = lists /\ echoed' = echoed
    BY Zenon
  <2> QED
    BY <2>1, <2>2, <2>3, <2>4, Zenon DEF TestInv
<1>2. MainSomewhere'
  BY Zenon DEF TestInv, MainSomewhere, Early, SemRound, ListRound, Late
<1>3. SemGame'
  BY Zenon DEF TestInv, SemGame, Sems, Early, SemRound, ListRound, Late
<1>4. ListGame'
  BY Zenon DEF TestInv, ListGame, Lists, Early, SemRound, ListRound, Late
<1> QED
  BY <1>1, <1>2, <1>3, <1>4, Zenon DEF TestInv

\* Every step of the tests keeps the invariant.
LEMMA TestInvNext ==
  ASSUME Setting, TestInv, [Tst!Next]_(Tst!vars)
  PROVE  TestInv'
<1>1. CASE UNCHANGED Tst!vars
  BY <1>1, Zenon DEF Tst!vars, TestInv, TestTypes, MainSomewhere, SemGame, ListGame, Sems, Lists,
              Early, SemRound, ListRound, Late
<1>2. CASE Tst!SimpleThread(Tst!Main) \/ Tst!SimpleThread(Tst!Forked)
  BY <1>2, SimpleThreadTest, Zenon DEF Tst!Main, Tst!Forked
<1> QED
  BY <1>1, <1>2, ThreadSelfTestTest, SemSelfTestTest, SemPingTest, SemWaitTest,
     SemHelperWaitTest, SemHelperPongTest, ListSelfTestTest, MainListTest, HelperListTest,
     DeleteListsTest, Zenon DEF Tst!Next

\* Kernel::ThreadSelfTest, for any number of rounds: main deletes the semaphores and
\* the lists only after the helpers' last round, gets back every value as it sent it,
\* and no side is ever more than one round ahead.
THEOREM TestsSoundCorrect ==
  ASSUME Setting
  PROVE  Tst!Spec => []Tst!TestsSound
<1>1. Tst!Init => TestInv
  BY TestInvInit, Zenon
<1>2. TestInv /\ [Tst!Next]_(Tst!vars) => TestInv'
  BY TestInvNext, Zenon
<1>3. TestInv => Tst!TestsSound
  BY DEF Tst!TestsSound, TestInv, TestTypes, SemGame, ListGame, Sems, Lists, SemRound,
         ListRound, Late, Tst!Main, Tst!SemHelper, Tst!ListHelper
<1> QED
  BY <1>1, <1>2, <1>3, PTL DEF Tst!Spec

-----------------------------------------------------------------------------
(* The semaphores of user programs, for any number of processes, names and *)
(* slots: no two slots have one name, and the table implements module      *)
(* NamedSemaphores.                                                        *)

CONSTANTS Process, Name, MaxSemaphore, InitialValue, NoSem, MaxValue
VARIABLES mSemBitMap, semTable, count, queue, ret

Smt == INSTANCE SemTable WITH value <- count

\* What the kernel gives: a number of slots, a NULL that is no name, and ints.
SemSetting ==
  /\ MaxSemaphore \in Nat
  /\ NoSem \notin Name
  /\ InitialValue \subseteq Int

\* The inductive invariant: a slot that was never given out has nobody in a P.
SemStructure ==
  /\ Smt!TypeOK
  /\ Smt!OneSemPerName
  /\ \A i \in Smt!Slot : i \notin mSemBitMap => queue[i] = {}

\* The names that stand for a semaphore.
Created == {semTable[i] : i \in mSemBitMap}

-----------------------------------------------------------------------------
\* A set of natural numbers that is not empty has a least element: Bitmap::FindAndSet
\* returns a clear bit, and the loops of Wait and Signal stop at a match.
LEMMA LeastIn ==
  ASSUME NEW T, T \subseteq Nat, T # {}
  PROVE  Smt!Min(T) \in T
<1> DEFINE R == {ss \in Nat \X Nat : ss[1] < ss[2]}
<1>1. IsWellFoundedOn(R, Nat)
  BY NatLessThanWellFounded, Zenon DEF OpToRel
<1>2. PICK x \in T : \A y \in T : <<y, x>> \notin R
  BY <1>1, WFMin, Zenon
<1>3. \A y \in T : x <= y
  <2> TAKE y \in T
  <2>1. x \in Nat /\ y \in Nat
    BY Zenon
  <2>2. y < x => <<y, x>> \in R
    BY <2>1, Zenon
  <2> QED
    BY <1>2, <2>1, <2>2
<1> QED
  BY <1>3, Zenon DEF Smt!Min

\* The free slot Create takes is one, and is free.
LEMMA FreeSlot ==
  ASSUME SemSetting, SemStructure, mSemBitMap # Smt!Slot
  PROVE  Smt!Min(Smt!Slot \ mSemBitMap) \in Smt!Slot \ mSemBitMap
<1>1. Smt!Slot \subseteq Nat /\ mSemBitMap \subseteq Smt!Slot
  BY DEF SemSetting, Smt!Slot, SemStructure, Smt!TypeOK
<1> QED
  BY <1>1, LeastIn, Zenon

\* The slot Wait and Signal find for a name is in use and has that name.
LEMMA Found ==
  ASSUME SemSetting, SemStructure, NEW n, Smt!Matches(n) # {}
  PROVE  /\ Smt!Min(Smt!Matches(n)) \in mSemBitMap
         /\ Smt!Min(Smt!Matches(n)) \in Smt!Slot
         /\ semTable[Smt!Min(Smt!Matches(n))] = n
<1>1. Smt!Slot \subseteq Nat /\ mSemBitMap \subseteq Smt!Slot
  BY DEF SemSetting, Smt!Slot, SemStructure, Smt!TypeOK
<1>2. Smt!Matches(n) \subseteq Nat
  BY <1>1, Zenon DEF Smt!Matches
<1>3. Smt!Min(Smt!Matches(n)) \in Smt!Matches(n)
  BY <1>2, LeastIn, Zenon
<1> QED
  BY <1>1, <1>3, Zenon DEF Smt!Matches

\* A slot in use is the one Wait and Signal find for its name.
LEMMA SlotOf ==
  ASSUME SemSetting, SemStructure, NEW i \in mSemBitMap
  PROVE  /\ Smt!Matches(semTable[i]) # {}
         /\ Smt!Min(Smt!Matches(semTable[i])) = i
         /\ semTable[i] \in Name
<1>1. i \in Smt!Matches(semTable[i])
  BY Zenon DEF Smt!Matches
<1>2. Smt!Min(Smt!Matches(semTable[i])) = i
  BY <1>1, Found DEF SemStructure, Smt!OneSemPerName
<1> QED
  BY <1>1, <1>2, Zenon DEF SemStructure, Smt!OneSemPerName, Smt!TypeOK

-----------------------------------------------------------------------------
\* The table starts empty, as STable::STable leaves it.
LEMMA SemStructureInit ==
  ASSUME SemSetting, Smt!Init
  PROVE  SemStructure
<1>1. mSemBitMap \subseteq Smt!Slot /\ semTable \in [Smt!Slot -> Name \cup {NoSem}]
  BY Zenon DEF Smt!Init
<1>2. count \in [Smt!Slot -> IF InitialValue \subseteq Nat THEN Nat ELSE Int]
  BY DEF Smt!Init
<1>3. queue \in [Smt!Slot -> SUBSET Process] /\ ret \in [Process -> Smt!Slot \cup {-1, 1}]
  BY Zenon DEF Smt!Init
<1>4. Smt!OneSemPerName
  BY Zenon DEF Smt!Init, Smt!OneSemPerName
<1> QED
  BY <1>1, <1>2, <1>3, <1>4, Zenon DEF Smt!Init, SemStructure, Smt!TypeOK

\* Create of a new name keeps the invariant.
LEMMA CreateStep ==
  ASSUME SemSetting, SemStructure, NEW p \in Process, NEW n \in Name, NEW v \in InitialValue,
         Smt!Create(p, n, v)
  PROVE  SemStructure'
<1> DEFINE idx == Smt!Min(Smt!Slot \ mSemBitMap)
<1>1. idx \in Smt!Slot /\ idx \notin mSemBitMap
  BY FreeSlot, Zenon DEF Smt!Create
<1>2. /\ mSemBitMap' = mSemBitMap \cup {idx}
      /\ semTable' = [semTable EXCEPT ![idx] = n]
      /\ count' = [count EXCEPT ![idx] = v]
      /\ ret' = [ret EXCEPT ![p] = idx]
      /\ queue' = queue
      /\ \A i \in mSemBitMap : semTable[i] # n
  BY Zenon DEF Smt!Create, Smt!Return, Smt!Matches
<1> HIDE DEF idx
<1>3. count' \in [Smt!Slot -> IF InitialValue \subseteq Nat THEN Nat ELSE Int]
  BY <1>1, <1>2, Zenon DEF SemStructure, Smt!TypeOK, SemSetting
<1>4. Smt!TypeOK'
  BY <1>1, <1>2, <1>3, Zenon DEF SemStructure, Smt!TypeOK
<1>5. \A i \in Smt!Slot : semTable'[i] = IF i = idx THEN n ELSE semTable[i]
  BY <1>2, Zenon DEF SemStructure, Smt!TypeOK
<1>6. Smt!OneSemPerName'
  BY <1>1, <1>2, <1>5 DEF SemStructure, Smt!TypeOK, Smt!OneSemPerName, SemSetting
<1> QED
  BY <1>1, <1>2, <1>4, <1>6, Zenon DEF SemStructure

\* The other calls move units and processes, and no name.
LEMMA OtherStep ==
  ASSUME SemSetting, SemStructure, UNCHANGED <<mSemBitMap, semTable>>,
         count' \in [Smt!Slot -> IF InitialValue \subseteq Nat THEN Nat ELSE Int],
         queue' \in [Smt!Slot -> SUBSET Process],
         ret' \in [Process -> Smt!Slot \cup {-1, 1}],
         \A i \in Smt!Slot : i \notin mSemBitMap => queue'[i] = {}
  PROVE  SemStructure'
<1>1. Smt!TypeOK' /\ Smt!OneSemPerName'
  BY Zenon DEF SemStructure, Smt!TypeOK, Smt!OneSemPerName
<1> QED
  BY <1>1, Zenon DEF SemStructure

\* Every step keeps the invariant.
LEMMA SemStructureNext ==
  ASSUME SemSetting, SemStructure, [Smt!Next]_(Smt!vars)
  PROVE  SemStructure'
<1> DEFINE Value == IF InitialValue \subseteq Nat THEN Nat ELSE Int
<1>1. /\ count \in [Smt!Slot -> Value] /\ queue \in [Smt!Slot -> SUBSET Process]
      /\ ret \in [Process -> Smt!Slot \cup {-1, 1}]
      /\ \A i \in Smt!Slot : i \notin mSemBitMap => queue[i] = {}
  BY Zenon DEF SemStructure, Smt!TypeOK
<1>2. \A u \in Value : u + 1 \in Value /\ (u # 0 => u - 1 \in Value)
  OBVIOUS
<1>3. ASSUME count' \in [Smt!Slot -> Value], queue' \in [Smt!Slot -> SUBSET Process],
             ret' \in [Process -> Smt!Slot \cup {-1, 1}], UNCHANGED <<mSemBitMap, semTable>>,
             \A i \in Smt!Slot : i \notin mSemBitMap => queue'[i] = {}
      PROVE  SemStructure'
  BY <1>3, OtherStep, Zenon
<1> HIDE DEF Value
<1>4. CASE UNCHANGED Smt!vars
  BY <1>1, <1>3, <1>4, Zenon DEF Smt!vars
<1>5. ASSUME NEW p \in Process, NEW n \in Name, NEW v \in InitialValue, Smt!Create(p, n, v)
      PROVE  SemStructure'
  BY <1>5, CreateStep, Zenon
<1>6. ASSUME NEW p \in Process, NEW n \in Name, Smt!CreateRefuse(p, n) \/ Smt!Unknown(p, n)
      PROVE  SemStructure'
  BY <1>1, <1>3, <1>6, Zenon DEF Smt!CreateRefuse, Smt!Unknown, Smt!Return
<1>7. ASSUME NEW p \in Process, NEW n \in Name,
             Smt!WaitTake(p, n) \/ Smt!WaitBlock(p, n) \/ Smt!Signal(p, n)
      PROVE  SemStructure'
  <2> DEFINE i == Smt!Min(Smt!Matches(n))
  <2>1. i \in Smt!Slot /\ i \in mSemBitMap
    BY <1>7, Found, Zenon DEF Smt!WaitTake, Smt!WaitBlock, Smt!Signal
  <2>2. CASE Smt!WaitTake(p, n)
    <3>1. count[i] # 0 /\ count' = [count EXCEPT ![i] = @ - 1]
      BY <2>2, Zenon DEF Smt!WaitTake
    <3>2. UNCHANGED <<mSemBitMap, semTable, queue>> /\ ret' = [ret EXCEPT ![p] = 1]
      BY <2>2, Zenon DEF Smt!WaitTake, Smt!Return
    <3> HIDE DEF i
    <3> QED
      BY <1>1, <1>2, <1>3, <2>1, <3>1, <3>2, Zenon
  <2>3. CASE Smt!WaitBlock(p, n)
    <3>1. /\ queue' = [queue EXCEPT ![i] = @ \cup {p}]
          /\ UNCHANGED <<mSemBitMap, semTable, count, ret>>
      BY <2>3, Zenon DEF Smt!WaitBlock
    <3> HIDE DEF i
    <3> QED
      BY <1>1, <1>3, <2>1, <3>1, Zenon
  <2>4. CASE Smt!Signal(p, n)
    <3>1. count' = [count EXCEPT ![i] = @ + 1]
      BY <2>4, Zenon DEF Smt!Signal
    <3>2. UNCHANGED <<mSemBitMap, semTable, queue>> /\ ret' = [ret EXCEPT ![p] = 1]
      BY <2>4, Zenon DEF Smt!Signal, Smt!Return
    <3> HIDE DEF i
    <3> QED
      BY <1>1, <1>2, <1>3, <2>1, <3>1, <3>2, Zenon
  <2> QED
    BY <1>7, <2>2, <2>3, <2>4, Zenon
<1>8. ASSUME NEW p \in Process, NEW i \in Smt!Slot, Smt!Woken(p, i)
      PROVE  SemStructure'
  BY <1>1, <1>2, <1>3, <1>8, Zenon DEF Smt!Woken, Smt!Return
<1> QED
  BY <1>4, <1>5, <1>6, <1>7, <1>8, Zenon DEF Smt!Next

\* Every variable of the table keeps its type, whatever the programs call: with
\* initial values that are not negative no semaphore goes below zero.
THEOREM SemTypeCorrect ==
  ASSUME SemSetting
  PROVE  Smt!Spec => []Smt!TypeOK
<1>1. Smt!Init => SemStructure
  BY SemStructureInit, Zenon
<1>2. SemStructure /\ [Smt!Next]_(Smt!vars) => SemStructure'
  BY SemStructureNext, Zenon
<1>3. SemStructure => Smt!TypeOK
  BY Zenon DEF SemStructure
<1> QED
  BY <1>1, <1>2, <1>3, PTL DEF Smt!Spec

\* No two slots of STable have one name, whatever the order in which processes
\* create them, and a slot is marked in the bitmap exactly when it has a Sem.
THEOREM OneSemPerNameCorrect ==
  ASSUME SemSetting
  PROVE  Smt!Spec => []Smt!OneSemPerName
<1>1. Smt!Init => SemStructure
  BY SemStructureInit, Zenon
<1>2. SemStructure /\ [Smt!Next]_(Smt!vars) => SemStructure'
  BY SemStructureNext, Zenon
<1>3. SemStructure => Smt!OneSemPerName
  BY Zenon DEF SemStructure
<1> QED
  BY <1>1, <1>2, <1>3, PTL DEF Smt!Spec

-----------------------------------------------------------------------------
(* The refinement: what a name stands for is what its one slot holds.      *)

Units == [n \in Name |-> Smt!UnitsOf(n)]
BlockedIn == [n \in Name |-> Smt!BlockedOn(n)]

\* A name without a slot has no units and nobody waits for it; a name with one has
\* what the slot has.
LEMMA SlotOfName ==
  ASSUME SemSetting, SemStructure
  PROVE  /\ \A i \in mSemBitMap : /\ semTable[i] \in Name
                                  /\ Units[semTable[i]] = count[i]
                                  /\ BlockedIn[semTable[i]] = queue[i]
         /\ \A n \in Name : n \in Created <=> Smt!Matches(n) # {}
<1>1. ASSUME NEW i \in mSemBitMap
      PROVE  /\ semTable[i] \in Name
             /\ Units[semTable[i]] = count[i]
             /\ BlockedIn[semTable[i]] = queue[i]
  <2>1. /\ semTable[i] \in Name /\ Smt!Matches(semTable[i]) # {}
        /\ Smt!Min(Smt!Matches(semTable[i])) = i
    BY SlotOf, Zenon
  <2> QED
    BY <2>1, Zenon DEF Units, BlockedIn, Smt!UnitsOf, Smt!BlockedOn
<1>2. ASSUME NEW n \in Name
      PROVE  n \in Created <=> Smt!Matches(n) # {}
  BY Zenon DEF Created, Smt!Matches
<1> QED
  BY <1>1, <1>2, Zenon

\* A process inside a P waits for a name.
LEMMA WaitingIsBlocked ==
  ASSUME SemSetting, SemStructure, NEW p \in Process
  PROVE  (\E n \in Name : p \in BlockedIn[n]) => Smt!Waiting(p)
<1> SUFFICES ASSUME NEW n \in Name, p \in BlockedIn[n]
             PROVE  Smt!Waiting(p)
  BY Zenon
<1>1. Smt!Matches(n) # {} /\ p \in queue[Smt!Min(Smt!Matches(n))]
  BY Zenon DEF BlockedIn, Smt!BlockedOn
<1> QED
  BY <1>1, Found, Zenon DEF Smt!Waiting

\* While a slot is free, fewer than MaxSemaphore names exist.
LEMMA RoomLeft ==
  ASSUME SemSetting, SemStructure, mSemBitMap # Smt!Slot
  PROVE  Cardinality(Created) < MaxSemaphore
<1>1. IsFiniteSet(Smt!Slot) /\ Cardinality(Smt!Slot) = MaxSemaphore
  <2>1. 0 \in Int /\ MaxSemaphore - 1 \in Int /\ MaxSemaphore \in Nat
    BY DEF SemSetting
  <2>2. /\ IsFiniteSet(0 .. MaxSemaphore - 1)
        /\ Cardinality(0 .. MaxSemaphore - 1)
             = IF 0 > MaxSemaphore - 1 THEN 0 ELSE (MaxSemaphore - 1) - 0 + 1
    BY <2>1, FS_Interval, Zenon
  <2> QED
    BY <2>1, <2>2 DEF Smt!Slot
<1>2. /\ IsFiniteSet(mSemBitMap) /\ Cardinality(mSemBitMap) \in Nat
      /\ Cardinality(mSemBitMap) < MaxSemaphore
  <2>1. mSemBitMap \in SUBSET Smt!Slot
    BY Zenon DEF SemStructure, Smt!TypeOK
  <2>2. /\ IsFiniteSet(mSemBitMap) /\ Cardinality(mSemBitMap) <= MaxSemaphore
        /\ Cardinality(mSemBitMap) # MaxSemaphore
    BY <1>1, <2>1, FS_Subset, Zenon
  <2> QED
    BY <2>2, FS_CardinalityType DEF SemSetting
<1>3. [i \in mSemBitMap |-> semTable[i]] \in Surjection(mSemBitMap, Created)
  BY Zenon DEF Created, Surjection
<1>4. IsFiniteSet(Created) /\ Cardinality(Created) <= Cardinality(mSemBitMap)
  BY <1>2, <1>3, FS_Surjection, Zenon
<1> QED
  BY <1>2, <1>4, FS_CardinalityType DEF SemSetting

\* A step of a known name: what Wait, Signal and a woken P do to its slot, they do to
\* the name.
LEMMA NamesKept ==
  ASSUME UNCHANGED <<mSemBitMap, semTable>>
  PROVE  /\ Created' = Created
         /\ \A n \in Name : Smt!Matches(n)' = Smt!Matches(n)
  BY Zenon DEF Created, Smt!Matches

\* A step that changes the units or the queue of one slot changes those of its name.
LEMMA OneName ==
  ASSUME SemSetting, SemStructure, UNCHANGED <<mSemBitMap, semTable>>,
         NEW i \in mSemBitMap, NEW u, NEW q,
         count' = [count EXCEPT ![i] = u], queue' = [queue EXCEPT ![i] = q]
  PROVE  /\ Units' = [Units EXCEPT ![semTable[i]] = u]
         /\ BlockedIn' = [BlockedIn EXCEPT ![semTable[i]] = q]
<1> DEFINE n == semTable[i]
<1>1. /\ Smt!Matches(n) # {} /\ Smt!Min(Smt!Matches(n)) = i /\ n \in Name /\ i \in Smt!Slot
  BY SlotOf, Zenon DEF SemStructure, Smt!TypeOK
<1>2. ASSUME NEW k \in Name
      PROVE  /\ Smt!UnitsOf(k)' = IF k = n THEN u ELSE Smt!UnitsOf(k)
             /\ Smt!BlockedOn(k)' = IF k = n THEN q ELSE Smt!BlockedOn(k)
  <2>1. Smt!Matches(k)' = Smt!Matches(k)
    BY NamesKept, Zenon
  <2>2. k # n /\ Smt!Matches(k) # {} => Smt!Min(Smt!Matches(k)) # i /\ Smt!Min(Smt!Matches(k)) \in Smt!Slot
    BY Found, Zenon
  <2>3. /\ Smt!UnitsOf(k)' = IF Smt!Matches(k) = {} THEN 0 ELSE count'[Smt!Min(Smt!Matches(k))]
        /\ Smt!BlockedOn(k)' = IF Smt!Matches(k) = {} THEN {} ELSE queue'[Smt!Min(Smt!Matches(k))]
    BY <2>1 DEF Smt!UnitsOf, Smt!BlockedOn
  <2> QED
    BY <1>1, <2>2, <2>3, Zenon DEF Smt!UnitsOf, Smt!BlockedOn, SemStructure, Smt!TypeOK
<1>3. /\ Units' = [k \in Name |-> Smt!UnitsOf(k)']
      /\ BlockedIn' = [k \in Name |-> Smt!BlockedOn(k)']
  BY Zenon DEF Units, BlockedIn
<1> HIDE DEF n
<1>4. /\ Units' = [Units EXCEPT ![n] = u]
      /\ BlockedIn' = [BlockedIn EXCEPT ![n] = q]
  BY <1>2, <1>3, Zenon DEF Units, BlockedIn
<1> QED
  BY <1>4, Zenon DEF n

\* Create gives a new name its units, and nobody waits for it yet.
LEMMA NewName ==
  ASSUME SemSetting, SemStructure, NEW p \in Process, NEW n \in Name, NEW v \in InitialValue,
         Smt!Create(p, n, v)
  PROVE  /\ n \notin Created
         /\ Created' = Created \cup {n}
         /\ Units' = [Units EXCEPT ![n] = v]
         /\ BlockedIn' = BlockedIn
<1> DEFINE idx == Smt!Min(Smt!Slot \ mSemBitMap)
<1>1. idx \in Smt!Slot /\ idx \notin mSemBitMap /\ idx \in Nat
  <2>1. idx \in Smt!Slot \ mSemBitMap
    BY FreeSlot, Zenon DEF Smt!Create
  <2>2. Smt!Slot \subseteq Nat
    BY DEF SemSetting, Smt!Slot
  <2> HIDE DEF idx
  <2> QED
    BY <2>1, <2>2, Zenon
<1>2. /\ mSemBitMap' = mSemBitMap \cup {idx}
      /\ semTable' = [semTable EXCEPT ![idx] = n]
      /\ count' = [count EXCEPT ![idx] = v]
      /\ queue' = queue
      /\ Smt!Matches(n) = {}
  BY Zenon DEF Smt!Create
<1> HIDE DEF idx
<1>3. /\ mSemBitMap \subseteq Smt!Slot
      /\ \A i \in Smt!Slot : semTable'[i] = IF i = idx THEN n ELSE semTable[i]
      /\ \A i \in Smt!Slot : count'[i] = IF i = idx THEN v ELSE count[i]
      /\ queue[idx] = {}
  BY <1>1, <1>2, Zenon DEF SemStructure, Smt!TypeOK
<1>4. n \notin Created /\ Created' = Created \cup {n}
  BY <1>1, <1>2, <1>3 DEF Created, Smt!Matches
<1>5. Smt!Matches(n)' = {idx}
  BY <1>1, <1>2, <1>3, Zenon DEF Smt!Matches
<1>6. \A k \in Name : k # n => Smt!Matches(k)' = Smt!Matches(k)
  BY <1>1, <1>2, <1>3, Zenon DEF Smt!Matches
<1>7. Smt!Min({idx}) = idx
  BY <1>1, LeastIn
<1>8. ASSUME NEW k \in Name
      PROVE  /\ Smt!UnitsOf(k)' = IF k = n THEN v ELSE Smt!UnitsOf(k)
             /\ Smt!BlockedOn(k)' = Smt!BlockedOn(k)
  <2>1. CASE k = n
    <3>1. Smt!UnitsOf(n)' = count'[idx] /\ Smt!BlockedOn(n)' = queue'[idx]
      BY <1>5, <1>7, Zenon DEF Smt!UnitsOf, Smt!BlockedOn
    <3>2. Smt!BlockedOn(n) = {}
      BY <1>2, Zenon DEF Smt!BlockedOn
    <3> QED
      BY <1>1, <1>2, <1>3, <2>1, <3>1, <3>2, Zenon
  <2>2. CASE k # n
    <3>1. /\ Smt!UnitsOf(k)' = IF Smt!Matches(k) = {} THEN 0 ELSE count'[Smt!Min(Smt!Matches(k))]
          /\ Smt!BlockedOn(k)' = IF Smt!Matches(k) = {} THEN {} ELSE queue'[Smt!Min(Smt!Matches(k))]
      BY <1>6, <2>2, Zenon DEF Smt!UnitsOf, Smt!BlockedOn
    <3>2. Smt!Matches(k) # {} => Smt!Min(Smt!Matches(k)) \in mSemBitMap
      BY Found, Zenon
    <3> QED
      BY <1>1, <1>2, <1>3, <2>2, <3>1, <3>2, Zenon DEF Smt!UnitsOf, Smt!BlockedOn
  <2> QED
    BY <2>1, <2>2, Zenon
<1>9. /\ Units' = [k \in Name |-> Smt!UnitsOf(k)']
      /\ BlockedIn' = [k \in Name |-> Smt!BlockedOn(k)']
  BY Zenon DEF Units, BlockedIn
<1>10. Units' = [Units EXCEPT ![n] = v] /\ BlockedIn' = BlockedIn
  BY <1>8, <1>9, Zenon DEF Units, BlockedIn
<1> QED
  BY <1>4, <1>10, Zenon

\* Every call of CreateSemaphore, Wait or Signal is a step of module NamedSemaphores,
\* or none of its business.
LEMMA NamedStep ==
  ASSUME SemSetting, InitialValue \subseteq Nat, SemStructure, NEW p \in Process,
         \/ \E n \in Name :
              \/ \E v \in InitialValue : Smt!Create(p, n, v)
              \/ Smt!CreateRefuse(p, n) \/ Smt!Unknown(p, n)
              \/ Smt!WaitTake(p, n) \/ Smt!WaitBlock(p, n) \/ Smt!Signal(p, n)
         \/ \E i \in Smt!Slot : Smt!Woken(p, i)
  PROVE  [Smt!Named!Next]_(Smt!Named!vars)
<1>1. /\ count \in [Smt!Slot -> Nat] /\ queue \in [Smt!Slot -> SUBSET Process]
      /\ mSemBitMap \subseteq Smt!Slot
  BY Zenon DEF SemStructure, Smt!TypeOK
<1>2. ASSUME NEW n \in Name, NEW v \in InitialValue, Smt!Create(p, n, v)
      PROVE  Smt!Named!Next
  <2>1. Cardinality(Created) < MaxSemaphore
    BY <1>2, RoomLeft, Zenon DEF Smt!Create
  <2>2. /\ n \notin Created /\ Created' = Created \cup {n}
        /\ Units' = [Units EXCEPT ![n] = v] /\ BlockedIn' = BlockedIn
    BY <1>2, NewName, Zenon
  <2>3. Smt!Named!Create(n, v)
    <3>1. Smt!Named!Cardinality({semTable[i] : i \in mSemBitMap}) < MaxSemaphore
      BY <2>1, Zenon DEF Created, Cardinality, Smt!Named!Cardinality
    <3>2. /\ n \notin {semTable[i] : i \in mSemBitMap}
          /\ {semTable[i] : i \in mSemBitMap}' = {semTable[i] : i \in mSemBitMap} \cup {n}
      BY <2>2, Zenon DEF Created
    <3>3. /\ [k \in Name |-> Smt!UnitsOf(k)]' = [[k \in Name |-> Smt!UnitsOf(k)] EXCEPT ![n] = v]
          /\ [k \in Name |-> Smt!BlockedOn(k)]' = [k \in Name |-> Smt!BlockedOn(k)]
      BY <2>2, Zenon DEF Units, BlockedIn
    <3> QED
      BY <3>1, <3>2, <3>3, Zenon DEF Smt!Named!Create
  <2> QED
    BY <2>3, Zenon DEF Smt!Named!Next
<1>3. ASSUME NEW n \in Name, Smt!CreateRefuse(p, n) \/ Smt!Unknown(p, n)
      PROVE  UNCHANGED Smt!Named!vars
  <2>1. UNCHANGED <<mSemBitMap, semTable, count, queue>>
    BY <1>3, Zenon DEF Smt!CreateRefuse, Smt!Unknown
  <2> QED
    BY <2>1, Zenon DEF Smt!Named!vars, Smt!UnitsOf, Smt!BlockedOn, Smt!Matches
<1>4. ASSUME NEW n \in Name, Smt!Matches(n) # {}
      PROVE  \E i \in mSemBitMap : i = Smt!Min(Smt!Matches(n)) /\ semTable[i] = n
  BY <1>4, Found, Zenon
<1>5. ASSUME NEW n \in Name, Smt!WaitTake(p, n)
      PROVE  Smt!Named!Next
  <2>1. PICK i \in mSemBitMap : i = Smt!Min(Smt!Matches(n)) /\ semTable[i] = n
    BY <1>4, <1>5, Zenon DEF Smt!WaitTake
  <2>2. /\ count[i] # 0 /\ count' = [count EXCEPT ![i] = count[i] - 1]
        /\ queue' = [queue EXCEPT ![i] = queue[i]]
        /\ UNCHANGED <<mSemBitMap, semTable>> /\ ~Smt!Waiting(p)
    BY <1>1, <1>5, <2>1, Zenon DEF Smt!WaitTake
  <2>3. /\ Units' = [Units EXCEPT ![n] = count[i] - 1]
        /\ BlockedIn' = [BlockedIn EXCEPT ![n] = queue[i]]
        /\ Created' = Created
    <3>1. /\ Units' = [Units EXCEPT ![semTable[i]] = count[i] - 1]
          /\ BlockedIn' = [BlockedIn EXCEPT ![semTable[i]] = queue[i]]
      BY <2>2, OneName, Zenon
    <3>2. Created' = Created
      BY <2>2, NamesKept, Zenon
    <3> QED
      BY <2>1, <3>1, <3>2, Zenon
  <2>4. Units[n] = count[i] /\ BlockedIn[n] = queue[i] /\ n \in Created
    BY <2>1, SlotOfName, Zenon DEF Created
  <2>5. BlockedIn' = BlockedIn /\ Units[n] > 0 /\ ~\E k \in Name : p \in BlockedIn[k]
    <3>1. count[i] > 0
      BY <1>1, <2>2
    <3>2. BlockedIn' = BlockedIn
      BY <2>3, <2>4, Zenon DEF BlockedIn
    <3> QED
      BY <2>2, <2>4, <3>1, <3>2, WaitingIsBlocked, Zenon
  <2>6. Smt!Named!Take(p, n)
    BY <2>3, <2>4, <2>5, Zenon DEF Smt!Named!Take, Smt!Named!Blocked, Created, Units, BlockedIn
  <2> QED
    BY <2>6, Zenon DEF Smt!Named!Next
<1>6. ASSUME NEW n \in Name, Smt!WaitBlock(p, n)
      PROVE  Smt!Named!Next
  <2>1. PICK i \in mSemBitMap : i = Smt!Min(Smt!Matches(n)) /\ semTable[i] = n
    BY <1>4, <1>6, Zenon DEF Smt!WaitBlock
  <2>2. /\ count[i] = 0 /\ count' = [count EXCEPT ![i] = count[i]]
        /\ queue' = [queue EXCEPT ![i] = queue[i] \cup {p}]
        /\ UNCHANGED <<mSemBitMap, semTable>> /\ ~Smt!Waiting(p)
    BY <1>1, <1>6, <2>1, Zenon DEF Smt!WaitBlock
  <2>3. /\ Units' = [Units EXCEPT ![n] = count[i]]
        /\ BlockedIn' = [BlockedIn EXCEPT ![n] = queue[i] \cup {p}]
        /\ Created' = Created
    <3>1. /\ Units' = [Units EXCEPT ![semTable[i]] = count[i]]
          /\ BlockedIn' = [BlockedIn EXCEPT ![semTable[i]] = queue[i] \cup {p}]
      BY <2>2, OneName, Zenon
    <3>2. Created' = Created
      BY <2>2, NamesKept, Zenon
    <3> QED
      BY <2>1, <3>1, <3>2, Zenon
  <2>4. Units[n] = count[i] /\ BlockedIn[n] = queue[i] /\ n \in Created
    BY <2>1, SlotOfName, Zenon DEF Created
  <2>5. Units' = Units /\ Units[n] = 0 /\ ~\E k \in Name : p \in BlockedIn[k]
    BY <2>2, <2>3, <2>4, WaitingIsBlocked, Zenon DEF Units
  <2>6. Smt!Named!Block(p, n)
    BY <2>3, <2>4, <2>5, Zenon DEF Smt!Named!Block, Smt!Named!Blocked, Created, Units, BlockedIn
  <2> QED
    BY <2>6, Zenon DEF Smt!Named!Next
<1>7. ASSUME NEW n \in Name, Smt!Signal(p, n)
      PROVE  Smt!Named!Next
  <2>1. PICK i \in mSemBitMap : i = Smt!Min(Smt!Matches(n)) /\ semTable[i] = n
    BY <1>4, <1>7, Zenon DEF Smt!Signal
  <2>2. /\ count' = [count EXCEPT ![i] = count[i] + 1]
        /\ queue' = [queue EXCEPT ![i] = queue[i]]
        /\ UNCHANGED <<mSemBitMap, semTable>>
    BY <1>1, <1>7, <2>1, Zenon DEF Smt!Signal
  <2>3. /\ Units' = [Units EXCEPT ![n] = count[i] + 1]
        /\ BlockedIn' = [BlockedIn EXCEPT ![n] = queue[i]]
        /\ Created' = Created
    <3>1. /\ Units' = [Units EXCEPT ![semTable[i]] = count[i] + 1]
          /\ BlockedIn' = [BlockedIn EXCEPT ![semTable[i]] = queue[i]]
      BY <2>2, OneName, Zenon
    <3>2. Created' = Created
      BY <2>2, NamesKept, Zenon
    <3> QED
      BY <2>1, <3>1, <3>2, Zenon
  <2>4. Units[n] = count[i] /\ BlockedIn[n] = queue[i] /\ n \in Created
    BY <2>1, SlotOfName, Zenon DEF Created
  <2>5. BlockedIn' = BlockedIn
    BY <2>3, <2>4, Zenon DEF BlockedIn
  <2>6. Smt!Named!Signal(n)
    BY <2>3, <2>4, <2>5, Zenon DEF Smt!Named!Signal, Created, Units, BlockedIn
  <2> QED
    BY <2>6, Zenon DEF Smt!Named!Next
<1>8. ASSUME NEW i \in Smt!Slot, Smt!Woken(p, i)
      PROVE  Smt!Named!Next
  <2>1. i \in mSemBitMap
    BY <1>8, Zenon DEF Smt!Woken, SemStructure
  <2>2. /\ count[i] # 0 /\ count' = [count EXCEPT ![i] = count[i] - 1]
        /\ p \in queue[i] /\ queue' = [queue EXCEPT ![i] = queue[i] \ {p}]
        /\ UNCHANGED <<mSemBitMap, semTable>>
    BY <1>1, <1>8, Zenon DEF Smt!Woken
  <2>3. PICK n \in Name : n = semTable[i]
    BY <2>1, SlotOfName, Zenon
  <2>4. /\ Units' = [Units EXCEPT ![n] = count[i] - 1]
        /\ BlockedIn' = [BlockedIn EXCEPT ![n] = queue[i] \ {p}]
        /\ Created' = Created
    BY <2>1, <2>2, <2>3, OneName, NamesKept, Zenon
  <2>5. Units[n] = count[i] /\ BlockedIn[n] = queue[i] /\ n \in Created
    BY <2>1, <2>3, SlotOfName, Zenon DEF Created
  <2>6. Units[n] > 0
    BY <1>1, <2>2, <2>5
  <2>7. Smt!Named!Return(p, n)
    BY <2>2, <2>4, <2>5, <2>6, Zenon DEF Smt!Named!Return, Created, Units, BlockedIn
  <2> QED
    BY <2>7, Zenon DEF Smt!Named!Next
<1> QED
  BY <1>2, <1>3, <1>5, <1>6, <1>7, <1>8, Zenon

\* With initial values that are not negative, STable implements the named counting
\* semaphores of module NamedSemaphores: a name stands for one semaphore from its
\* creation on, no call reaches another one, and there are at most MAX_SEMAPHORE.
THEOREM NamedRefinement ==
  ASSUME SemSetting, InitialValue \subseteq Nat
  PROVE  Smt!Spec => Smt!ImplementsNamed
<1>1. Smt!Init => Smt!Named!Init
  BY Zenon DEF Smt!Init, Smt!Named!Init, Smt!UnitsOf, Smt!BlockedOn, Smt!Matches
<1>2. SemStructure /\ [Smt!Next]_(Smt!vars) => [Smt!Named!Next]_(Smt!Named!vars)
  <2> SUFFICES ASSUME SemStructure, [Smt!Next]_(Smt!vars)
               PROVE  [Smt!Named!Next]_(Smt!Named!vars)
    BY Zenon
  <2>1. CASE UNCHANGED Smt!vars
    BY <2>1, Zenon DEF Smt!vars, Smt!Named!vars, Smt!UnitsOf, Smt!BlockedOn, Smt!Matches
  <2>2. CASE Smt!Next
    BY <2>2, NamedStep, Zenon DEF Smt!Next
  <2> QED
    BY <2>1, <2>2, Zenon
<1>3. Smt!Init => SemStructure
  BY SemStructureInit, Zenon
<1>4. SemStructure /\ [Smt!Next]_(Smt!vars) => SemStructure'
  BY SemStructureNext, Zenon
<1> QED
  BY <1>1, <1>2, <1>3, <1>4, PTL DEF Smt!Spec, Smt!ImplementsNamed, Smt!Named!Spec
=============================================================================
