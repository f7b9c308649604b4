------------------------------ MODULE SemTable ------------------------------
(***************************************************************************)
(* The semaphores of user programs: the system calls CreateSemaphore, Wait *)
(* and Signal through STable (threads/stable.cc).                          *)
(*                                                                         *)
(* A call is atomic up to the P or V it makes: nothing on the way enables  *)
(* interrupts.  A P that finds no unit waits, and tests the value again    *)
(* when woken (threads/synch.cc).  Names are what User2System copies in.   *)
(***************************************************************************)
EXTENDS Integers, FiniteSets, FiniteSetsExt

CONSTANTS Process,        \* the processes that make the calls
          Name,           \* the names they use
          MaxSemaphore,   \* MAX_SEMAPHORE
          InitialValue,   \* the values they pass to CreateSemaphore
          NoSem,          \* the NULL of semTable
          MaxValue        \* bound: no Signal at this value

Slot == 0..(MaxSemaphore - 1)

VARIABLES mSemBitMap,   \* the slots in use
          semTable,     \* the name of the Sem in each slot, or NoSem
          value,        \* the value of its Semaphore
          queue,        \* the processes inside its P
          ret           \* register 2 of each process after its last call

vars == <<mSemBitMap, semTable, value, queue, ret>>

TypeOK ==
  /\ mSemBitMap \subseteq Slot
  /\ semTable \in [Slot -> Name \cup {NoSem}]
  /\ value \in [Slot -> IF InitialValue \subseteq Nat THEN Nat ELSE Int]
  /\ queue \in [Slot -> SUBSET Process]
  /\ ret \in [Process -> Slot \cup {-1, 1}]

Init ==
  /\ mSemBitMap = {}
  /\ semTable = [i \in Slot |-> NoSem]
  /\ value = [i \in Slot |-> 0]
  /\ queue = [i \in Slot |-> {}]
  /\ ret = [p \in Process |-> -1]

Waiting(p) == \E i \in Slot : p \in queue[i]

\* The slots at which the loops of Create, Wait and Signal stop.
Matches(n) == {i \in mSemBitMap : semTable[i] = n}

Return(p, r) == ret' = [ret EXCEPT ![p] = r]

-----------------------------------------------------------------------------
\* Mutant: STable::Create without the search for the name.
CreateUnsearched(p, n, v) ==
  /\ ~Waiting(p)
  /\ mSemBitMap # Slot
  /\ LET idx == Min(Slot \ mSemBitMap)
     IN  /\ mSemBitMap' = mSemBitMap \cup {idx}
         /\ semTable' = [semTable EXCEPT ![idx] = n]
         /\ value' = [value EXCEPT ![idx] = v]
         /\ Return(p, idx)
  /\ UNCHANGED queue

\* STable::Create finds a slot for a new name.
Create(p, n, v) ==
  /\ ~Waiting(p)
  /\ Matches(n) = {}
  /\ mSemBitMap # Slot
  /\ LET idx == Min(Slot \ mSemBitMap)
     IN  /\ mSemBitMap' = mSemBitMap \cup {idx}
         /\ semTable' = [semTable EXCEPT ![idx] = n]
         /\ value' = [value EXCEPT ![idx] = v]
         /\ Return(p, idx)
  /\ UNCHANGED queue

\* The name exists, or there is no free slot.
CreateRefuse(p, n) ==
  /\ ~Waiting(p)
  /\ Matches(n) # {} \/ mSemBitMap = Slot
  /\ Return(p, -1)
  /\ UNCHANGED <<mSemBitMap, semTable, value, queue>>

\* STable::Wait or Signal of a name that does not exist.
Unknown(p, n) ==
  /\ ~Waiting(p)
  /\ Matches(n) = {}
  /\ Return(p, -1)
  /\ UNCHANGED <<mSemBitMap, semTable, value, queue>>

\* STable::Wait: Semaphore::P waits while the value is zero.
WaitTake(p, n) ==
  /\ ~Waiting(p)
  /\ Matches(n) # {}
  /\ LET i == Min(Matches(n))
     IN  /\ value[i] # 0
         /\ value' = [value EXCEPT ![i] = @ - 1]
  /\ Return(p, 1)
  /\ UNCHANGED <<mSemBitMap, semTable, queue>>

WaitBlock(p, n) ==
  /\ ~Waiting(p)
  /\ Matches(n) # {}
  /\ LET i == Min(Matches(n))
     IN  /\ value[i] = 0
         /\ queue' = [queue EXCEPT ![i] = @ \cup {p}]
  /\ UNCHANGED <<mSemBitMap, semTable, value, ret>>

\* Mutant: A woken P does not test the value again.
WokenUntested(p, i) ==
  /\ p \in queue[i]
  /\ value' = [value EXCEPT ![i] = @ - 1]
  /\ queue' = [queue EXCEPT ![i] = @ \ {p}]
  /\ Return(p, 1)
  /\ UNCHANGED <<mSemBitMap, semTable>>

\* A P that waited gets its unit, and Wait returns.
Woken(p, i) ==
  /\ p \in queue[i]
  /\ value[i] # 0
  /\ value' = [value EXCEPT ![i] = @ - 1]
  /\ queue' = [queue EXCEPT ![i] = @ \ {p}]
  /\ Return(p, 1)
  /\ UNCHANGED <<mSemBitMap, semTable>>

Signal(p, n) ==
  /\ ~Waiting(p)
  /\ Matches(n) # {}
  /\ LET i == Min(Matches(n))
     IN  /\ value[i] < MaxValue
         /\ value' = [value EXCEPT ![i] = @ + 1]
  /\ Return(p, 1)
  /\ UNCHANGED <<mSemBitMap, semTable, queue>>

Next ==
  \E p \in Process :
    \/ \E n \in Name :
         \/ \E v \in InitialValue : Create(p, n, v)
         \/ CreateRefuse(p, n) \/ Unknown(p, n)
         \/ WaitTake(p, n) \/ WaitBlock(p, n) \/ Signal(p, n)
    \/ \E i \in Slot : Woken(p, i)

Spec == Init /\ [][Next]_vars

-----------------------------------------------------------------------------
\* Two processes that create the same name get one semaphore: the slots in use
\* are those with a Sem, and their names differ, whatever the order of the calls.
OneSemPerName ==
  /\ \A i \in Slot : i \in mSemBitMap <=> semTable[i] # NoSem
  /\ \A i, j \in mSemBitMap : semTable[i] = semTable[j] => i = j

UnitsOf(n) == IF Matches(n) = {} THEN 0 ELSE value[Min(Matches(n))]
BlockedOn(n) == IF Matches(n) = {} THEN {} ELSE queue[Min(Matches(n))]

Named == INSTANCE NamedSemaphores
         WITH Capacity <- MaxSemaphore,
              created <- {semTable[i] : i \in mSemBitMap},
              units <- [n \in Name |-> UnitsOf(n)],
              blocked <- [n \in Name |-> BlockedOn(n)]

\* With initial values that are not negative, the table of slots behaves as a
\* set of named counting semaphores: no call reaches the wrong one, and the
\* table is full exactly when Capacity names exist.
ImplementsNamed == Named!Spec

-----------------------------------------------------------------------------
(* What the comments say, and the code does not keep.                      *)

\* synch.h: P "waits until value > 0, then decrement"; a negative value that
\* CreateSemaphore was given passes P's test.
WaitsUntilPositive ==
  [][\A p \in Process, n \in Name :
       WaitTake(p, n) => \A i \in Matches(n) : value[i] > 0]_vars
=============================================================================
