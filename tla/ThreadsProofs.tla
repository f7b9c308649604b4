--------------------------- MODULE ThreadsProofs ---------------------------
(***************************************************************************)
(* Proofs about the thread kernel, for any number of threads and           *)
(* semaphores: its invariants, and that its semaphores implement           *)
(* CountingSemaphore.                                                      *)
(***************************************************************************)
EXTENDS Threads, FiniteSetTheorems, TLAPS

-----------------------------------------------------------------------------
(* Lists: what List::Append and List::RemoveFront do to membership.        *)

\* List::Append adds its argument and nothing else.
LEMMA AppendIn ==
  ASSUME NEW S, NEW seq \in Seq(S), NEW x \in S
  PROVE  /\ Append(seq, x) \in Seq(S)
         /\ Append(seq, x) # <<>>
         /\ \A y : In(y, Append(seq, x)) <=> In(y, seq) \/ y = x
         /\ (NoDuplicates(seq) /\ ~In(x, seq)) => NoDuplicates(Append(seq, x))
<1> DEFINE app == Append(seq, x)
<1>1. /\ app \in Seq(S)
      /\ Len(app) = Len(seq) + 1
      /\ \A i \in 1..Len(seq) : app[i] = seq[i]
      /\ app[Len(seq) + 1] = x
      /\ Len(seq) \in Nat
  OBVIOUS
<1>2. app # <<>>
  BY <1>1
<1> HIDE DEF app
<1>3. \A y : In(y, app) <=> In(y, seq) \/ y = x
  BY <1>1 DEF In
<1>4. (NoDuplicates(seq) /\ ~In(x, seq)) => NoDuplicates(app)
  BY <1>1 DEF In, NoDuplicates
<1> QED
  BY <1>1, <1>2, <1>3, <1>4 DEF app

\* List::RemoveFront takes away the front and nothing else.
LEMMA TailIn ==
  ASSUME NEW S, NEW seq \in Seq(S), seq # <<>>, NoDuplicates(seq)
  PROVE  /\ Tail(seq) \in Seq(S)
         /\ Head(seq) \in S
         /\ In(Head(seq), seq)
         /\ \A y : In(y, Tail(seq)) <=> In(y, seq) /\ y # Head(seq)
         /\ NoDuplicates(Tail(seq))
<1> DEFINE tl == Tail(seq)
<1>1. /\ tl \in Seq(S)
      /\ Len(seq) \in Nat \ {0}
      /\ Len(tl) = Len(seq) - 1
      /\ \A i \in 1..Len(tl) : tl[i] = seq[i + 1]
      /\ Head(seq) = seq[1]
      /\ Head(seq) \in S
  OBVIOUS
<1> HIDE DEF tl
<1>2. In(Head(seq), seq)
  BY <1>1 DEF In
<1>3. ASSUME NEW y, In(y, tl)
      PROVE  In(y, seq) /\ y # Head(seq)
  <2>1. PICK i \in 1..Len(tl) : tl[i] = y
    BY <1>3 DEF In
  <2>2. i + 1 \in 1..Len(seq) /\ 1 \in 1..Len(seq) /\ seq[i + 1] = y /\ i + 1 # 1
    BY <1>1, <2>1
  <2> QED
    BY <1>1, <2>2 DEF In, NoDuplicates
<1>4. ASSUME NEW y, In(y, seq), y # Head(seq)
      PROVE  In(y, tl)
  <2>1. PICK i \in 1..Len(seq) : seq[i] = y
    BY <1>4 DEF In
  <2>2. i - 1 \in 1..Len(tl) /\ tl[i - 1] = y
    BY <1>1, <1>4, <2>1
  <2> QED
    BY <2>2 DEF In
<1>5. NoDuplicates(tl)
  BY <1>1 DEF NoDuplicates
<1> QED
  BY <1>1, <1>2, <1>3, <1>4, <1>5 DEF tl

\* An empty list has no members, and only it.
LEMMA EmptyIn ==
  ASSUME NEW S, NEW seq \in Seq(S)
  PROVE  seq = <<>> <=> \A y \in S : ~In(y, seq)
<1>1. seq # <<>> => In(seq[1], seq) /\ seq[1] \in S
  BY DEF In
<1>2. seq = <<>> => \A y : ~In(y, seq)
  BY DEF In
<1> QED
  BY <1>1, <1>2

-----------------------------------------------------------------------------
(* The invariant.  None of TypeOK, OnePlace and CleanSwitch is inductive   *)
(* alone: that a queued thread is not queued again, and that nothing is    *)
(* marked for deletion when a thread finishes, needs ControlState.         *)

Structure == TypeOK /\ OnePlace /\ CleanSwitch /\ ControlState

USE ThreadsAssumption

\* Kernel::Initialize establishes the structural invariant.
LEMMA StructureInit == Init => Structure
<1> SUFFICES ASSUME Init
             PROVE  Structure
  OBVIOUS
<1>1. TypeOK
  <2>1. <<>> \in Seq(Thread)
    OBVIOUS
  <2>2. queue \in [Sem -> Seq(Thread)] /\ readyList \in Seq(Thread)
    BY <2>1, Zenon DEF Init
  <2>3. /\ status \in [Thread -> Status]
        /\ pc \in [Thread -> Location]
        /\ waitsOn \in [Thread -> Sem \cup {NULL}]
    BY DEF Init, Status, Location
  <2>4. idling \in BOOLEAN
    BY DEF Init
  <2> QED
    BY <2>2, <2>3, <2>4 DEF Init, TypeOK
<1>2. OnePlace
  BY DEF Init, OnePlace, NoDuplicates, In
<1>3. CleanSwitch
  BY DEF Init, CleanSwitch, Sleeping
<1>4. ControlState
  BY DEF Init, ControlState, Sleeping, SwitchedIn
<1> QED
  BY <1>1, <1>2, <1>3, <1>4 DEF Structure

\* The facts about the lists that the steps below use.
LEMMA ListFacts ==
  ASSUME Structure
  PROVE  /\ readyList \in Seq(Thread)
         /\ \A s \in Sem : queue[s] \in Seq(Thread)
         /\ \A s \in Sem : NoDuplicates(queue[s])
         /\ NoDuplicates(readyList)
         /\ readyList # <<>> =>
              /\ Head(readyList) \in Thread
              /\ status[Head(readyList)] = "READY"
              /\ pc[Head(readyList)] \in {"begin", "yield", "P"}
         /\ \A s \in Sem : queue[s] # <<>> =>
              /\ Head(queue[s]) \in Thread
              /\ status[Head(queue[s])] = "BLOCKED"
              /\ waitsOn[Head(queue[s])] = s
              /\ pc[Head(queue[s])] = "P"
<1> USE DEF Structure
<1>1. /\ readyList \in Seq(Thread)
      /\ \A s \in Sem : queue[s] \in Seq(Thread)
      /\ \A s \in Sem : NoDuplicates(queue[s])
      /\ NoDuplicates(readyList)
  BY DEF TypeOK, OnePlace
<1>2. readyList # <<>> =>
        /\ Head(readyList) \in Thread
        /\ status[Head(readyList)] = "READY"
        /\ pc[Head(readyList)] \in {"begin", "yield", "P"}
  BY <1>1, TailIn DEF OnePlace, ControlState
<1>3. ASSUME NEW s \in Sem, queue[s] # <<>>
      PROVE  /\ Head(queue[s]) \in Thread
             /\ status[Head(queue[s])] = "BLOCKED"
             /\ waitsOn[Head(queue[s])] = s
             /\ pc[Head(queue[s])] = "P"
  <2>1. Head(queue[s]) \in Thread /\ In(Head(queue[s]), queue[s])
    BY <1>1, <1>3, TailIn
  <2> QED
    BY <2>1 DEF OnePlace, ControlState
<1> QED
  BY <1>1, <1>2, <1>3

\* Thread::Thread preserves it.
LEMMA NewThreadStep ==
  ASSUME Structure, NEW t \in Thread, NEW u \in Thread, NewThread(t, u)
  PROVE  Structure'
<1> USE DEF Structure, NewThread, Executing
<1>1. TypeOK'
  BY DEF TypeOK, Status
<1>2. OnePlace'
  BY DEF TypeOK, OnePlace, In, NoDuplicates
<1>3. CleanSwitch'
  BY DEF TypeOK, CleanSwitch, Sleeping, SwitchedIn
<1>4. ControlState'
  BY DEF TypeOK, ControlState, Sleeping, SwitchedIn
<1> QED
  BY <1>1, <1>2, <1>3, <1>4

\* Thread::Fork preserves it: a thread is forked once, so it is in no list.
LEMMA ForkStep ==
  ASSUME Structure, NEW t \in Thread, NEW u \in Thread, Fork(t, u)
  PROVE  Structure'
<1> USE DEF Structure, Fork, Executing
<1>0. /\ readyList' \in Seq(Thread)
      /\ NoDuplicates(readyList')
      /\ \A y : In(y, readyList') <=> In(y, readyList) \/ y = u
  BY AppendIn, ListFacts DEF OnePlace
<1>1. TypeOK'
  BY <1>0 DEF TypeOK, Status, Location
<1>2. OnePlace'
  BY <1>0 DEF TypeOK, OnePlace
<1>3. CleanSwitch'
  BY DEF TypeOK, CleanSwitch, ControlState, Sleeping, SwitchedIn
<1>4. ControlState'
  BY DEF TypeOK, ControlState, Sleeping, SwitchedIn
<1> QED
  BY <1>1, <1>2, <1>3, <1>4

\* Thread::Finish preserves it: nothing is waiting to be deleted.
LEMMA FinishStep ==
  ASSUME Structure, NEW t \in Thread, Finish(t)
  PROVE  Structure'
<1> USE DEF Structure, Finish, Executing
<1>1. TypeOK'
  BY DEF TypeOK, Status, Location
<1>2. OnePlace'
  <2>1. \A y \in Thread : In(y, readyList)' <=> status'[y] = "READY"
    BY DEF TypeOK, OnePlace
  <2>2. ASSUME NEW s \in Sem, NEW y \in Thread
        PROVE  In(y, queue[s])' <=> (status'[y] = "BLOCKED" /\ waitsOn'[y] = s)
    BY DEF TypeOK, OnePlace, ControlState
  <2>3. \A y \in Thread : status'[y] = "RUNNING" => y = currentThread'
    BY DEF TypeOK, OnePlace
  <2> QED
    BY <2>1, <2>2, <2>3 DEF OnePlace
<1>3. CleanSwitch'
  BY DEF TypeOK, CleanSwitch, ControlState, Sleeping, SwitchedIn
<1>4. ControlState'
  BY DEF TypeOK, ControlState, Sleeping, SwitchedIn
<1> QED
  BY <1>1, <1>2, <1>3, <1>4

\* Thread::Yield preserves it.
LEMMA YieldStep ==
  ASSUME Structure, NEW t \in Thread, Yield(t)
  PROVE  Structure'
<1> USE DEF Structure, Yield, Executing
<1> DEFINE next == Head(readyList)
<1>1. /\ next \in Thread /\ status[next] = "READY"
      /\ pc[next] \in {"begin", "yield", "P"} /\ next # t
  BY ListFacts
<1>2. /\ readyList' \in Seq(Thread)
      /\ NoDuplicates(readyList')
      /\ \A y : In(y, readyList') <=> (In(y, readyList) /\ y # next) \/ y = t
  <2>1. /\ Tail(readyList) \in Seq(Thread)
        /\ NoDuplicates(Tail(readyList))
        /\ \A y : In(y, Tail(readyList)) <=> In(y, readyList) /\ y # next
    BY ListFacts, TailIn
  <2>2. ~In(t, Tail(readyList))
    BY <2>1 DEF OnePlace
  <2> QED
    BY <2>1, <2>2, AppendIn
<1> HIDE DEF next
<1>3. TypeOK'
  BY <1>1, <1>2 DEF TypeOK, Status, Location, next
<1>4. OnePlace'
  <2>0. /\ currentThread' = next /\ currentThread = t
        /\ queue' = queue /\ waitsOn' = waitsOn
        /\ level = "IntOn" /\ status[t] = "RUNNING"
        /\ \A y \in Thread :
             status'[y] = IF y = next THEN "RUNNING"
                          ELSE IF y = t THEN "READY" ELSE status[y]
    BY <1>1 DEF TypeOK, next
  <2> HIDE DEF Yield, Executing
  <2>1. \A y \in Thread : In(y, readyList)' <=> status'[y] = "READY"
    BY <1>1, <1>2, <2>0 DEF OnePlace
  <2>2. ASSUME NEW s \in Sem, NEW y \in Thread
        PROVE  In(y, queue[s])' <=> (status'[y] = "BLOCKED" /\ waitsOn'[y] = s)
    BY <1>1, <2>0 DEF OnePlace, ControlState
  <2>3. \A y \in Thread : status'[y] = "RUNNING" => y = currentThread'
    BY <2>0 DEF OnePlace
  <2> QED
    BY <1>2, <2>0, <2>1, <2>2, <2>3 DEF OnePlace
<1>5. CleanSwitch'
  BY <1>1 DEF TypeOK, CleanSwitch, ControlState, Sleeping, SwitchedIn, next
<1>6. ControlState'
  BY <1>1 DEF TypeOK, ControlState, Sleeping, SwitchedIn, next
<1> QED
  BY <1>3, <1>4, <1>5, <1>6

\* Scheduler::Run called by Sleep preserves it.
LEMMA SleepRunStep ==
  ASSUME Structure, SleepRun
  PROVE  Structure'
<1> USE DEF Structure, SleepRun
<1> DEFINE next == Head(readyList)
<1>1. /\ next \in Thread /\ status[next] = "READY"
      /\ pc[next] \in {"begin", "yield", "P"}
  BY ListFacts
<1>2. /\ readyList' \in Seq(Thread)
      /\ NoDuplicates(readyList')
      /\ \A y : In(y, readyList') <=> In(y, readyList) /\ y # next
  BY ListFacts, TailIn
<1> HIDE DEF next
<1>3. TypeOK'
  BY <1>1, <1>2 DEF TypeOK, Status, next
<1>4. OnePlace'
  BY <1>1, <1>2 DEF TypeOK, OnePlace, Sleeping, next
<1>5. CleanSwitch'
  BY <1>1 DEF TypeOK, CleanSwitch, ControlState, Sleeping, SwitchedIn, next
<1>6. ControlState'
  BY <1>1 DEF TypeOK, CleanSwitch, ControlState, Sleeping, SwitchedIn, next
<1> QED
  BY <1>3, <1>4, <1>5, <1>6

\* Interrupt::Idle preserves it.
LEMMA IdleStep ==
  ASSUME Structure, Idle \/ IdleReturn
  PROVE  Structure'
<1> USE DEF Structure
<1>1. idling' \in BOOLEAN /\ UNCHANGED <<status, currentThread, readyList,
        toBeDestroyed, level, value, queue, pc, waitsOn>>
  BY DEF Idle, IdleReturn
<1>2. TypeOK'
  BY <1>1, Zenon DEF TypeOK
<1>3. OnePlace' /\ CleanSwitch'
  BY <1>1 DEF OnePlace, In, NoDuplicates, CleanSwitch, Sleeping, SwitchedIn
<1>4. ControlState'
  BY <1>1 DEF Idle, IdleReturn, ControlState, Sleeping, SwitchedIn
<1> QED
  BY <1>2, <1>3, <1>4

\* Semaphore::P that finds a unit preserves it.
LEMMA PTakeStep ==
  ASSUME Structure, NEW t \in Thread, NEW s \in Sem, PTake(t, s)
  PROVE  Structure'
<1> USE DEF Structure, PTake
<1>1. TypeOK'
  BY DEF TypeOK
<1>2. OnePlace'
  BY DEF OnePlace
<1>3. CleanSwitch' /\ ControlState'
  BY DEF CleanSwitch, ControlState, Sleeping, SwitchedIn
<1> QED
  BY <1>1, <1>2, <1>3

\* Semaphore::P that blocks preserves it: a running thread is in no queue.
LEMMA PBlockStep ==
  ASSUME Structure, NEW t \in Thread, NEW s \in Sem, PBlock(t, s)
  PROVE  Structure'
<1> USE DEF Structure, PBlock, Executing
<1>1. ~In(t, queue[s])
  BY DEF OnePlace
<1>2. /\ Append(queue[s], t) \in Seq(Thread)
      /\ NoDuplicates(Append(queue[s], t))
      /\ \A y : In(y, Append(queue[s], t)) <=> In(y, queue[s]) \/ y = t
  BY <1>1, ListFacts, AppendIn
<1>3. queue' \in [Sem -> Seq(Thread)] /\ queue'[s] = Append(queue[s], t)
      /\ \A r \in Sem \ {s} : queue'[r] = queue[r]
  BY <1>2 DEF TypeOK
<1>4. TypeOK'
  BY <1>3 DEF TypeOK, Status, Location
<1>5. OnePlace'
  BY <1>2, <1>3 DEF TypeOK, OnePlace, ControlState
<1>6. CleanSwitch'
  BY DEF TypeOK, CleanSwitch, ControlState, Sleeping, SwitchedIn
<1>7. ControlState'
  BY DEF TypeOK, ControlState, Sleeping, SwitchedIn
<1> QED
  BY <1>4, <1>5, <1>6, <1>7

\* Semaphore::V preserves it: a queued thread is not in the ready list.
LEMMA VEffectStep ==
  ASSUME Structure, NEW s \in Sem, VEffect(s),
         Executing(currentThread) \/ idling
  PROVE  Structure'
<1> USE DEF Structure
<1>1. value' \in [Sem -> 0..MaxValue]
  BY DEF TypeOK, VEffect
<1>2. CASE queue[s] = <<>>
  <2>1. UNCHANGED <<status, currentThread, readyList, toBeDestroyed, level,
                    idling, queue, pc, waitsOn>>
    BY <1>2 DEF VEffect
  <2>2. TypeOK'
    BY <1>1, <2>1 DEF TypeOK
  <2>3. OnePlace'
    BY <2>1 DEF OnePlace
  <2>4. CleanSwitch' /\ ControlState'
    BY <2>1 DEF CleanSwitch, ControlState, Sleeping, SwitchedIn
  <2> QED
    BY <2>2, <2>3, <2>4
<1>3. CASE queue[s] # <<>>
  <2> DEFINE w == Head(queue[s])
  <2>1. /\ w \in Thread /\ status[w] = "BLOCKED" /\ waitsOn[w] = s
        /\ pc[w] = "P" /\ ~In(w, readyList)
    BY <1>3, ListFacts DEF OnePlace
  <2>2. /\ Tail(queue[s]) \in Seq(Thread)
        /\ NoDuplicates(Tail(queue[s]))
        /\ \A y : In(y, Tail(queue[s])) <=> In(y, queue[s]) /\ y # w
    BY <1>3, ListFacts, TailIn
  <2>3. /\ readyList' \in Seq(Thread)
        /\ NoDuplicates(readyList')
        /\ \A y : In(y, readyList') <=> In(y, readyList) \/ y = w
    <3>1. readyList' = Append(readyList, w)
      BY <1>3 DEF VEffect
    <3> HIDE DEF w
    <3> QED
      BY <2>1, <3>1, ListFacts, AppendIn
  <2>4. /\ queue' \in [Sem -> Seq(Thread)]
        /\ queue'[s] = Tail(queue[s])
        /\ \A r \in Sem \ {s} : queue'[r] = queue[r]
    <3>1. queue' = [queue EXCEPT ![s] = Tail(queue[s])]
      BY <1>3, Zenon DEF VEffect
    <3>2. queue \in [Sem -> Seq(Thread)]
      BY DEF TypeOK
    <3> QED
      BY <2>2, <3>1, <3>2, Zenon
  <2>5. /\ status' = [status EXCEPT ![w] = "READY"]
        /\ UNCHANGED <<idling, currentThread, toBeDestroyed, level, pc, waitsOn>>
    BY <1>3 DEF VEffect
  <2> HIDE DEF w
  <2>6. TypeOK'
    BY <1>1, <2>1, <2>3, <2>4, <2>5 DEF TypeOK, Status
  <2>7. OnePlace'
    <3>1. \A y \in Thread : In(y, readyList)' <=> status'[y] = "READY"
      BY <2>1, <2>3, <2>5 DEF TypeOK, OnePlace
    <3>2. ASSUME NEW r \in Sem, NEW y \in Thread
          PROVE  In(y, queue[r])'
                   <=> (status'[y] = "BLOCKED" /\ waitsOn'[y] = r)
      <4>0. /\ waitsOn'[y] = waitsOn[y]
            /\ status'[y] = IF y = w THEN "READY" ELSE status[y]
            /\ In(y, queue[r]) <=> status[y] = "BLOCKED" /\ waitsOn[y] = r
        BY <2>1, <2>5 DEF TypeOK, OnePlace
      <4>1. CASE r = s
        <5>1. In(y, queue[r])' <=> In(y, queue[r]) /\ y # w
          BY <2>2, <2>4, <4>1
        <5> QED
          BY <4>0, <5>1
      <4>2. CASE r # s
        <5>1. In(y, queue[r])' <=> In(y, queue[r])
          BY <2>4, <4>2
        <5> QED
          BY <2>1, <4>0, <4>2, <5>1
      <4> QED
        BY <4>1, <4>2
    <3>3. \A y \in Thread : status'[y] = "RUNNING" => y = currentThread'
      BY <2>1, <2>5 DEF TypeOK, OnePlace
    <3>4. ASSUME NEW r \in Sem
          PROVE  NoDuplicates(queue[r])'
      <4>1. CASE r = s
        BY <2>2, <2>4, <4>1
      <4>2. CASE r # s
        BY <2>4, <4>2 DEF OnePlace
      <4> QED
        BY <4>1, <4>2
    <3> QED
      BY <2>3, <3>1, <3>2, <3>3, <3>4 DEF OnePlace
  <2>8. CleanSwitch'
    BY <2>1, <2>5 DEF TypeOK, CleanSwitch, ControlState, Sleeping, SwitchedIn
  <2>9. ControlState'
    BY <2>1, <2>5 DEF TypeOK, ControlState, Sleeping, SwitchedIn, Executing
  <2> QED
    BY <2>6, <2>7, <2>8, <2>9
<1> QED
  BY <1>2, <1>3

\* What the code after SWITCH finds: the thread to delete, if any, is neither
\* the one switched in nor in any list.
LEMMA DeleteFacts ==
  ASSUME Structure, SwitchedIn
  PROVE  /\ StatusAfterDelete \in [Thread -> Status]
         /\ PcAfterDelete \in [Thread -> Location]
         /\ \A y \in Thread : y # toBeDestroyed =>
              StatusAfterDelete[y] = status[y] /\ PcAfterDelete[y] = pc[y]
         /\ \A y \in Thread : y = toBeDestroyed =>
              /\ StatusAfterDelete[y] = "NONE" /\ PcAfterDelete[y] = "none"
              /\ status[y] = "BLOCKED" /\ pc[y] = "finish"
              /\ waitsOn[y] = NULL /\ y # currentThread
  BY DEF Structure, TypeOK, CleanSwitch, ControlState, StatusAfterDelete,
         PcAfterDelete, Status, Location

\* Begin and the end of Yield preserve it.
LEMMA ResumeStep ==
  ASSUME Structure, NEW t \in Thread, Resume(t)
  PROVE  Structure'
<1> USE DEF Structure, Resume
<1>1. TypeOK'
  BY DeleteFacts DEF TypeOK, Location
<1>2. OnePlace'
  BY DeleteFacts DEF TypeOK, OnePlace
<1>3. CleanSwitch'
  BY DEF CleanSwitch, Sleeping
<1>4. ControlState'
  BY DeleteFacts DEF TypeOK, ControlState, Sleeping, SwitchedIn
<1> QED
  BY <1>1, <1>2, <1>3, <1>4

\* A resumed P that finds a unit preserves it.
LEMMA ResumeTakeStep ==
  ASSUME Structure, NEW t \in Thread, ResumeTake(t)
  PROVE  Structure'
<1> USE DEF Structure, ResumeTake
<1>0. waitsOn[t] \in Sem
  BY DEF TypeOK, ControlState
<1>1. TypeOK'
  BY <1>0, DeleteFacts DEF TypeOK, Location
<1>2. OnePlace'
  <2>1. /\ readyList' = readyList /\ queue' = queue
        /\ currentThread' = currentThread
        /\ \A y \in Thread :
             /\ status'[y] = IF y = toBeDestroyed THEN "NONE" ELSE status[y]
             /\ waitsOn'[y] = IF y = t THEN NULL ELSE waitsOn[y]
             /\ y = toBeDestroyed => status[y] = "BLOCKED" /\ waitsOn[y] = NULL
    BY DeleteFacts DEF TypeOK
  <2>2. status[t] = "RUNNING"
    BY DEF SwitchedIn
  <2> QED
    BY <2>1, <2>2 DEF OnePlace
<1>3. CleanSwitch'
  BY DEF CleanSwitch, Sleeping
<1>4. ControlState'
  BY DeleteFacts DEF TypeOK, ControlState, Sleeping, SwitchedIn
<1> QED
  BY <1>1, <1>2, <1>3, <1>4

\* A resumed P that was overtaken preserves it.
LEMMA ResumeBlockStep ==
  ASSUME Structure, NEW t \in Thread, ResumeBlock(t)
  PROVE  Structure'
<1> USE DEF Structure
<1> DEFINE s == waitsOn[t]
<1>0. /\ s \in Sem /\ status[t] = "RUNNING" /\ pc[t] = "P"
      /\ SwitchedIn /\ t = currentThread
  BY DEF TypeOK, ControlState, ResumeBlock, SwitchedIn
<1>1. ~In(t, queue[s])
  BY <1>0 DEF OnePlace
<1>2. /\ Append(queue[s], t) \in Seq(Thread)
      /\ NoDuplicates(Append(queue[s], t))
      /\ \A y : In(y, Append(queue[s], t)) <=> In(y, queue[s]) \/ y = t
  BY <1>0, <1>1, ListFacts, AppendIn
<1>3. /\ queue' \in [Sem -> Seq(Thread)]
      /\ queue'[s] = Append(queue[s], t)
      /\ \A r \in Sem \ {s} : queue'[r] = queue[r]
  <2>1. queue' = [queue EXCEPT ![s] = Append(queue[s], t)]
    BY Zenon DEF ResumeBlock
  <2>2. queue \in [Sem -> Seq(Thread)]
    BY DEF TypeOK
  <2> QED
    BY <1>0, <1>2, <2>1, <2>2, Zenon
<1>4. /\ UNCHANGED <<idling, currentThread, readyList, level, value, waitsOn>>
      /\ toBeDestroyed' = NULL
      /\ pc' = PcAfterDelete
      /\ status' = [StatusAfterDelete EXCEPT ![t] = "BLOCKED"]
  BY DEF ResumeBlock
<1> HIDE DEF s
<1>5. TypeOK'
  BY <1>0, <1>3, <1>4, DeleteFacts DEF TypeOK, Status
<1>6. OnePlace'
  <2>1. \A y \in Thread :
          status'[y] = IF y = t THEN "BLOCKED"
                       ELSE IF y = toBeDestroyed THEN "NONE" ELSE status[y]
    BY <1>0, <1>4, DeleteFacts
  <2>2. \A y \in Thread : In(y, readyList)' <=> status'[y] = "READY"
    BY <1>0, <1>4, <2>1, DeleteFacts DEF OnePlace
  <2>3. ASSUME NEW r \in Sem, NEW y \in Thread
        PROVE  In(y, queue[r])' <=> (status'[y] = "BLOCKED" /\ waitsOn'[y] = r)
    <3>0. /\ waitsOn'[y] = waitsOn[y]
          /\ In(y, queue[r]) <=> status[y] = "BLOCKED" /\ waitsOn[y] = r
          /\ y = toBeDestroyed => waitsOn[y] # r
      BY <1>0, <1>4, DeleteFacts DEF OnePlace
    <3>1. CASE r = s
      <4>1. In(y, queue[r])' <=> In(y, queue[r]) \/ y = t
        BY <1>2, <1>3, <3>1
      <4> QED
        BY <2>1, <3>0, <3>1, <4>1 DEF s
    <3>2. CASE r # s
      <4>1. In(y, queue[r])' <=> In(y, queue[r])
        BY <1>3, <3>2
      <4> QED
        BY <2>1, <3>0, <3>2, <4>1 DEF s
    <3> QED
      BY <3>1, <3>2
  <2>4. \A y \in Thread : status'[y] = "RUNNING" => y = currentThread'
    BY <1>4, <2>1 DEF OnePlace
  <2>5. ASSUME NEW r \in Sem
        PROVE  NoDuplicates(queue[r])'
    <3>1. CASE r = s
      BY <1>2, <1>3, <3>1
    <3>2. CASE r # s
      BY <1>3, <3>2 DEF OnePlace
    <3> QED
      BY <3>1, <3>2
  <2> QED
    BY <1>4, <2>2, <2>3, <2>4, <2>5 DEF OnePlace
<1>7. CleanSwitch'
  BY <1>4 DEF CleanSwitch, Sleeping
<1>8. ControlState'
  BY <1>0, <1>4, DeleteFacts DEF TypeOK, ControlState, Sleeping, SwitchedIn
<1> QED
  BY <1>5, <1>6, <1>7, <1>8

\* Every step of the kernel preserves the structural invariant.
LEMMA StructureNext == Structure /\ [Next]_vars => Structure'
<1> SUFFICES ASSUME Structure, [Next]_vars
             PROVE  Structure'
  OBVIOUS
<1>1. ASSUME NEW t \in Thread, ThreadStep(t)
      PROVE  Structure'
  BY <1>1, NewThreadStep, ForkStep, FinishStep, YieldStep, PTakeStep,
     PBlockStep, VEffectStep, ResumeStep, ResumeTakeStep, ResumeBlockStep
     DEF ThreadStep, V, Executing
<1>2. ASSUME NEW s \in Device, DeviceV(s)
      PROVE  Structure'
  BY <1>2, VEffectStep DEF DeviceV
<1>3. CASE UNCHANGED vars
  <2>1. TypeOK'
    BY <1>3 DEF vars, Structure, TypeOK
  <2>2. OnePlace'
    BY <1>3 DEF vars, Structure, OnePlace
  <2>3. CleanSwitch' /\ ControlState'
    BY <1>3 DEF vars, Structure, CleanSwitch, ControlState, Sleeping, SwitchedIn
  <2> QED
    BY <2>1, <2>2, <2>3 DEF Structure
<1> QED
  BY <1>1, <1>2, <1>3, SleepRunStep, IdleStep DEF Next

-----------------------------------------------------------------------------
(* Wake-ups.  V moves one thread into Woken and adds one unit; the P that  *)
(* resumes takes one of each; every other step changes neither for the     *)
(* worse.                                                                  *)

\* Woken is a finite set.
LEMMA WokenFinite ==
  ASSUME NEW s \in Sem
  PROVE  IsFiniteSet(Woken(s)) /\ Cardinality(Woken(s)) \in Nat
<1>1. Woken(s) \subseteq Thread
  BY DEF Woken
<1> QED
  BY <1>1, FS_Subset, FS_CardinalityType

\* A step that leaves the units and the sleepers alone, and no thread that was
\* woken blocks again or leaves P, keeps the balance.
LEMMA WokenKept ==
  ASSUME Structure, NoLostWakeup, NEW s \in Sem,
         value'[s] \in Int, value'[s] <= value[s],
         queue'[s] = queue[s],
         \A t \in Woken(s) : t \in Woken(s)'
  PROVE  queue'[s] # <<>> => Cardinality(Woken(s)') >= value'[s]
<1>1. Woken(s) \subseteq Woken(s)' /\ Woken(s)' \subseteq Thread
  BY DEF Woken
<1>2. IsFiniteSet(Woken(s)') /\ Cardinality(Woken(s)') \in Nat
  BY <1>1, FS_Subset, FS_CardinalityType
<1>3. Cardinality(Woken(s)) <= Cardinality(Woken(s)')
  BY <1>1, <1>2, FS_Subset
<1>4. queue[s] # <<>> => Cardinality(Woken(s)) >= value[s]
  BY DEF NoLostWakeup
<1>5. value[s] \in Int
  BY DEF Structure, TypeOK
<1> QED
  BY <1>2, <1>3, <1>4, <1>5, WokenFinite

\* Semaphore::V keeps the balance of units and woken threads.
LEMMA WakeupV ==
  ASSUME Structure, NoLostWakeup, NEW s \in Sem, VEffect(s)
  PROVE  NoLostWakeup'
<1> USE DEF Structure
<1> SUFFICES ASSUME NEW r \in Sem, queue'[r] # <<>>
             PROVE  Cardinality(Woken(r)') >= value'[r]
  BY DEF NoLostWakeup
<1> DEFINE w == Head(queue[s])
<1>1. CASE queue[s] = <<>>
  <2>1. UNCHANGED <<queue, status, waitsOn>> /\ r # s
    BY <1>1 DEF VEffect
  <2>2. value'[r] = value[r] /\ Woken(r)' = Woken(r)
    BY <2>1 DEF TypeOK, VEffect, Woken
  <2> QED
    BY <2>1, <2>2 DEF NoLostWakeup
<1>2. CASE queue[s] # <<>>
  <2>1. w \in Thread /\ status[w] = "BLOCKED" /\ waitsOn[w] = s
    BY <1>2, ListFacts
  <2>2. status' = [status EXCEPT ![w] = "READY"] /\ waitsOn' = waitsOn
    BY <1>2 DEF VEffect
  <2>3. queue' = [queue EXCEPT ![s] = Tail(queue[s])]
    BY <1>2, Zenon DEF VEffect
  <2> HIDE DEF w
  <2>4. Woken(r)' = IF r = s THEN Woken(s) \cup {w} ELSE Woken(r)
    BY <2>1, <2>2 DEF TypeOK, Woken
  <2>5. w \notin Woken(s)
    BY <2>1 DEF Woken
  <2>6. /\ value[r] \in Int
        /\ value'[r] = IF r = s THEN value[s] + 1 ELSE value[r]
    BY DEF TypeOK, VEffect
  <2>7. CASE r = s
    <3>1. Cardinality(Woken(s)) >= value[s]
      BY <1>2 DEF NoLostWakeup
    <3>2. Cardinality(Woken(s) \cup {w}) = Cardinality(Woken(s)) + 1
      BY <2>5, WokenFinite, FS_AddElement
    <3> QED
      BY <2>4, <2>6, <2>7, <3>1, <3>2, WokenFinite
  <2>8. CASE r # s
    <3>1. queue'[r] = queue[r]
      BY <2>3, <2>8 DEF TypeOK
    <3> QED
      BY <2>4, <2>6, <2>8, <3>1 DEF NoLostWakeup
  <2> QED
    BY <2>7, <2>8
<1> QED
  BY <1>1, <1>2

\* Semaphore::P blocks only when there is no unit to balance.
LEMMA WakeupPBlock ==
  ASSUME Structure, NoLostWakeup, NEW t \in Thread, NEW s \in Sem, PBlock(t, s)
  PROVE  NoLostWakeup'
<1> USE DEF Structure
<1>1. value' = value /\ value[s] = 0 /\ \A r \in Sem : value[r] \in Int
  BY DEF TypeOK, PBlock
<1>2. Structure'
  BY PBlockStep
<1>3. ASSUME NEW r \in Sem \ {s}
      PROVE  queue'[r] # <<>> => Cardinality(Woken(r)') >= value'[r]
  <2>1. queue'[r] = queue[r]
    BY DEF TypeOK, PBlock
  <2>2. \A y \in Woken(r) : y \in Woken(r)'
    BY DEF TypeOK, ControlState, PBlock, Executing, Woken
  <2> QED
    BY <1>1, <2>1, <2>2, WokenKept
<1>4. Cardinality(Woken(s)') \in Nat
  <2>1. Woken(s)' \subseteq Thread
    BY DEF Woken
  <2> QED
    BY <2>1, FS_Subset, FS_CardinalityType
<1>5. Cardinality(Woken(s)') >= value'[s]
  BY <1>1, <1>4
<1> QED
  BY <1>3, <1>5 DEF NoLostWakeup

\* A resumed P takes one unit and leaves Woken.
LEMMA WakeupResumeTake ==
  ASSUME Structure, NoLostWakeup, NEW t \in Thread, ResumeTake(t)
  PROVE  NoLostWakeup'
<1> USE DEF Structure
<1>0. PICK s \in Sem : s = waitsOn[t]
  BY DEF TypeOK, ControlState, ResumeTake
<1>1. SwitchedIn /\ t = currentThread /\ status[t] = "RUNNING"
  BY DEF TypeOK, ControlState, ResumeTake, SwitchedIn
<1>2. /\ queue' = queue
      /\ value' = [value EXCEPT ![s] = value[s] - 1]
      /\ waitsOn' = [waitsOn EXCEPT ![t] = NULL]
      /\ status' = StatusAfterDelete
  BY <1>0 DEF ResumeTake
<1>3. \A r \in Sem : value[r] \in Int /\ value'[r] \in Int
  BY <1>1, <1>2 DEF TypeOK
<1>4. ASSUME NEW r \in Sem \ {s}
      PROVE  queue'[r] # <<>> => Cardinality(Woken(r)') >= value'[r]
  <2>1. value'[r] = value[r]
    BY <1>2 DEF TypeOK
  <2>2. \A y \in Woken(r) : y \in Woken(r)'
    BY <1>0, <1>1, <1>2, DeleteFacts DEF TypeOK, Woken
  <2> QED
    BY <1>2, <1>3, <2>1, <2>2, WokenKept
<1>5. Woken(s)' = Woken(s) \ {t}
  BY <1>0, <1>1, <1>2, DeleteFacts DEF TypeOK, Woken
<1>6. t \in Woken(s)
  BY <1>0, <1>1 DEF Woken
<1>7. Cardinality(Woken(s)') = Cardinality(Woken(s)) - 1
  BY <1>1, <1>5, <1>6, WokenFinite, FS_RemoveElement
<1>8. queue'[s] # <<>> => Cardinality(Woken(s)') >= value'[s]
  <2>1. value'[s] = value[s] - 1
    BY <1>1, <1>2 DEF TypeOK
  <2>2. queue[s] # <<>> => Cardinality(Woken(s)) >= value[s]
    BY <1>1 DEF NoLostWakeup
  <2> QED
    BY <1>1, <1>2, <1>3, <1>7, <2>1, <2>2, WokenFinite
<1> QED
  BY <1>4, <1>8 DEF NoLostWakeup

\* A resumed P blocks again only when there is no unit.
LEMMA WakeupResumeBlock ==
  ASSUME Structure, NoLostWakeup, NEW t \in Thread, ResumeBlock(t)
  PROVE  NoLostWakeup'
<1> USE DEF Structure
<1>0. PICK s \in Sem : s = waitsOn[t]
  BY DEF TypeOK, ControlState, ResumeBlock
<1>1. /\ SwitchedIn /\ t = currentThread
      /\ value' = value /\ value[s] = 0 /\ waitsOn' = waitsOn
      /\ status' = [StatusAfterDelete EXCEPT ![t] = "BLOCKED"]
  BY <1>0 DEF ResumeBlock
<1>2. ASSUME NEW r \in Sem \ {s}
      PROVE  queue'[r] # <<>> => Cardinality(Woken(r)') >= value'[r]
  <2>1. queue'[r] = queue[r]
    BY <1>0 DEF TypeOK, ResumeBlock
  <2>2. \A y \in Woken(r) : y \in Woken(r)'
    BY <1>0, <1>1, DeleteFacts DEF TypeOK, Woken
  <2> QED
    BY <1>1, <2>1, <2>2, WokenKept DEF TypeOK
<1>3. Cardinality(Woken(s)') \in Nat
  <2>1. Woken(s)' \subseteq Thread
    BY DEF Woken
  <2> QED
    BY <2>1, FS_Subset, FS_CardinalityType
<1> QED
  BY <1>1, <1>2, <1>3 DEF NoLostWakeup

\* The remaining steps leave the queues alone and add no unit.
LEMMA WakeupOther ==
  ASSUME Structure, NoLostWakeup, queue' = queue,
         value' \in [Sem -> Int],
         \A s \in Sem : value'[s] <= value[s],
         \A s \in Sem : \A t \in Woken(s) : t \in Woken(s)'
  PROVE  NoLostWakeup'
  BY WokenKept DEF NoLostWakeup

\* Every step of the kernel keeps the balance.
LEMMA WakeupNext == Structure /\ NoLostWakeup /\ [Next]_vars => NoLostWakeup'
<1> SUFFICES ASSUME Structure, NoLostWakeup, [Next]_vars
             PROVE  NoLostWakeup'
  OBVIOUS
<1>0. value \in [Sem -> Int]
  BY DEF Structure, TypeOK
<1>1. ASSUME NEW t \in Thread, NEW u \in Thread, NewThread(t, u) \/ Fork(t, u)
      PROVE  NoLostWakeup'
  <2>1. queue' = queue /\ value' = value
    BY <1>1 DEF NewThread, Fork
  <2>2. \A s \in Sem : \A y \in Woken(s) : y \in Woken(s)'
    BY <1>1 DEF NewThread, Fork, Woken, Structure, TypeOK
  <2> QED
    BY <1>0, <2>1, <2>2, WakeupOther
<1>2. ASSUME NEW t \in Thread, Finish(t)
      PROVE  NoLostWakeup'
  <2>1. queue' = queue /\ value' = value /\ waitsOn[t] = NULL
    BY <1>2 DEF Finish, Executing, Structure, ControlState
  <2>2. \A s \in Sem : \A y \in Woken(s) : y \in Woken(s)'
    BY <1>2, <2>1 DEF Finish, Woken, Structure, TypeOK
  <2> QED
    BY <1>0, <2>1, <2>2, WakeupOther
<1>3. ASSUME NEW t \in Thread, Yield(t)
      PROVE  NoLostWakeup'
  <2>1. queue' = queue /\ value' = value
    BY <1>3 DEF Yield
  <2>2. \A s \in Sem : \A y \in Woken(s) : y \in Woken(s)'
    BY <1>3, ListFacts DEF Yield, Executing, Woken, Structure, TypeOK
  <2> QED
    BY <1>0, <2>1, <2>2, WakeupOther
<1>4. ASSUME SleepRun
      PROVE  NoLostWakeup'
  <2>1. queue' = queue /\ value' = value
    BY <1>4 DEF SleepRun
  <2>2. \A s \in Sem : \A y \in Woken(s) : y \in Woken(s)'
    BY <1>4, ListFacts DEF SleepRun, Woken, Structure, TypeOK
  <2> QED
    BY <1>0, <2>1, <2>2, WakeupOther
<1>5. ASSUME UNCHANGED <<status, value, queue, waitsOn>>
      PROVE  NoLostWakeup'
  BY <1>5 DEF NoLostWakeup, Woken
<1>6. ASSUME NEW t \in Thread, NEW s \in Sem, PTake(t, s)
      PROVE  NoLostWakeup'
  <2>1. /\ queue' = queue /\ value' \in [Sem -> Int]
        /\ \A r \in Sem : value'[r] <= value[r]
    BY <1>0, <1>6 DEF PTake
  <2>2. \A r \in Sem : \A y \in Woken(r) : y \in Woken(r)'
    BY <1>6 DEF PTake, Woken
  <2> QED
    BY <2>1, <2>2, WakeupOther
<1>7. ASSUME NEW t \in Thread, Resume(t)
      PROVE  NoLostWakeup'
  <2>1. queue' = queue /\ value' = value /\ SwitchedIn
    BY <1>7 DEF Resume
  <2>2. \A s \in Sem : \A y \in Woken(s) : y \in Woken(s)'
    BY <1>7, <2>1, DeleteFacts DEF Resume, Woken
  <2> QED
    BY <1>0, <2>1, <2>2, WakeupOther
<1>8. ASSUME NEW t \in Thread, ThreadStep(t)
      PROVE  NoLostWakeup'
  BY <1>1, <1>2, <1>3, <1>6, <1>7, <1>8, WakeupV, WakeupPBlock,
     WakeupResumeTake, WakeupResumeBlock DEF ThreadStep, V
<1>9. CASE Idle \/ IdleReturn \/ UNCHANGED vars
  BY <1>5, <1>9 DEF Idle, IdleReturn, vars
<1>10. ASSUME NEW s \in Device, DeviceV(s)
       PROVE  NoLostWakeup'
  BY <1>10, WakeupV DEF DeviceV
<1> QED
  BY <1>4, <1>8, <1>9, <1>10 DEF Next

-----------------------------------------------------------------------------
(* The theorems.                                                           *)

\* The scheduler's and the semaphores' structural invariants hold in every
\* reachable state, for any threads and semaphores.
THEOREM StructureCorrect == Spec => []Structure
<1>1. Init => Structure
  BY StructureInit
<1>2. Structure /\ [Next]_vars => Structure'
  BY StructureNext
<1> QED
  BY <1>1, <1>2, PTL DEF Spec

\* Every variable of the thread kernel keeps its type: in particular no value of
\* a semaphore is ever negative.
THEOREM TypeCorrect == Spec => []TypeOK
<1>1. Structure => TypeOK
  BY DEF Structure
<1> QED
  BY <1>1, StructureCorrect, PTL

\* Every thread is in exactly one place; the assertion of List::Append holds.
THEOREM OnePlaceCorrect == Spec => []OnePlace
<1>1. Structure => OnePlace
  BY DEF Structure
<1> QED
  BY <1>1, StructureCorrect, PTL

\* Deferred deletion is safe: the assertions of Scheduler::Run and
\* Thread::~Thread hold.
THEOREM CleanSwitchCorrect == Spec => []CleanSwitch
<1>1. Structure => CleanSwitch
  BY DEF Structure
<1> QED
  BY <1>1, StructureCorrect, PTL

\* No V is ever lost on a sleeper.
THEOREM NoLostWakeupCorrect == Spec => []NoLostWakeup
<1>1. Init => NoLostWakeup
  BY DEF Init, NoLostWakeup
<1>2. Structure /\ NoLostWakeup /\ [Next]_vars => NoLostWakeup'
  BY WakeupNext
<1> QED
  BY <1>1, <1>2, StructureCorrect, PTL DEF Spec

-----------------------------------------------------------------------------
(* Refinement.                                                             *)

\* The threads the abstract semaphore sees waiting.
Waiting == [s \in Sem |-> {t \in Thread : waitsOn[t] = s}]

\* A step that changes neither a value nor who is inside P is a stutter.
LEMMA RefineStutter ==
  ASSUME UNCHANGED <<value, waitsOn>>
  PROVE  UNCHANGED Abstract!vars
  BY DEF Abstract!vars

\* Each step of the kernel is a step of the abstract semaphores or a stutter.
LEMMA RefineNext == Structure /\ [Next]_vars => [Abstract!Next]_(Abstract!vars)
<1> SUFFICES ASSUME Structure, [Next]_vars
             PROVE  [Abstract!Next]_(Abstract!vars)
  OBVIOUS
<1> USE DEF Structure
<1>1. ASSUME NEW s \in Sem, VEffect(s)
      PROVE  Abstract!Next
  <2>1. Abstract!Release(s)
    BY <1>1 DEF VEffect, Abstract!Release
  <2> QED
    BY <2>1 DEF Abstract!Next
<1>2. ASSUME NEW t \in Thread, NEW s \in Sem, PTake(t, s)
      PROVE  Abstract!Next
  <2>1. waitsOn[t] = NULL /\ value[s] > 0
    BY <1>2 DEF PTake, Executing, ControlState, TypeOK
  <2>2. ~Abstract!IsWaiting(t)
    BY <2>1 DEF Abstract!IsWaiting
  <2>3. Abstract!Take(t, s)
    BY <1>2, <2>1, <2>2 DEF PTake, Abstract!Take
  <2> QED
    BY <2>3 DEF Abstract!Next
<1>3. ASSUME NEW t \in Thread, NEW s \in Sem, PBlock(t, s)
      PROVE  Abstract!Next
  <2>1. /\ waitsOn[t] = NULL /\ value[s] = 0 /\ value' = value
        /\ waitsOn' = [waitsOn EXCEPT ![t] = s]
    BY <1>3 DEF PBlock, Executing, ControlState
  <2>2. ~Abstract!IsWaiting(t)
    BY <2>1 DEF Abstract!IsWaiting
  <2>3. Waiting' = [Waiting EXCEPT ![s] = @ \cup {t}]
    <3>1. \A y \in Thread : waitsOn'[y] = IF y = t THEN s ELSE waitsOn[y]
      BY <2>1 DEF TypeOK
    <3>2. ASSUME NEW r \in Sem
          PROVE  {y \in Thread : waitsOn'[y] = r}
                   = IF r = s THEN {y \in Thread : waitsOn[y] = s} \cup {t}
                     ELSE {y \in Thread : waitsOn[y] = r}
      BY <2>1, <3>1
    <3> QED
      BY <3>2, Zenon DEF Waiting
  <2>4. Abstract!Wait(t, s)
    <3>1. UNCHANGED value /\ value[s] = 0
      BY <2>1
    <3> QED
      BY <2>2, <2>3, <3>1 DEF Waiting, Abstract!Wait
  <2> QED
    BY <2>4 DEF Abstract!Next
<1>4. ASSUME NEW t \in Thread, ResumeTake(t)
      PROVE  Abstract!Next
  <2>1. PICK s \in Sem : s = waitsOn[t]
    BY <1>4 DEF ResumeTake, TypeOK, ControlState
  <2>2. /\ value[s] > 0
        /\ value' = [value EXCEPT ![s] = @ - 1]
        /\ waitsOn' = [waitsOn EXCEPT ![t] = NULL]
    BY <1>4, <2>1 DEF ResumeTake, TypeOK
  <2>3. Waiting' = [Waiting EXCEPT ![s] = @ \ {t}]
    BY <2>1, <2>2 DEF Waiting, TypeOK
  <2>4. t \in Waiting[s]
    BY <2>1 DEF Waiting
  <2>5. Abstract!Grant(t, s)
    BY <2>2, <2>3, <2>4 DEF Waiting, Abstract!Grant
  <2> QED
    BY <2>5 DEF Abstract!Next
<1>5. ASSUME NEW t \in Thread, ThreadStep(t)
      PROVE  [Abstract!Next]_(Abstract!vars)
  <2>1. CASE UNCHANGED <<value, waitsOn>>
    BY <2>1, RefineStutter
  <2> QED
    BY <1>1, <1>2, <1>3, <1>4, <1>5, <2>1 DEF ThreadStep, NewThread, Fork,
       Finish, Yield, V, Resume, ResumeBlock
<1>6. ASSUME NEW s \in Device, DeviceV(s)
      PROVE  Abstract!Next
  BY <1>1, <1>6 DEF DeviceV
<1>7. CASE SleepRun \/ Idle \/ IdleReturn \/ UNCHANGED vars
  BY <1>7, RefineStutter DEF SleepRun, Idle, IdleReturn, vars
<1> QED
  BY <1>5, <1>6, <1>7 DEF Next

\* Semaphore on top of Thread and Scheduler implements the counting semaphore.
THEOREM SemaphoreRefinement == Spec => ImplementsSemaphore
<1>1. Init => Abstract!Init
  BY DEF Init, Abstract!Init
<1>2. Structure /\ [Next]_vars => [Abstract!Next]_(Abstract!vars)
  BY RefineNext
<1> QED
  BY <1>1, <1>2, StructureCorrect, PTL
     DEF Spec, ImplementsSemaphore, Abstract!Spec
=============================================================================
