------------------------------ MODULE Threads ------------------------------
(***************************************************************************)
(* The thread kernel: Thread (threads/thread.cc), Scheduler                *)
(* (threads/scheduler.cc) and Semaphore (threads/synch.cc) on the one      *)
(* simulated CPU.                                                          *)
(*                                                                         *)
(* Kernel code is preempted only inside Interrupt::OneTick, which runs     *)
(* when interrupts go from off to on and after each user instruction.  So  *)
(* a step of this module is the code between two such points, cut once     *)
(* more at SWITCH: everything up to it is done by the outgoing thread,     *)
(* everything after it by the incoming one, interrupts being off.          *)
(***************************************************************************)
EXTENDS Integers, Sequences, FiniteSets

CONSTANTS Thread,        \* the Thread objects there may be
          Main,          \* the thread Kernel::Initialize wraps around main()
          Sem,           \* the semaphores
          Device,        \* those a device's CallBack may V
          InitialValue,  \* the value each semaphore is created with
          MaxValue,      \* bound: no V beyond this value
          NULL

ASSUME ThreadsAssumption ==
  /\ IsFiniteSet(Thread)
  /\ Main \in Thread
  /\ Device \subseteq Sem
  /\ MaxValue \in Nat
  /\ InitialValue \in [Sem -> 0..MaxValue]
  /\ NULL \notin Thread
  /\ NULL \notin Sem

VARIABLES
  status,         \* Thread::status; "NONE" for an object that is not allocated
  currentThread,  \* Kernel::currentThread
  readyList,      \* Scheduler::readyList
  toBeDestroyed,  \* Scheduler::toBeDestroyed
  level,          \* Interrupt::level
  idling,         \* Interrupt::status is IdleMode
  value,          \* Semaphore::value
  queue,          \* Semaphore::queue
  pc,             \* where the thread continues when it is next switched in
  waitsOn         \* the semaphore whose P the thread is inside of

vars == <<status, currentThread, readyList, toBeDestroyed, level, idling,
          value, queue, pc, waitsOn>>

Status == {"NONE", "JUST_CREATED", "RUNNING", "READY", "BLOCKED"}

(* "none":   not forked, or deleted                                        *)
(* "begin":  forked; ThreadRoot will call Begin                            *)
(* "body":   executing, interrupts on                                      *)
(* "yield":  inside Yield, switched out                                    *)
(* "P":      inside the while loop of P                                    *)
(* "finish": inside Finish, in Sleep(TRUE)                                 *)
Location == {"none", "begin", "body", "yield", "P", "finish"}

TypeOK ==
  /\ status \in [Thread -> Status]
  /\ currentThread \in Thread
  /\ readyList \in Seq(Thread)
  /\ toBeDestroyed \in Thread \cup {NULL}
  /\ level \in {"IntOn", "IntOff"}
  /\ idling \in BOOLEAN
  /\ value \in [Sem -> 0..MaxValue]
  /\ queue \in [Sem -> Seq(Thread)]
  /\ pc \in [Thread -> Location]
  /\ waitsOn \in [Thread -> Sem \cup {NULL}]

\* Kernel::Initialize: the main thread runs, nothing else exists.
Init ==
  /\ status = [t \in Thread |-> IF t = Main THEN "RUNNING" ELSE "NONE"]
  /\ currentThread = Main
  /\ readyList = <<>>
  /\ toBeDestroyed = NULL
  /\ level = "IntOn"
  /\ idling = FALSE
  /\ value = InitialValue
  /\ queue = [s \in Sem |-> <<>>]
  /\ pc = [t \in Thread |-> IF t = Main THEN "body" ELSE "none"]
  /\ waitsOn = [t \in Thread |-> NULL]

-----------------------------------------------------------------------------
(* What the code on the CPU is doing.                                      *)

\* A thread runs with interrupts on.
Executing(t) == currentThread = t /\ status[t] = "RUNNING" /\ level = "IntOn"

\* The current thread is in the loop of Sleep.  It is READY rather than
\* BLOCKED if a handler called from Idle woke it.
Sleeping == status[currentThread] # "RUNNING" /\ level = "IntOff"

\* SWITCH has just returned in the current thread.
SwitchedIn == status[currentThread] = "RUNNING" /\ level = "IntOff"

-----------------------------------------------------------------------------
(* Threads.                                                                *)

\* new Thread
NewThread(t, u) ==
  /\ Executing(t)
  /\ status[u] = "NONE"
  /\ status' = [status EXCEPT ![u] = "JUST_CREATED"]
  /\ UNCHANGED <<idling, currentThread, readyList, toBeDestroyed, level, value,
                 queue, pc, waitsOn>>

\* Thread::Fork on the new thread u.
Fork(t, u) ==
  /\ Executing(t)
  /\ status[u] = "JUST_CREATED"
  /\ status' = [status EXCEPT ![u] = "READY"]
  /\ readyList' = Append(readyList, u)
  /\ pc' = [pc EXCEPT ![u] = "begin"]
  /\ UNCHANGED <<idling, currentThread, toBeDestroyed, level, value, queue,
                 waitsOn>>

\* Thread::Finish, up to the loop of Sleep(TRUE).  The main thread never
\* calls it: it ends in Interrupt::Halt.
Finish(t) ==
  /\ Executing(t)
  /\ t # Main
  /\ status' = [status EXCEPT ![t] = "BLOCKED"]
  /\ level' = "IntOff"
  /\ pc' = [pc EXCEPT ![t] = "finish"]
  /\ UNCHANGED <<idling, currentThread, readyList, toBeDestroyed, value, queue,
                 waitsOn>>

\* Mutant: FindNextToRun looks at the front of the list without removing it.
YieldKeepsFront(t) ==
  /\ Executing(t)
  /\ readyList # <<>>
  /\ readyList' = Append(readyList, t)
  /\ status' = [status EXCEPT ![t] = "READY", ![Head(readyList)] = "RUNNING"]
  /\ currentThread' = Head(readyList)
  /\ level' = "IntOff"
  /\ pc' = [pc EXCEPT ![t] = "yield"]
  /\ UNCHANGED <<idling, toBeDestroyed, value, queue, waitsOn>>

\* Mutant: ReadyToRun prepends.
YieldToFront(t) ==
  /\ Executing(t)
  /\ readyList # <<>>
  /\ readyList' = <<t>> \o Tail(readyList)
  /\ status' = [status EXCEPT ![t] = "READY", ![Head(readyList)] = "RUNNING"]
  /\ currentThread' = Head(readyList)
  /\ level' = "IntOff"
  /\ pc' = [pc EXCEPT ![t] = "yield"]
  /\ UNCHANGED <<idling, toBeDestroyed, value, queue, waitsOn>>

\* Thread::Yield when a thread is ready, up to SWITCH: a call of the thread
\* itself or the time slice at the end of Interrupt::OneTick.  With nobody
\* ready it changes nothing.
Yield(t) ==
  /\ Executing(t)
  /\ readyList # <<>>
  /\ readyList' = Append(Tail(readyList), t)
  /\ status' = [status EXCEPT ![t] = "READY", ![Head(readyList)] = "RUNNING"]
  /\ currentThread' = Head(readyList)
  /\ level' = "IntOff"
  /\ pc' = [pc EXCEPT ![t] = "yield"]
  /\ UNCHANGED <<idling, toBeDestroyed, value, queue, waitsOn>>

\* Mutant: Run is always called with finishing = FALSE.
SleepRunForgets ==
  /\ Sleeping
  /\ ~idling
  /\ readyList # <<>>
  /\ readyList' = Tail(readyList)
  /\ status' = [status EXCEPT ![Head(readyList)] = "RUNNING"]
  /\ currentThread' = Head(readyList)
  /\ UNCHANGED <<idling, toBeDestroyed, level, value, queue, pc, waitsOn>>

\* The end of Thread::Sleep, up to SWITCH: Scheduler::Run(next, finishing).
SleepRun ==
  /\ Sleeping
  /\ ~idling
  /\ readyList # <<>>
  /\ readyList' = Tail(readyList)
  /\ status' = [status EXCEPT ![Head(readyList)] = "RUNNING"]
  /\ currentThread' = Head(readyList)
  /\ toBeDestroyed' = IF pc[currentThread] = "finish"
                      THEN currentThread ELSE toBeDestroyed
  /\ UNCHANGED <<idling, level, value, queue, pc, waitsOn>>

\* Sleep finds nobody ready and calls Interrupt::Idle ...
Idle ==
  /\ Sleeping
  /\ ~idling
  /\ readyList = <<>>
  /\ idling' = TRUE
  /\ UNCHANGED <<status, currentThread, readyList, toBeDestroyed, level, value,
                 queue, pc, waitsOn>>

\* ... which returns when CheckIfDue has run the handlers that are due.  The
\* timer is always pending, so there is always one.
IdleReturn ==
  /\ idling
  /\ idling' = FALSE
  /\ UNCHANGED <<status, currentThread, readyList, toBeDestroyed, level, value,
                 queue, pc, waitsOn>>

-----------------------------------------------------------------------------
(* Semaphores.                                                             *)

\* Mutant: P does not test the value.
PTakeUntested(t, s) ==
  /\ Executing(t)
  /\ value' = [value EXCEPT ![s] = @ - 1]
  /\ UNCHANGED <<idling, status, currentThread, readyList, toBeDestroyed, level,
                 queue, pc, waitsOn>>

\* P finds a unit.
PTake(t, s) ==
  /\ Executing(t)
  /\ value[s] # 0
  /\ value' = [value EXCEPT ![s] = @ - 1]
  /\ UNCHANGED <<idling, status, currentThread, readyList, toBeDestroyed, level,
                 queue, pc, waitsOn>>

\* P finds none: the thread queues itself and sleeps.
PBlock(t, s) ==
  /\ Executing(t)
  /\ value[s] = 0
  /\ queue' = [queue EXCEPT ![s] = Append(@, t)]
  /\ status' = [status EXCEPT ![t] = "BLOCKED"]
  /\ level' = "IntOff"
  /\ pc' = [pc EXCEPT ![t] = "P"]
  /\ waitsOn' = [waitsOn EXCEPT ![t] = s]
  /\ UNCHANGED <<idling, currentThread, readyList, toBeDestroyed, value>>

\* Mutant: V wakes a waiter only when it makes the value positive.
VWakesAtZero(s) ==
  /\ value[s] < MaxValue
  /\ value' = [value EXCEPT ![s] = @ + 1]
  /\ IF queue[s] = <<>> \/ value[s] # 0
     THEN UNCHANGED <<queue, status, readyList>>
     ELSE /\ queue' = [queue EXCEPT ![s] = Tail(@)]
          /\ status' = [status EXCEPT ![Head(queue[s])] = "READY"]
          /\ readyList' = Append(readyList, Head(queue[s]))
  /\ UNCHANGED <<idling, currentThread, toBeDestroyed, level, pc, waitsOn>>

\* The effect of V: wake the first waiter, add a unit.
VEffect(s) ==
  /\ value[s] < MaxValue
  /\ value' = [value EXCEPT ![s] = @ + 1]
  /\ IF queue[s] = <<>>
     THEN UNCHANGED <<queue, status, readyList>>
     ELSE /\ queue' = [queue EXCEPT ![s] = Tail(@)]
          /\ status' = [status EXCEPT ![Head(queue[s])] = "READY"]
          /\ readyList' = Append(readyList, Head(queue[s]))
  /\ UNCHANGED <<idling, currentThread, toBeDestroyed, level, pc, waitsOn>>

\* V called by a thread.
V(t, s) == Executing(t) /\ VEffect(s)

\* V called by a device's CallBack: from Interrupt::OneTick while a thread
\* runs, or from Interrupt::Idle.
DeviceV(s) ==
  /\ Executing(currentThread) \/ idling
  /\ VEffect(s)

-----------------------------------------------------------------------------
(* The incoming side of SWITCH.                                            *)

\* Scheduler::CheckToBeDestroyed
StatusAfterDelete ==
  [t \in Thread |-> IF t = toBeDestroyed THEN "NONE" ELSE status[t]]

PcAfterDelete ==
  [t \in Thread |-> IF t = toBeDestroyed THEN "none" ELSE pc[t]]

\* Mutant: Begin and Run do not call CheckToBeDestroyed.
ResumeKeepsCarcass(t) ==
  /\ SwitchedIn
  /\ t = currentThread
  /\ pc[t] \in {"begin", "yield"}
  /\ pc' = [pc EXCEPT ![t] = "body"]
  /\ level' = "IntOn"
  /\ UNCHANGED <<idling, status, toBeDestroyed, currentThread, readyList, value,
                 queue, waitsOn>>

\* Thread::Begin, and the end of Yield: back to the body, interrupts on.
Resume(t) ==
  /\ SwitchedIn
  /\ t = currentThread
  /\ pc[t] \in {"begin", "yield"}
  /\ status' = StatusAfterDelete
  /\ toBeDestroyed' = NULL
  /\ pc' = [PcAfterDelete EXCEPT ![t] = "body"]
  /\ level' = "IntOn"
  /\ UNCHANGED <<idling, currentThread, readyList, value, queue, waitsOn>>

\* Sleep returns into the loop of P, which finds a unit ...
ResumeTake(t) ==
  /\ SwitchedIn
  /\ t = currentThread
  /\ pc[t] = "P"
  /\ value[waitsOn[t]] # 0
  /\ status' = StatusAfterDelete
  /\ toBeDestroyed' = NULL
  /\ value' = [value EXCEPT ![waitsOn[t]] = @ - 1]
  /\ waitsOn' = [waitsOn EXCEPT ![t] = NULL]
  /\ pc' = [PcAfterDelete EXCEPT ![t] = "body"]
  /\ level' = "IntOn"
  /\ UNCHANGED <<idling, currentThread, readyList, queue>>

\* Mutant: the loop of P is an IF; an overtaken thread leaves with no unit.
ResumeLeaves(t) ==
  /\ SwitchedIn
  /\ t = currentThread
  /\ pc[t] = "P"
  /\ value[waitsOn[t]] = 0
  /\ status' = StatusAfterDelete
  /\ toBeDestroyed' = NULL
  /\ waitsOn' = [waitsOn EXCEPT ![t] = NULL]
  /\ pc' = [PcAfterDelete EXCEPT ![t] = "body"]
  /\ level' = "IntOn"
  /\ UNCHANGED <<idling, currentThread, readyList, queue, value>>

\* ... or was overtaken, and queues the thread again.
ResumeBlock(t) ==
  /\ SwitchedIn
  /\ t = currentThread
  /\ pc[t] = "P"
  /\ value[waitsOn[t]] = 0
  /\ queue' = [queue EXCEPT ![waitsOn[t]] = Append(@, t)]
  /\ status' = [StatusAfterDelete EXCEPT ![t] = "BLOCKED"]
  /\ toBeDestroyed' = NULL
  /\ pc' = PcAfterDelete
  /\ UNCHANGED <<idling, currentThread, readyList, level, value, waitsOn>>

-----------------------------------------------------------------------------
ThreadStep(t) ==
  \/ \E u \in Thread : NewThread(t, u) \/ Fork(t, u)
  \/ Finish(t)
  \/ Yield(t)
  \/ \E s \in Sem : PTake(t, s) \/ PBlock(t, s) \/ V(t, s)
  \/ Resume(t)
  \/ ResumeTake(t)
  \/ ResumeBlock(t)

Next ==
  \/ \E t \in Thread : ThreadStep(t)
  \/ SleepRun
  \/ Idle
  \/ IdleReturn
  \/ \E s \in Device : DeviceV(s)

Spec == Init /\ [][Next]_vars

\* SWITCH returns and Sleep's loop runs on; the timer is never disabled
\* (machine/timer.cc), so a running thread is time-sliced again and again.
Fairness ==
  /\ WF_vars(SleepRun)
  /\ WF_vars(IdleReturn)
  /\ \A t \in Thread : /\ WF_vars(Resume(t) \/ ResumeTake(t) \/ ResumeBlock(t))
                       /\ WF_vars(Yield(t))

FairSpec == Spec /\ Fairness

-----------------------------------------------------------------------------
(* Properties.                                                             *)

In(t, seq) == \E i \in 1..Len(seq) : seq[i] = t

NoDuplicates(seq) == \A i, j \in 1..Len(seq) : seq[i] = seq[j] => i = j

\* Each thread is in exactly one place: the ready list if and only if it is
\* READY, once; the queue of one semaphore if and only if it is blocked in a P
\* of that semaphore, once; the CPU if it is RUNNING.  This is what List::Append
\* asserts (!IsInList, lib/list.cc) each time a thread is queued, and it means
\* that no list ever holds a deleted thread.
OnePlace ==
  /\ NoDuplicates(readyList)
  /\ \A t \in Thread : In(t, readyList) <=> status[t] = "READY"
  /\ \A s \in Sem :
       /\ NoDuplicates(queue[s])
       /\ \A t \in Thread :
            In(t, queue[s]) <=> (status[t] = "BLOCKED" /\ waitsOn[t] = s)
  /\ \A t \in Thread : status[t] = "RUNNING" => t = currentThread

\* The assertion of Scheduler::Run (toBeDestroyed == NULL when a thread
\* finishes), that of Thread::~Thread (the deleted thread is not current), and
\* that a thread marked for deletion has really finished: it is in no list and
\* will never be switched to.
CleanSwitch ==
  /\ (Sleeping /\ pc[currentThread] = "finish") => toBeDestroyed = NULL
  /\ toBeDestroyed # NULL =>
       /\ SwitchedIn
       /\ toBeDestroyed # currentThread
       /\ pc[toBeDestroyed] = "finish"
       /\ status[toBeDestroyed] = "BLOCKED"

\* Where a thread will continue agrees with its status and with what the CPU is
\* doing: a thread is switched to only at a point where it gave the CPU up, a
\* sleeping current thread is in P or in Finish, and a finished thread is either
\* still on the CPU or waiting to be deleted.  The assertions on the interrupt
\* level in Sleep, Run, ReadyToRun and FindNextToRun rest on this.
ControlState ==
  /\ \A t \in Thread :
       /\ status[t] \in {"NONE", "JUST_CREATED"} <=> pc[t] = "none"
       /\ status[t] = "READY" => pc[t] \in {"begin", "yield", "P"}
       /\ status[t] = "BLOCKED" => pc[t] \in {"P", "finish"}
       /\ waitsOn[t] # NULL <=> pc[t] = "P"
       /\ pc[t] = "finish" =>
            /\ status[t] = "BLOCKED"
            /\ t = currentThread \/ t = toBeDestroyed
  /\ level = "IntOn" =>
       status[currentThread] = "RUNNING" /\ pc[currentThread] = "body"
  /\ SwitchedIn => pc[currentThread] \in {"begin", "yield", "P"}
  /\ Sleeping => pc[currentThread] \in {"P", "finish"}
  /\ idling => Sleeping

\* The threads V has woken that have not yet re-tested the value in P.
Woken(s) == {t \in Thread : waitsOn[t] = s /\ status[t] # "BLOCKED"}

\* No wake-up is lost: while a thread sleeps in the queue of a semaphore, each
\* unit of the semaphore is matched by a woken thread that will test for it.
\* Semaphore::V wakes one thread per unit, and P re-tests in a loop, so units
\* and sleepers can never be left facing each other.
NoLostWakeup ==
  \A s \in Sem : queue[s] # <<>> => Cardinality(Woken(s)) >= value[s]

\* The semaphores on top of the scheduler are counting semaphores: a thread
\* inside P leaves it only by consuming a unit, and V adds exactly one.
Abstract == INSTANCE CountingSemaphore
            WITH avail <- value,
                 waiting <- [s \in Sem |-> {t \in Thread : waitsOn[t] = s}]

ImplementsSemaphore == Abstract!Spec

\* Round robin leaves no ready thread out: it gets the CPU as long as the timer
\* goes on slicing (Scheduler::ReadyToRun appends, FindNextToRun takes the
\* front).
ReadyRuns ==
  \A t \in Thread : status[t] = "READY" ~> status[t] = "RUNNING"

\* A finished thread is reclaimed by the thread that runs next, when there is
\* one (Scheduler::CheckToBeDestroyed).
FinishedReclaimed ==
  \A t \in Thread :
    (pc[t] = "finish" /\ readyList # <<>>) ~> status[t] = "NONE"

\* A unit and a sleeper do not stay together: the woken thread runs and takes
\* the unit, or finds it taken.
UnitsAreTaken ==
  \A s \in Sem :
    (value[s] > 0 /\ queue[s] # <<>>) ~> (value[s] = 0 \/ queue[s] = <<>>)
=============================================================================
