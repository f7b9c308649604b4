---------------------------- MODULE Interrupts ----------------------------
(***************************************************************************)
(* Simulated time (machine/interrupt.cc): the sorted list of pending       *)
(* interrupts, OneTick and Idle, which advance the clock and call the      *)
(* handlers that are due, the timer and the alarm that ask for a yield     *)
(* (machine/timer.cc, threads/alarm.cc), and the one status variable that  *)
(* all threads share.                                                      *)
(*                                                                         *)
(* A pending interrupt holds the ticks still to go (when - totalTicks).    *)
(***************************************************************************)
EXTENDS Integers, SequencesExt, FiniteSets

CONSTANTS Thread, Main,
          SystemTick, UserTick,
          TimerDelays,  \* what Timer::SetInterrupt may choose: {TimerTicks}, or
                        \* with -rs anything in 1..(2 * TimerTicks)
          PollTime,     \* NetworkTime: an input device polls for ever
          IoTimes       \* the latencies of a disk, console or network request

VARIABLES
  pending,        \* Interrupt::pending
  status,         \* Interrupt::status
  inHandler, yieldOnReturn,
  current,        \* kernel->currentThread
  mode,           \* mode[t]: whether t executes user code
  parked,         \* how a thread that is not running left the CPU
  oldStatus       \* the local variable of each thread's OneTick

vars == <<pending, status, inHandler, yieldOnReturn, current, mode, parked, oldStatus>>

\* Mutant: an interrupt goes behind all others.
InsertLast(list, e) == Append(list, e)

\* Which of two interrupts occurs first.
PendingCompare(x, y) ==
  IF x.left < y.left THEN -1 ELSE IF x.left > y.left THEN 1 ELSE 0

\* Interrupt::Schedule: SortedList::Insert, behind those of the same time.
Schedule(list, e) ==
  LET k == Cardinality({i \in DOMAIN list : PendingCompare(list[i], e) <= 0})
  IN  InsertAt(list, k + 1, e)

Entry(d, n) == [dev |-> d, left |-> n]
Io == {<<"io", t>> : t \in Thread}   \* the device that t waits for

\* Interrupt::Interrupt: nothing is pending; then Alarm's Timer schedules itself.
Interrupt ==
  /\ status = "System"
  /\ inHandler = FALSE
  /\ yieldOnReturn = FALSE
TimerList(d) == Schedule(<<>>, Entry(<<"timer">>, d))

\* Kernel::Initialize, with the timer and an input device set up; the other
\* threads have been forked.
Init ==
  /\ \E d \in TimerDelays : pending = Schedule(TimerList(d), Entry(<<"poll">>, PollTime))
  /\ Interrupt
  /\ current = Main
  /\ mode = [t \in Thread |-> "System"]
  /\ parked = [t \in Thread |-> IF t = Main THEN "no" ELSE "new"]
  /\ oldStatus = [t \in Thread |-> "System"]

Ready == {t \in Thread : parked[t] \in {"new", "tick", "woken"}}
Running == parked[current] = "no" /\ ~inHandler /\ ~yieldOnReturn

Elapsed(n) == [i \in DOMAIN pending |-> [pending[i] EXCEPT !.left = @ - n]]
Due(list) == list # <<>> /\ Head(list).left <= 0

----------------------------------------------------------------------------
\* Machine::RaiseException around the handler of a system call.
EnterKernel ==
  /\ Running
  /\ status = "User"
  /\ status' = "System"
  /\ mode' = [mode EXCEPT ![current] = "System"]
  /\ UNCHANGED <<pending, inHandler, yieldOnReturn, current, parked, oldStatus>>

\* Back to the program, or Machine::Run for the first time.
LeaveKernel ==
  /\ Running
  /\ mode[current] = "System"
  /\ status' = "User"
  /\ mode' = [mode EXCEPT ![current] = "User"]
  /\ UNCHANGED <<pending, inHandler, yieldOnReturn, current, parked, oldStatus>>

\* Interrupt::OneTick: time passes, and CheckIfDue looks at the first one.
OneTick ==
  LET list == Elapsed(IF status = "System" THEN SystemTick ELSE UserTick)
  IN  /\ Running
      /\ pending' = list
      /\ inHandler' = Due(list)
      /\ oldStatus' = [oldStatus EXCEPT ![current] = status]
      /\ UNCHANGED <<status, yieldOnReturn, current, mode, parked>>

\* Mutant: the timer fires once.
AgainNot(e, list, d) ==
  IF e.dev = <<"poll">> THEN Schedule(list, Entry(<<"poll">>, PollTime)) ELSE list

\* Timer::CallBack and the polling devices schedule themselves again.
Again(e, list, d) ==
  CASE e.dev = <<"timer">> -> Schedule(list, Entry(<<"timer">>, d))
    [] e.dev = <<"poll">> -> Schedule(list, Entry(<<"poll">>, PollTime))
    [] e.dev \in Io -> list

\* Mutant: the alarm asks for a yield in the idle loop too.
AsksAlways(e) == e.dev = <<"timer">>

\* Alarm::CallBack.
Asks(e) == e.dev = <<"timer">> /\ status # "Idle"

YieldOnReturn(e) == yieldOnReturn' = (yieldOnReturn \/ Asks(e))

\* Mutant: the device wakes nobody.
WokenNone(e) == parked

\* A device wakes the thread that waits for it.
Woken(e) == [t \in Thread |-> IF e.dev = <<"io", t>> THEN "woken" ELSE parked[t]]

\* One turn of the loop of CheckIfDue: the first interrupt is taken off and its
\* handler runs.
Fire ==
  LET e == Head(pending)
  IN  /\ inHandler
      /\ Due(pending)
      /\ \E d \in TimerDelays : pending' = Again(e, Tail(pending), d)
      /\ YieldOnReturn(e)
      /\ parked' = Woken(e)
      /\ UNCHANGED <<status, inHandler, current, mode, oldStatus>>

\* The loop ends; Idle sets the status back.
Fired ==
  /\ inHandler
  /\ ~Due(pending)
  /\ inHandler' = FALSE
  /\ status' = IF status = "Idle" THEN "System" ELSE status
  /\ UNCHANGED <<pending, yieldOnReturn, current, mode, parked, oldStatus>>

\* Mutant: the status is not set back after the yield.
ResumedForgets(t) == status

\* What status is when t goes on: the end of OneTick restores it, a thread
\* that slept or is new goes on in the kernel.
Resumed(t) == IF parked[t] = "tick" THEN oldStatus[t] ELSE "System"

\* OneTick's Yield, if a handler asked for it.
YieldNow ==
  /\ yieldOnReturn
  /\ ~inHandler
  /\ yieldOnReturn' = FALSE
  /\ IF Ready = {} THEN UNCHANGED <<current, status, parked>>
     ELSE \E t \in Ready : /\ current' = t
                           /\ parked' = [parked EXCEPT ![current] = "tick", ![t] = "no"]
                           /\ status' = Resumed(t)
  /\ UNCHANGED <<pending, inHandler, mode, oldStatus>>

\* A request to a device and the Sleep that waits for its interrupt.
Sleep(n) ==
  /\ Running
  /\ mode[current] = "System"
  /\ pending' = Schedule(pending, Entry(<<"io", current>>, n))
  /\ parked' = [parked EXCEPT ![current] = "sleep"]
  /\ UNCHANGED <<status, inHandler, yieldOnReturn, current, mode, oldStatus>>

\* Thread::Sleep finds a thread to run (perhaps the sleeper itself),
Dispatch(t) ==
  /\ parked[current] # "no"
  /\ ~inHandler
  /\ t \in Ready
  /\ current' = t
  /\ parked' = [parked EXCEPT ![t] = "no"]
  /\ status' = Resumed(t)
  /\ UNCHANGED <<pending, inHandler, yieldOnReturn, mode, oldStatus>>

\* or calls Interrupt::Idle, which advances the clock to the next interrupt.
Idle ==
  /\ parked[current] # "no"
  /\ ~inHandler
  /\ Ready = {}
  /\ pending # <<>>   \* otherwise the machine halts
  /\ status' = "Idle"
  /\ pending' = IF Due(pending) THEN pending ELSE Elapsed(Head(pending).left)
  /\ inHandler' = TRUE
  /\ UNCHANGED <<yieldOnReturn, current, mode, parked, oldStatus>>

Kernel == OneTick \/ Fire \/ Fired \/ YieldNow \/ Idle \/ \E t \in Thread : Dispatch(t)

Next == EnterKernel \/ LeaveKernel \/ Kernel \/ \E n \in IoTimes : Sleep(n)

\* Instructions are executed and interrupts enabled again and again.
Spec == Init /\ [][Next]_vars
FairSpec == Spec /\ SF_vars(OneTick) /\ WF_vars(Kernel)

----------------------------------------------------------------------------
\* No interrupt is overdue when the handlers have been called, whatever was
\* scheduled meanwhile: CheckIfDue may look at the front of the list only.
NothingOverdue == ~inHandler => \A i \in DOMAIN pending : pending[i].left > 0

\* The timer is always pending, once.  So Idle always finds an interrupt and
\* never comes to its Halt, even when every thread is blocked for good.
TimerPending ==
  Cardinality({i \in DOMAIN pending : pending[i].dev = <<"timer">>}) = 1

\* The machine counts user ticks when the running thread executes user code
\* and system ticks otherwise, although all threads share one status and are
\* switched in the middle of OneTick.
StatusIsMine == Running => status = mode[current]

\* A yield is asked for by a handler that interrupted a thread, never by one
\* that interrupted the idle loop.
YieldsThreads == yieldOnReturn => status # "Idle" /\ parked[current] = "no"

\* A request is answered, whatever else interrupts.
Answered == \A t \in Thread : parked[t] = "sleep" ~> parked[t] # "sleep"
=============================================================================
