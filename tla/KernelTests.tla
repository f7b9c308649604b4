---------------------------- MODULE KernelTests ----------------------------
(***************************************************************************)
(* Kernel::ThreadSelfTest: the main thread plays ping-pong with a thread   *)
(* it forks, by yielding (Thread::SelfTest), over two semaphores           *)
(* (Semaphore::SelfTest) and over two synchronised lists                   *)
(* (SynchList::SelfTest), and deletes the semaphores and the lists when    *)
(* its own rounds are over.  The timer may switch at any point, so the     *)
(* model takes any thread that can go on.                                  *)
(*                                                                         *)
(* P and V are atomic here (see Threads); an operation of a list is two    *)
(* steps, with the lock held between them (see SynchList).                 *)
(***************************************************************************)
EXTENDS Integers, Sequences

CONSTANTS Loops,    \* 5 in SimpleThread
          Rounds,   \* 10 in the other tests
          Val       \* the argument of SynchList::SelfTest

VARIABLES
  at,        \* at[t]: where thread t is
  left,      \* left[t]: the rounds t has left
  value,     \* of the semaphores ping and pong
  list,      \* of the lists selfTestPing and synchList
  locked,    \* the lists whose lock is held
  item,      \* what the helper took from selfTestPing
  echoed,    \* what main got back from synchList
  deleted    \* the semaphores and lists that main has deleted

vars == <<at, left, value, list, locked, item, echoed, deleted>>

Main == "main"
Forked == "forked"
SemHelper == "semHelper"
ListHelper == "listHelper"
Threads == {Main, Forked, SemHelper, ListHelper}

Init ==
  /\ at = [t \in Threads |-> IF t = Main THEN "start" ELSE "new"]
  /\ left = [t \in Threads |-> 0]
  /\ value = [s \in {"ping", "pong"} |-> 0]
  /\ list = [l \in {"selfTestPing", "synchList"} |-> <<>>]
  /\ locked = {}
  /\ item = 0
  /\ echoed = <<>>
  /\ deleted = {}

Goes(t, to) == at' = [at EXCEPT ![t] = to]
Counts(t) == left' = [left EXCEPT ![t] = @ - 1]

\* Thread::Fork of the helper u; main then has n rounds before it.
Forks(u, to, n) ==
  /\ at' = [at EXCEPT ![Main] = to, ![u] = "run"]
  /\ left' = [left EXCEPT ![Main] = n, ![u] = n]

Unchanged == UNCHANGED <<value, list, locked, item, echoed, deleted>>

----------------------------------------------------------------------------
\* Thread::SelfTest.
ThreadSelfTest ==
  /\ at[Main] = "start"
  /\ Forks(Forked, "loop", Loops)
  /\ Unchanged

\* A round of SimpleThread, of main or of the forked thread.
SimpleThread(t) ==
  /\ at[t] = IF t = Main THEN "loop" ELSE "run"
  /\ left[t] > 0
  /\ Counts(t)
  /\ UNCHANGED at
  /\ Unchanged

\* Semaphore::SelfTest forks its helper when main's loop is over,
SemSelfTest ==
  /\ at[Main] = "loop"
  /\ left[Main] = 0
  /\ Forks(SemHelper, "V", Rounds)
  /\ Unchanged

\* and in every round does ping->V() and this->P().
SemPing ==
  /\ at[Main] = "V"
  /\ value' = [value EXCEPT !["ping"] = @ + 1]
  /\ Goes(Main, "P")
  /\ UNCHANGED <<left, list, locked, item, echoed, deleted>>

\* Mutant: main does not wait in the last round.
SemWaitNot ==
  /\ at[Main] = "P"
  /\ left[Main] = 1 \/ value["pong"] > 0
  /\ value' = [value EXCEPT !["pong"] = @ - 1]
  /\ Counts(Main)
  /\ Goes(Main, IF left[Main] > 1 THEN "V" ELSE "deletes")
  /\ UNCHANGED <<list, locked, item, echoed, deleted>>

SemWait ==
  /\ at[Main] = "P"
  /\ value["pong"] > 0
  /\ value' = [value EXCEPT !["pong"] = @ - 1]
  /\ Counts(Main)
  /\ Goes(Main, IF left[Main] > 1 THEN "V" ELSE "deletes")
  /\ UNCHANGED <<list, locked, item, echoed, deleted>>

\* SelfTestHelper of synch.cc: in each round ping->P(), and pong->V().
SemHelperWait ==
  /\ at[SemHelper] = "run"
  /\ left[SemHelper] > 0
  /\ value["ping"] > 0
  /\ value' = [value EXCEPT !["ping"] = @ - 1]
  /\ Goes(SemHelper, "pong")
  /\ UNCHANGED <<left, list, locked, item, echoed, deleted>>

SemHelperPong ==
  /\ at[SemHelper] = "pong"
  /\ value' = [value EXCEPT !["pong"] = @ + 1]
  /\ Counts(SemHelper)
  /\ Goes(SemHelper, "run")
  /\ UNCHANGED <<list, locked, item, echoed, deleted>>

\* The semaphores are deleted; SynchList::SelfTest forks its helper.
ListSelfTest ==
  /\ at[Main] = "deletes"
  /\ deleted' = deleted \cup {"ping", "pong"}
  /\ Forks(ListHelper, "append", Rounds)
  /\ UNCHANGED <<value, list, locked, item, echoed>>

\* SynchList::Append and RemoveFront: with the lock, and its release.
ListAppend(t, from, l, x, to) ==
  /\ at[t] = from
  /\ l \notin locked
  /\ list' = [list EXCEPT ![l] = Append(@, x)]
  /\ locked' = locked \cup {l}
  /\ Goes(t, to)
ListRemove(t, from, l, to) ==
  /\ at[t] = from
  /\ l \notin locked
  /\ list[l] # <<>>
  /\ list' = [list EXCEPT ![l] = Tail(@)]
  /\ locked' = locked \cup {l}
  /\ Goes(t, to)
Release(t, from, l, to) ==
  /\ at[t] = from
  /\ locked' = locked \ {l}
  /\ Goes(t, to)
  /\ UNCHANGED <<value, list, item, echoed, deleted>>

\* A round of SynchList::SelfTest: selfTestPing->Append(val), and RemoveFront.
MainList ==
  \/ /\ ListAppend(Main, "append", "selfTestPing", Val, "release1")
     /\ UNCHANGED <<left, value, item, echoed, deleted>>
  \/ Release(Main, "release1", "selfTestPing", "remove") /\ UNCHANGED left
  \/ /\ ListRemove(Main, "remove", "synchList", "release2")
     /\ echoed' = Append(echoed, Head(list["synchList"]))
     /\ UNCHANGED <<left, value, item, deleted>>
  \/ /\ Release(Main, "release2", "synchList", IF left[Main] > 1 THEN "append" ELSE "deleteLists")
     /\ Counts(Main)

\* A round of SynchList::SelfTestHelper: what it removes it appends to this.
HelperList ==
  \/ /\ left[ListHelper] > 0
     /\ ListRemove(ListHelper, "run", "selfTestPing", "releasePing")
     /\ item' = Head(list["selfTestPing"])
     /\ UNCHANGED <<left, value, echoed, deleted>>
  \/ Release(ListHelper, "releasePing", "selfTestPing", "append") /\ UNCHANGED left
  \/ /\ ListAppend(ListHelper, "append", "synchList", item, "releasePong")
     /\ UNCHANGED <<left, value, item, echoed, deleted>>
  \/ Release(ListHelper, "releasePong", "synchList", "run") /\ Counts(ListHelper)

DeleteLists ==
  /\ at[Main] = "deleteLists"
  /\ deleted' = deleted \cup {"selfTestPing", "synchList"}
  /\ Goes(Main, "done")
  /\ UNCHANGED <<left, value, list, locked, item, echoed>>

Next ==
  \/ ThreadSelfTest \/ SimpleThread(Main) \/ SimpleThread(Forked)
  \/ SemSelfTest \/ SemPing \/ SemWait \/ SemHelperWait \/ SemHelperPong
  \/ ListSelfTest \/ MainList \/ HelperList \/ DeleteLists

\* Every thread that can go on is run at last: the scheduler's queue is fair.
Spec == Init /\ [][Next]_vars /\ WF_vars(Next)

----------------------------------------------------------------------------
\* Main deletes the semaphores and the lists when the helpers are through with
\* them, and not before; every value comes back as it was sent; and neither side
\* of a ping-pong is ever more than one round ahead.
TestsSound ==
  /\ "ping" \in deleted => left[SemHelper] = 0
  /\ "selfTestPing" \in deleted => left[ListHelper] = 0
  /\ \A k \in DOMAIN echoed : echoed[k] = Val
  /\ at[Main] \in {"V", "P"} => left[SemHelper] \in {left[Main], left[Main] - 1}
  /\ at[Main] \in {"append", "release1", "remove", "release2"} =>
       left[ListHelper] \in {left[Main], left[Main] - 1}

\* Kernel::ThreadSelfTest ends, and so do the threads it forked.
TestsEnd == <>(at[Main] = "done" /\ \A t \in Threads : left[t] = 0)
=============================================================================
