---------------------------- MODULE DeviceProofs ----------------------------
(***************************************************************************)
(* Proofs about simulated time and about the disk, for any number of       *)
(* threads and any latencies: no interrupt is overlooked, the status that  *)
(* all threads share is the running thread's own, and every disk request   *)
(* is answered by its own interrupt.                                       *)
(***************************************************************************)
EXTENDS Interrupts, FiniteSetTheorems, WellFoundedInduction, TLAPS

\* What the machine gives: ticks are counted, and nothing is scheduled for now
\* (the assertion of Interrupt::Schedule).
Setting ==
  /\ Main \in Thread
  /\ SystemTick \in Nat /\ UserTick \in Nat
  /\ TimerDelays \subseteq Nat \ {0}
  /\ PollTime \in Nat \ {0}
  /\ IoTimes \subseteq Nat \ {0}

Device == {<<"timer">>, <<"poll">>} \cup Io
Pending == [dev : Device, left : Int]

\* A leaf is given half a minute.
USE SMTT(30)

-----------------------------------------------------------------------------
(* The sorted list of pending interrupts.                                  *)

Sorted(list) == \A i, j \in 1..Len(list) : i <= j => list[i].left <= list[j].left
Once(list) == \A i, j \in 1..Len(list) : list[i].dev = list[j].dev => i = j
Has(list, d) == \E i \in 1..Len(list) : list[i].dev = d

\* A set of natural numbers that is not empty has a least element.
LEMMA MinIn ==
  ASSUME NEW T, T \subseteq Nat, T # {}
  PROVE  \E x \in T : \A y \in T : x <= y
<1> DEFINE R == {ss \in Nat \X Nat : ss[1] < ss[2]}
<1>1. IsWellFoundedOn(R, Nat)
  BY NatLessThanWellFounded, Zenon DEF OpToRel
<1>2. PICK x \in T : \A y \in T : <<y, x>> \notin R
  BY <1>1, WFMin, Zenon
<1>3. \A y \in T : x <= y
  <2> TAKE y \in T
  <2>1. x \in Nat /\ y \in Nat
    BY Zenon
  <2>2. y < x => <<y, x>> \in R
    BY <2>1, Zenon
  <2> QED
    BY <1>2, <2>1, <2>2
<1> QED
  BY <1>3, Zenon

\* A set of indices that has every index below one of its own counts itself.
LEMMA InitialSegment ==
  ASSUME NEW n \in Nat, NEW D, D \subseteq 1..n,
         \A i \in D : \A j \in 1..n : j <= i => j \in D
  PROVE  Cardinality(D) \in 0..n /\ D = 1..Cardinality(D)
<1>1. \A m \in Nat : Cardinality(1..m) = m
  <2> TAKE m \in Nat
  <2>1. Cardinality(1..m) = IF 1 > m THEN 0 ELSE m - 1 + 1
    BY FS_Interval
  <2> QED
    BY <2>1
<1>2. CASE D = 1..n
  BY <1>1, <1>2
<1>3. CASE D # 1..n
  <2> DEFINE T == (1..n) \ D
  <2>1. PICK m \in T : \A y \in T : m <= y
    <3>1. 1..n \subseteq Nat
      OBVIOUS
    <3>2. T \subseteq Nat
      BY <3>1, Zenon
    <3>3. T # {}
      BY <1>3, Zenon
    <3> QED
      BY <3>2, <3>3, MinIn, Zenon
  <2>2. m \in 1..n /\ m \notin D /\ m - 1 \in Nat
    BY <2>1
  <2>3. D = 1..(m - 1)
    <3>1. ASSUME NEW i \in D
          PROVE  i \in 1..(m - 1)
      <4>1. i \in 1..n /\ ~(m <= i)
        BY <2>2, Zenon
      <4> QED
        BY <2>2, <4>1
    <3>2. ASSUME NEW i \in 1..(m - 1)
          PROVE  i \in D
      <4>1. i \in 1..n /\ ~(m <= i)
        BY <2>2
      <4> QED
        BY <2>1, <4>1, Zenon
    <3> QED
      BY <3>1, <3>2, Zenon
  <2>4. Cardinality(D) = m - 1
    BY <1>1, <2>2, <2>3, Zenon
  <2> QED
    BY <2>2, <2>3, <2>4
<1> QED
  BY <1>2, <1>3, Zenon

\* Where Interrupt::Schedule puts an interrupt into a sorted list: behind those that
\* occur no later.
LEMMA SchedulePlace ==
  ASSUME NEW list \in Seq(Pending), Sorted(list), NEW e \in Pending
  PROVE  \E k \in 0..Len(list) :
           /\ \A i \in 1..Len(list) : i <= k <=> list[i].left <= e.left
           /\ Schedule(list, e) = InsertAt(list, k + 1, e)
<1> DEFINE D == {i \in DOMAIN list : PendingCompare(list[i], e) <= 0}
           n == Len(list)
<1>1. /\ n \in Nat /\ DOMAIN list = 1..n
      /\ \A i \in 1..n : list[i] \in Pending
  OBVIOUS
<1>2. \A i \in 1..n : i \in D <=> list[i].left <= e.left
  BY <1>1 DEF PendingCompare, Pending
<1>3. D \subseteq 1..n
  BY <1>1, Zenon
<1>4. \A i \in D : \A j \in 1..n : j <= i => j \in D
  BY <1>1, <1>2, <1>3 DEF Sorted, Pending
<1> HIDE DEF D, n
<1>5. Cardinality(D) \in 0..n /\ D = 1..Cardinality(D)
  BY <1>1, <1>3, <1>4, InitialSegment, Zenon
<1>6. \A i \in 1..n : i <= Cardinality(D) <=> list[i].left <= e.left
  BY <1>1, <1>2, <1>5
<1>7. Schedule(list, e) = InsertAt(list, Cardinality(D) + 1, e)
  BY Zenon DEF Schedule, D
<1> QED
  BY <1>5, <1>6, <1>7, Zenon DEF n

\* What InsertAt makes of a list.
LEMMA Inserted ==
  ASSUME NEW list \in Seq(Pending), NEW e \in Pending, NEW k \in 0..Len(list)
  PROVE  /\ InsertAt(list, k + 1, e) \in Seq(Pending)
         /\ Len(InsertAt(list, k + 1, e)) = Len(list) + 1
         /\ \A j \in 1..(Len(list) + 1) :
              InsertAt(list, k + 1, e)[j] =
                IF j <= k THEN list[j] ELSE IF j = k + 1 THEN e ELSE list[j - 1]
<1> DEFINE front == SubSeq(list, 1, k)
           back == SubSeq(list, k + 1, Len(list))
<1>1. InsertAt(list, k + 1, e) = front \o <<e>> \o back
  <2>1. (k + 1) - 1 = k
    OBVIOUS
  <2> QED
    BY <2>1, Zenon DEF InsertAt
<1>2. /\ front \in Seq(Pending) /\ Len(front) = k
      /\ \A j \in 1..k : front[j] = list[j]
  OBVIOUS
<1>3. /\ back \in Seq(Pending) /\ Len(back) = Len(list) - k
      /\ \A j \in 1..(Len(list) - k) : back[j] = list[k + j]
  OBVIOUS
<1> HIDE DEF front, back
<1> DEFINE head == front \o <<e>>
<1>4. /\ head \in Seq(Pending) /\ Len(head) = k + 1
      /\ \A j \in 1..(k + 1) : head[j] = IF j <= k THEN front[j] ELSE e
  BY <1>2
<1> DEFINE res == head \o back
<1>5. InsertAt(list, k + 1, e) = res
  BY <1>1, Zenon
<1>6. head \in Seq(Pending) /\ back \in Seq(Pending)
  BY <1>3, <1>4, Zenon
<1> HIDE DEF head
<1>7. /\ res \in Seq(Pending) /\ Len(res) = Len(head) + Len(back)
      /\ \A j \in 1..(Len(head) + Len(back)) :
           res[j] = IF j <= Len(head) THEN head[j] ELSE back[j - Len(head)]
  BY <1>6
<1> HIDE DEF res
<1>8. Len(res) = Len(list) + 1
  BY <1>3, <1>4, <1>7
<1>9. ASSUME NEW j \in 1..(Len(list) + 1)
      PROVE  res[j] = IF j <= k THEN list[j] ELSE IF j = k + 1 THEN e ELSE list[j - 1]
  <2>1. Len(list) \in Nat /\ k \in Nat /\ k <= Len(list)
    OBVIOUS
  <2>2. res[j] = IF j <= k + 1 THEN head[j] ELSE back[j - (k + 1)]
    BY <1>3, <1>4, <1>7, <2>1
  <2>3. CASE j <= k
    BY <1>2, <1>4, <2>1, <2>2, <2>3
  <2>4. CASE j = k + 1
    BY <1>4, <2>1, <2>2, <2>4
  <2>5. CASE j > k + 1
    <3>1. j - (k + 1) \in 1..(Len(list) - k) /\ k + (j - (k + 1)) = j - 1
      BY <2>1, <2>5
    <3> QED
      BY <1>3, <2>1, <2>2, <2>5, <3>1
  <2> QED
    BY <2>1, <2>3, <2>4, <2>5
<1> QED
  BY <1>5, <1>7, <1>8, <1>9, Zenon

\* Schedule keeps the list sorted, and adds the interrupt of a device that had none.
LEMMA Scheduled ==
  ASSUME NEW list \in Seq(Pending), Sorted(list), Once(list),
         NEW e \in Pending, ~Has(list, e.dev)
  PROVE  /\ Schedule(list, e) \in Seq(Pending)
         /\ Sorted(Schedule(list, e)) /\ Once(Schedule(list, e))
         /\ \A d : Has(Schedule(list, e), d) <=> Has(list, d) \/ d = e.dev
         /\ Due(Schedule(list, e)) => Due(list) \/ e.left <= 0
<1>1. PICK k \in 0..Len(list) :
             /\ \A i \in 1..Len(list) : i <= k <=> list[i].left <= e.left
             /\ Schedule(list, e) = InsertAt(list, k + 1, e)
  BY SchedulePlace, Zenon
<1> DEFINE res == Schedule(list, e)
           n == Len(list)
<1>2. /\ res \in Seq(Pending) /\ Len(res) = n + 1
      /\ \A j \in 1..(n + 1) :
           res[j] = IF j <= k THEN list[j] ELSE IF j = k + 1 THEN e ELSE list[j - 1]
  <2> DEFINE ins == InsertAt(list, k + 1, e)
  <2>1. /\ ins \in Seq(Pending) /\ Len(ins) = n + 1
        /\ \A j \in 1..(n + 1) :
             ins[j] = IF j <= k THEN list[j] ELSE IF j = k + 1 THEN e ELSE list[j - 1]
    BY Inserted, Zenon
  <2>2. res = ins
    BY <1>1, Zenon
  <2> HIDE DEF ins, res, n
  <2> QED
    BY <2>1, <2>2, Zenon
<1>3. /\ n \in Nat /\ k \in 0..n
      /\ \A i \in 1..n : list[i].left \in Int
      /\ e.left \in Int
      /\ \A i, j \in 1..n : i <= j => list[i].left <= list[j].left
      /\ \A i, j \in 1..n : list[i].dev = list[j].dev => i = j
      /\ \A i \in 1..n : list[i].dev # e.dev
      /\ \A i \in 1..n : i <= k <=> list[i].left <= e.left
  <2>1. n \in Nat /\ \A i \in 1..n : list[i] \in Pending
    OBVIOUS
  <2>2. \A r \in Pending : r.left \in Int
    BY Zenon DEF Pending
  <2>3. /\ \A i, j \in 1..n : i <= j => list[i].left <= list[j].left
        /\ \A i, j \in 1..n : list[i].dev = list[j].dev => i = j
        /\ \A i \in 1..n : list[i].dev # e.dev
    BY Zenon DEF Sorted, Once, Has
  <2> QED
    BY <1>1, <2>1, <2>2, <2>3, Zenon
<1>4. Due(list) <=> n > 0 /\ list[1].left <= 0
  BY DEF Due
<1>5. Due(res) <=> res[1].left <= 0
  BY <1>2, <1>3 DEF Due
<1> HIDE DEF res, n
<1>6. Sorted(res)
  <2> SUFFICES ASSUME NEW i \in 1..(n + 1), NEW j \in 1..(n + 1), i <= j
               PROVE  res[i].left <= res[j].left
    BY <1>2, Zenon DEF Sorted
  <2>1. CASE j <= k
    BY <1>2, <1>3, <2>1
  <2>2. CASE j = k + 1
    BY <1>2, <1>3, <2>2
  <2>3. CASE j > k + 1
    <3>1. j - 1 \in 1..n /\ ~(j - 1 <= k) /\ res[j] = list[j - 1]
      BY <1>2, <1>3, <2>3
    <3>2. CASE i <= k
      <4>1. i \in 1..n /\ i <= j - 1 /\ res[i] = list[i]
        BY <1>2, <1>3, <2>3, <3>2
      <4> QED
        BY <1>3, <3>1, <4>1, Zenon
    <3>3. CASE i = k + 1
      BY <1>2, <1>3, <3>1, <3>3
    <3>4. CASE i > k + 1
      <4>1. i - 1 \in 1..n /\ i - 1 <= j - 1 /\ res[i] = list[i - 1]
        BY <1>2, <1>3, <3>4
      <4> QED
        BY <1>3, <3>1, <4>1, Zenon
    <3> QED
      BY <1>3, <3>2, <3>3, <3>4
  <2> QED
    BY <1>3, <2>1, <2>2, <2>3
<1>7. Once(res)
  <2> SUFFICES ASSUME NEW i \in 1..(n + 1), NEW j \in 1..(n + 1), i < j
               PROVE  res[i].dev # res[j].dev
    <3>1. ASSUME NEW i \in 1..(n + 1), NEW j \in 1..(n + 1), i # j
          PROVE  i < j \/ j < i
      BY <1>3, <3>1
    <3> QED
      BY <1>2, <3>1, Zenon DEF Once
  <2>1. CASE j <= k
    BY <1>2, <1>3, <2>1
  <2>2. CASE j = k + 1
    BY <1>2, <1>3, <2>2
  <2>3. CASE j > k + 1
    <3>1. j - 1 \in 1..n /\ res[j] = list[j - 1]
      BY <1>2, <1>3, <2>3
    <3>2. CASE i <= k
      BY <1>2, <1>3, <2>3, <3>1, <3>2
    <3>3. CASE i = k + 1
      BY <1>2, <1>3, <3>1, <3>3
    <3>4. CASE i > k + 1
      <4>1. i - 1 \in 1..n /\ i - 1 # j - 1 /\ res[i] = list[i - 1]
        BY <1>2, <1>3, <3>4
      <4> QED
        BY <1>3, <3>1, <4>1, Zenon
    <3> QED
      BY <1>3, <3>2, <3>3, <3>4
  <2> QED
    BY <1>3, <2>1, <2>2, <2>3
<1>8. ASSUME NEW d
      PROVE  Has(res, d) <=> Has(list, d) \/ d = e.dev
  <2>1. ASSUME NEW i \in 1..(n + 1), res[i].dev = d, d # e.dev
        PROVE  \E j \in 1..n : list[j].dev = d
    <3>1. CASE i <= k
      BY <1>2, <1>3, <2>1, <3>1
    <3>2. CASE i > k + 1
      <4>1. i - 1 \in 1..n /\ res[i] = list[i - 1]
        BY <1>2, <1>3, <3>2
      <4> QED
        BY <2>1, <4>1, Zenon
    <3> QED
      BY <1>2, <1>3, <2>1, <3>1, <3>2
  <2>2. ASSUME NEW j \in 1..n, list[j].dev = d
        PROVE  \E i \in 1..(n + 1) : res[i].dev = d
    <3>1. CASE j <= k
      BY <1>2, <1>3, <2>2, <3>1
    <3>2. CASE j > k
      <4>1. j + 1 \in 1..(n + 1) /\ (j + 1) - 1 = j /\ ~(j + 1 <= k) /\ j + 1 # k + 1
        BY <1>3, <3>2
      <4>2. res[j + 1] = list[j]
        BY <1>2, <4>1
      <4> QED
        BY <2>2, <4>1, <4>2, Zenon
    <3> QED
      BY <1>3, <3>1, <3>2
  <2>3. k + 1 \in 1..(n + 1) /\ res[k + 1] = e
    BY <1>2, <1>3
  <2> QED
    BY <1>2, <2>1, <2>2, <2>3, Zenon DEF Has, n
<1>9. Due(res) => Due(list) \/ e.left <= 0
  <2>1. CASE k = 0
    BY <1>2, <1>3, <1>5, <2>1
  <2>2. CASE k > 0
    BY <1>2, <1>3, <1>4, <1>5, <2>2
  <2> QED
    BY <1>3, <2>1, <2>2
<1> QED
  BY <1>2, <1>6, <1>7, <1>8, <1>9, Zenon DEF res

\* Taking the first interrupt off the list.
LEMMA Removed ==
  ASSUME NEW list \in Seq(Pending), Sorted(list), Once(list), list # <<>>
  PROVE  /\ Tail(list) \in Seq(Pending) /\ Head(list) \in Pending
         /\ Sorted(Tail(list)) /\ Once(Tail(list))
         /\ \A d : Has(Tail(list), d) <=> Has(list, d) /\ d # Head(list).dev
<1> DEFINE t == Tail(list)
           n == Len(list)
<1>1. /\ n \in Nat /\ n > 0
      /\ t \in Seq(Pending) /\ Len(t) = n - 1
      /\ \A i \in 1..(n - 1) : t[i] = list[i + 1]
      /\ Head(list) = list[1] /\ list[1] \in Pending
  OBVIOUS
<1>2. /\ \A i, j \in 1..n : i <= j => list[i].left <= list[j].left
      /\ \A i, j \in 1..n : list[i].dev = list[j].dev => i = j
  BY Zenon DEF Sorted, Once
<1> HIDE DEF t, n
<1>3. \A i \in 1..(n - 1) : i + 1 \in 1..n
  BY <1>1
<1>4. Sorted(t)
  <2> SUFFICES ASSUME NEW i \in 1..(n - 1), NEW j \in 1..(n - 1), i <= j
               PROVE  t[i].left <= t[j].left
    BY <1>1, Zenon DEF Sorted
  <2>1. i + 1 <= j + 1
    BY <1>1
  <2> QED
    BY <1>1, <1>2, <1>3, <2>1
<1>5. Once(t)
  <2> SUFFICES ASSUME NEW i \in 1..(n - 1), NEW j \in 1..(n - 1), t[i].dev = t[j].dev
               PROVE  i = j
    BY <1>1, Zenon DEF Once
  <2>1. i + 1 = j + 1
    <3>1. i + 1 \in 1..n /\ j + 1 \in 1..n /\ list[i + 1].dev = list[j + 1].dev
      BY <1>1, <1>3, Zenon
    <3> QED
      BY <1>2, <3>1, Zenon
  <2> QED
    BY <1>1, <2>1
<1>6. ASSUME NEW d
      PROVE  Has(t, d) <=> Has(list, d) /\ d # Head(list).dev
  <2>1. ASSUME NEW i \in 1..(n - 1), t[i].dev = d
        PROVE  (\E j \in 1..n : list[j].dev = d) /\ d # list[1].dev
    <3>1. i + 1 \in 1..n /\ 1 \in 1..n /\ i + 1 # 1
      BY <1>1
    <3> QED
      BY <1>1, <1>2, <2>1, <3>1, Zenon
  <2>2. ASSUME NEW j \in 1..n, list[j].dev = d, d # list[1].dev
        PROVE  \E i \in 1..(n - 1) : t[i].dev = d
    <3>1. j # 1
      BY <2>2, Zenon
    <3>2. j - 1 \in 1..(n - 1) /\ (j - 1) + 1 = j
      BY <1>1, <3>1
    <3> QED
      BY <1>1, <2>2, <3>2, Zenon
  <2> QED
    BY <1>1, <2>1, <2>2, Zenon DEF Has, n
<1> QED
  BY <1>1, <1>4, <1>5, <1>6, Zenon DEF t

\* Time passes for all interrupts alike.
LEMMA ElapsedIs ==
  ASSUME pending \in Seq(Pending), Sorted(pending), Once(pending), NEW m \in Int
  PROVE  /\ Elapsed(m) \in Seq(Pending)
         /\ Sorted(Elapsed(m)) /\ Once(Elapsed(m))
         /\ \A d : Has(Elapsed(m), d) <=> Has(pending, d)
<1> DEFINE n == Len(pending)
           f == Elapsed(m)
<1>1. n \in Nat /\ DOMAIN pending = 1..n /\ \A i \in 1..n : pending[i] \in Pending
  OBVIOUS
<1>2. ASSUME NEW r \in Pending
      PROVE  /\ [r EXCEPT !.left = @ - m] \in Pending
             /\ [r EXCEPT !.left = @ - m].dev = r.dev
             /\ [r EXCEPT !.left = @ - m].left = r.left - m
  BY DEF Pending
<1>3. f = [i \in 1..n |-> [pending[i] EXCEPT !.left = @ - m]]
  BY <1>1, Zenon DEF Elapsed
<1> HIDE DEF n
<1>4. \A i \in 1..n : f[i] \in Pending /\ f[i].dev = pending[i].dev
                                     /\ f[i].left = pending[i].left - m
  BY <1>1, <1>2, <1>3, Zenon
<1>5. f \in Seq(Pending) /\ Len(f) = n
  <2> HIDE DEF Pending
  <2>1. f \in [1..n -> Pending]
    BY <1>3, <1>4, Zenon
  <2> QED
    BY <1>1, <2>1
<1> HIDE DEF f
<1>6. Sorted(f)
  BY <1>1, <1>4, <1>5 DEF Sorted, n, Pending
<1>7. Once(f)
  BY <1>4, <1>5, Zenon DEF Once, n
<1>8. \A d : Has(f, d) <=> Has(pending, d)
  BY <1>4, <1>5, Zenon DEF Has, n
<1> QED
  BY <1>5, <1>6, <1>7, <1>8, Zenon DEF f

-----------------------------------------------------------------------------
(* The invariant of simulated time.                                        *)

Types ==
  /\ pending \in Seq(Pending)
  /\ status \in {"System", "User", "Idle"}
  /\ inHandler \in BOOLEAN /\ yieldOnReturn \in BOOLEAN
  /\ current \in Thread
  /\ mode \in [Thread -> {"System", "User"}]
  /\ parked \in [Thread -> {"no", "new", "tick", "sleep", "woken"}]
  /\ oldStatus \in [Thread -> {"System", "User", "Idle"}]

\* The list is sorted, a device is in it at most once, the timer always, and the
\* device of a thread exactly while that thread sleeps.
Queue ==
  /\ Sorted(pending) /\ Once(pending)
  /\ Has(pending, <<"timer">>)
  /\ \A t \in Thread : Has(pending, <<"io", t>>) <=> parked[t] = "sleep"
  /\ ~inHandler => ~Due(pending)

\* A thread that was preempted in OneTick remembers its own mode; the others that do
\* not run are in the kernel.  The status is the running thread's mode, and Idle
\* exactly in a handler that no thread was interrupted by.
Modes ==
  /\ \A t \in Thread : parked[t] = "no" => t = current
  /\ \A t \in Thread : parked[t] \in {"new", "sleep", "woken"} => mode[t] = "System"
  /\ \A t \in Thread : parked[t] = "tick" => oldStatus[t] = mode[t]
  /\ yieldOnReturn => parked[current] = "no"
  /\ parked[current] = "no" => status = mode[current]
  /\ parked[current] = "no" /\ (inHandler \/ yieldOnReturn)
       => oldStatus[current] = mode[current]
  /\ parked[current] # "no" => (status = "Idle" <=> inHandler)

TimeStructure == Types /\ Queue /\ Modes

\* The devices are told apart.
LEMMA Devices ==
  /\ <<"timer">> # <<"poll">>
  /\ \A t \in Thread : <<"io", t>> # <<"timer">> /\ <<"io", t>> # <<"poll">>
  /\ \A t, u \in Thread : <<"io", t>> = <<"io", u>> => t = u
<1>1. <<"timer">> # <<"poll">>
  BY Zenon
<1>2. ASSUME NEW t \in Thread
      PROVE  <<"io", t>> # <<"timer">> /\ <<"io", t>> # <<"poll">>
  <2>1. Len(<<"io", t>>) = 2 /\ Len(<<"timer">>) = 1 /\ Len(<<"poll">>) = 1
    BY Zenon
  <2> QED
    BY <2>1, Zenon
<1>3. ASSUME NEW t \in Thread, NEW u \in Thread, <<"io", t>> = <<"io", u>>
      PROVE  t = u
  BY <1>3, Zenon
<1> QED
  BY <1>1, <1>2, <1>3, Zenon

\* An entry of the list is one of these.
LEMMA Entries ==
  ASSUME NEW m \in Int
  PROVE  /\ Entry(<<"timer">>, m) \in Pending /\ Entry(<<"poll">>, m) \in Pending
         /\ Entry(<<"timer">>, m).dev = <<"timer">> /\ Entry(<<"poll">>, m).dev = <<"poll">>
         /\ \A t \in Thread : /\ Entry(<<"io", t>>, m) \in Pending
                              /\ Entry(<<"io", t>>, m).dev = <<"io", t>>
         /\ \A d : Entry(d, m).left = m
<1>1. <<"timer">> \in Device /\ <<"poll">> \in Device /\ \A t \in Thread : <<"io", t>> \in Device
  BY Zenon DEF Device, Io
<1>2. \A d \in Device : Entry(d, m) \in Pending /\ Entry(d, m).dev = d
  BY Zenon DEF Entry, Pending
<1>3. \A d : Entry(d, m).left = m
  BY Zenon DEF Entry
<1> QED
  BY <1>1, <1>2, <1>3, Zenon

\* The kernel starts with the timer and a polling device pending, in this order.
LEMMA TimeInit ==
  ASSUME Setting, Init
  PROVE  TimeStructure
<1>1. PICK d \in TimerDelays : pending = Schedule(TimerList(d), Entry(<<"poll">>, PollTime))
  BY Zenon DEF Init
<1> DEFINE timer == Entry(<<"timer">>, d)
           poll == Entry(<<"poll">>, PollTime)
           one == Schedule(<<>>, timer)
<1>2. d \in Int /\ d > 0 /\ PollTime \in Int /\ PollTime > 0
  BY DEF Setting
<1>3. /\ timer \in Pending /\ timer.dev = <<"timer">> /\ timer.left = d
      /\ poll \in Pending /\ poll.dev = <<"poll">> /\ poll.left = PollTime
  BY <1>2, Entries, Zenon
<1>4. <<>> \in Seq(Pending) /\ Sorted(<<>>) /\ Once(<<>>) /\ (\A x : ~Has(<<>>, x)) /\ ~Due(<<>>)
  BY DEF Sorted, Once, Has, Due
<1> HIDE DEF timer, poll
<1>5. /\ one \in Seq(Pending) /\ Sorted(one) /\ Once(one)
      /\ \A x : Has(one, x) <=> x = <<"timer">>
      /\ ~Due(one)
  <2>1. ~Has(<<>>, timer.dev)
    BY <1>4, Zenon
  <2>2. /\ Schedule(<<>>, timer) \in Seq(Pending)
        /\ Sorted(Schedule(<<>>, timer)) /\ Once(Schedule(<<>>, timer))
        /\ \A x : Has(Schedule(<<>>, timer), x) <=> Has(<<>>, x) \/ x = timer.dev
        /\ Due(Schedule(<<>>, timer)) => Due(<<>>) \/ timer.left <= 0
    BY <1>3, <1>4, <2>1, Scheduled, Zenon
  <2> QED
    BY <1>2, <1>3, <1>4, <2>2
<1>6. pending = Schedule(one, poll)
  BY <1>1, Zenon DEF TimerList, timer, poll
<1> HIDE DEF one
<1>7. /\ pending \in Seq(Pending) /\ Sorted(pending) /\ Once(pending)
      /\ \A x : Has(pending, x) <=> x = <<"timer">> \/ x = <<"poll">>
      /\ ~Due(pending)
  <2>1. ~Has(one, poll.dev)
    BY <1>3, <1>5, Devices, Zenon
  <2>2. /\ Schedule(one, poll) \in Seq(Pending)
        /\ Sorted(Schedule(one, poll)) /\ Once(Schedule(one, poll))
        /\ \A x : Has(Schedule(one, poll), x) <=> Has(one, x) \/ x = poll.dev
        /\ Due(Schedule(one, poll)) => Due(one) \/ poll.left <= 0
    BY <1>3, <1>5, <2>1, Scheduled, Zenon
  <2> QED
    BY <1>2, <1>3, <1>5, <1>6, <2>2
<1>8. /\ status = "System" /\ inHandler = FALSE /\ yieldOnReturn = FALSE /\ current = Main
      /\ mode = [t \in Thread |-> "System"]
      /\ parked = [t \in Thread |-> IF t = Main THEN "no" ELSE "new"]
      /\ oldStatus = [t \in Thread |-> "System"]
  BY Zenon DEF Init, Interrupt
<1>9. Types
  BY <1>7, <1>8, Zenon DEF Types, Setting
<1>10. Queue
  BY <1>7, <1>8, Devices, Zenon DEF Queue
<1>11. Modes
  BY <1>8, Zenon DEF Modes, Setting
<1> QED
  BY <1>9, <1>10, <1>11, Zenon DEF TimeStructure

\* A step that leaves the list, its handlers and the sleepers alone keeps the list's
\* part of the invariant.
LEMMA QueueSame ==
  ASSUME Queue, UNCHANGED <<pending, inHandler>>,
         \A t \in Thread : parked'[t] = "sleep" <=> parked[t] = "sleep"
  PROVE  Queue'
  BY Zenon DEF Queue

\* Entering and leaving a system call.
LEMMA CallStep ==
  ASSUME Setting, TimeStructure, EnterKernel \/ LeaveKernel
  PROVE  TimeStructure'
<1> USE DEF TimeStructure
<1>1. /\ UNCHANGED <<pending, inHandler, yieldOnReturn, current, parked, oldStatus>>
      /\ parked[current] = "no" /\ inHandler = FALSE /\ yieldOnReturn = FALSE
      /\ \E m \in {"System", "User"} : status' = m /\ mode' = [mode EXCEPT ![current] = m]
  BY Zenon DEF EnterKernel, LeaveKernel, Running, Types
<1>2. Types'
  BY <1>1, Zenon DEF Types
<1>3. Queue'
  BY <1>1, QueueSame, Zenon
<1>4. Modes'
  <2>1. PICK m \in {"System", "User"} : status' = m /\ mode' = [mode EXCEPT ![current] = m]
    BY <1>1, Zenon
  <2>2. \A t \in Thread : mode'[t] = IF t = current THEN m ELSE mode[t]
    BY <2>1, Zenon DEF Types
  <2> QED
    BY <1>1, <2>1, <2>2, Zenon DEF Modes, Types
<1> QED
  BY <1>2, <1>3, <1>4, Zenon

\* OneTick advances the clock and enters the handlers if one is due.
LEMMA OneTickStep ==
  ASSUME Setting, TimeStructure, OneTick
  PROVE  TimeStructure'
<1> USE DEF TimeStructure
<1> DEFINE n == IF status = "System" THEN SystemTick ELSE UserTick
<1>1. /\ pending' = Elapsed(n) /\ inHandler' = Due(Elapsed(n))
      /\ oldStatus' = [oldStatus EXCEPT ![current] = status]
      /\ UNCHANGED <<status, yieldOnReturn, current, mode, parked>>
      /\ parked[current] = "no" /\ inHandler = FALSE /\ yieldOnReturn = FALSE
  BY Zenon DEF OneTick, Running, Types
<1>2. n \in Int
  BY DEF Setting
<1> HIDE DEF n
<1>3. /\ Elapsed(n) \in Seq(Pending) /\ Sorted(Elapsed(n)) /\ Once(Elapsed(n))
      /\ \A d : Has(Elapsed(n), d) <=> Has(pending, d)
  BY <1>2, ElapsedIs, Zenon DEF Types, Queue
<1>4. Due(Elapsed(n)) \in BOOLEAN
  BY Zenon DEF Due
<1>5. Types'
  BY <1>1, <1>3, <1>4, Zenon DEF Types
<1>6. Queue'
  BY <1>1, <1>3, Zenon DEF Queue
<1>7. \A t \in Thread : oldStatus'[t] = IF t = current THEN status ELSE oldStatus[t]
  BY <1>1, Zenon DEF Types
<1>8. Modes'
  BY <1>1, <1>4, <1>7, Zenon DEF Modes, Types
<1> QED
  BY <1>5, <1>6, <1>8, Zenon

\* The loop of CheckIfDue ends.
LEMMA FiredStep ==
  ASSUME Setting, TimeStructure, Fired
  PROVE  TimeStructure'
<1> USE DEF TimeStructure
<1>1. /\ inHandler = TRUE /\ ~Due(pending) /\ inHandler' = FALSE
      /\ status' = IF status = "Idle" THEN "System" ELSE status
      /\ UNCHANGED <<pending, yieldOnReturn, current, mode, parked, oldStatus>>
  BY Zenon DEF Fired, Types
<1>2. Types'
  BY <1>1, Zenon DEF Types
<1>3. Queue'
  BY <1>1, Zenon DEF Queue
<1>4. Modes'
  BY <1>1, Zenon DEF Modes, Types
<1> QED
  BY <1>2, <1>3, <1>4, Zenon

\* A thread that goes on finds its own mode in the status.
LEMMA ResumedIsMine ==
  ASSUME TimeStructure, NEW t \in Ready
  PROVE  t \in Thread /\ Resumed(t) = mode[t]
  BY Zenon DEF TimeStructure, Types, Modes, Ready, Resumed

\* OneTick's Yield.
LEMMA YieldStep ==
  ASSUME Setting, TimeStructure, YieldNow
  PROVE  TimeStructure'
<1> USE DEF TimeStructure
<1>1. /\ yieldOnReturn = TRUE /\ inHandler = FALSE /\ yieldOnReturn' = FALSE
      /\ UNCHANGED <<pending, inHandler, mode, oldStatus>>
      /\ parked[current] = "no" /\ oldStatus[current] = mode[current]
      /\ status = mode[current]
  <2>1. /\ yieldOnReturn = TRUE /\ inHandler = FALSE /\ yieldOnReturn' = FALSE
        /\ UNCHANGED <<pending, inHandler, mode, oldStatus>>
    BY Zenon DEF YieldNow, Types
  <2>2. parked[current] = "no"
    BY <2>1, Zenon DEF Modes
  <2>3. status = mode[current] /\ oldStatus[current] = mode[current]
    BY <2>1, <2>2, Zenon DEF Modes
  <2> QED
    BY <2>1, <2>2, <2>3, Zenon
<1>2. CASE UNCHANGED <<current, status, parked>>
  <2>1. Types'
    BY <1>1, <1>2, Zenon DEF Types
  <2>2. Queue'
    BY <1>1, <1>2, Zenon DEF Queue
  <2>3. Modes'
    BY <1>1, <1>2, Zenon DEF Modes, Types
  <2> QED
    BY <2>1, <2>2, <2>3, Zenon
<1>3. ASSUME NEW t \in Ready, current' = t, status' = Resumed(t),
             parked' = [parked EXCEPT ![current] = "tick", ![t] = "no"]
      PROVE  TimeStructure'
  <2>1. t \in Thread /\ status' = mode[t] /\ t # current /\ parked[t] \in {"new", "tick", "woken"}
    BY <1>1, <1>3, ResumedIsMine, Zenon DEF Ready
  <2>2. \A u \in Thread : parked'[u] = IF u = t THEN "no" ELSE IF u = current THEN "tick" ELSE parked[u]
    BY <1>3, <2>1, Zenon DEF Types
  <2>3. Types'
    BY <1>1, <1>3, <2>1, Zenon DEF Types
  <2>4. \A u \in Thread : parked'[u] = "sleep" <=> parked[u] = "sleep"
    BY <1>1, <2>1, <2>2, Zenon
  <2>5. Queue'
    BY <1>1, <2>4, QueueSame, Zenon
  <2>6. Modes'
    BY <1>1, <1>3, <2>1, <2>2, Zenon DEF Modes, Types
  <2> QED
    BY <2>3, <2>5, <2>6, Zenon
<1> QED
  BY <1>2, <1>3, Zenon DEF YieldNow

\* Thread::Sleep finds another thread.
LEMMA DispatchStep ==
  ASSUME Setting, TimeStructure, NEW t \in Thread, Dispatch(t)
  PROVE  TimeStructure'
<1> USE DEF TimeStructure
<1>1. /\ parked[current] # "no" /\ inHandler = FALSE /\ yieldOnReturn = FALSE
      /\ t \in Ready /\ current' = t /\ parked' = [parked EXCEPT ![t] = "no"]
      /\ UNCHANGED <<pending, inHandler, yieldOnReturn, mode, oldStatus>>
  BY Zenon DEF Dispatch, Types, Modes
<1>2. status' = mode[t] /\ parked[t] \in {"new", "tick", "woken"}
  BY <1>1, ResumedIsMine, Zenon DEF Dispatch, Ready
<1>3. \A u \in Thread : parked'[u] = IF u = t THEN "no" ELSE parked[u]
  BY <1>1, Zenon DEF Types
<1>4. Types'
  BY <1>1, <1>2, Zenon DEF Types
<1>5. \A u \in Thread : parked'[u] = "sleep" <=> parked[u] = "sleep"
  BY <1>2, <1>3, Zenon
<1>6. Queue'
  BY <1>1, <1>5, QueueSame, Zenon
<1>7. Modes'
  BY <1>1, <1>2, <1>3, Zenon DEF Modes, Types
<1> QED
  BY <1>4, <1>6, <1>7, Zenon

\* A request to a device puts its interrupt into the list, and the thread to sleep.
LEMMA SleepStep ==
  ASSUME Setting, TimeStructure, NEW n \in IoTimes, Sleep(n)
  PROVE  TimeStructure'
<1> USE DEF TimeStructure
<1> DEFINE e == Entry(<<"io", current>>, n)
<1>1. /\ parked[current] = "no" /\ inHandler = FALSE /\ yieldOnReturn = FALSE
      /\ mode[current] = "System" /\ pending' = Schedule(pending, e)
      /\ parked' = [parked EXCEPT ![current] = "sleep"]
      /\ UNCHANGED <<status, inHandler, yieldOnReturn, current, mode, oldStatus>>
      /\ current \in Thread /\ status = mode[current]
  <2>1. parked[current] = "no" /\ inHandler = FALSE /\ yieldOnReturn = FALSE
    BY Zenon DEF Sleep, Running, Types
  <2>2. status = mode[current]
    BY <2>1, Zenon DEF Modes
  <2> QED
    BY <2>1, <2>2, Zenon DEF Sleep, Types
<1>2. e \in Pending /\ e.dev = <<"io", current>> /\ e.left = n /\ ~(n <= 0)
  BY <1>1, Entries DEF Setting
<1> HIDE DEF e
<1>3. ~Has(pending, e.dev) /\ ~Due(pending)
  BY <1>1, <1>2, Zenon DEF Queue
<1>4. /\ Schedule(pending, e) \in Seq(Pending)
      /\ Sorted(Schedule(pending, e)) /\ Once(Schedule(pending, e))
      /\ \A x : Has(Schedule(pending, e), x) <=> Has(pending, x) \/ x = e.dev
      /\ Due(Schedule(pending, e)) => Due(pending) \/ e.left <= 0
  BY <1>2, <1>3, Scheduled, Zenon DEF Types, Queue
<1>5. \A t \in Thread : parked'[t] = IF t = current THEN "sleep" ELSE parked[t]
  BY <1>1, Zenon DEF Types
<1>6. Types'
  BY <1>1, <1>4, Zenon DEF Types
<1>7. Queue'
  <2>1. \A t \in Thread : Has(pending', <<"io", t>>) <=> parked'[t] = "sleep"
    BY <1>1, <1>2, <1>4, <1>5, Devices, Zenon DEF Queue
  <2>2. Has(pending', <<"timer">>) /\ ~Due(pending')
    BY <1>1, <1>2, <1>3, <1>4, Zenon DEF Queue
  <2> QED
    BY <1>1, <1>4, <2>1, <2>2, Zenon DEF Queue
<1>8. Modes'
  BY <1>1, <1>5, Zenon DEF Modes, Types
<1> QED
  BY <1>6, <1>7, <1>8, Zenon

\* Interrupt::Idle advances the clock to the first interrupt.
LEMMA IdleStep ==
  ASSUME Setting, TimeStructure, Idle
  PROVE  TimeStructure'
<1> USE DEF TimeStructure
<1>1. /\ parked[current] # "no" /\ inHandler = FALSE /\ pending # <<>>
      /\ status' = "Idle" /\ inHandler' = TRUE
      /\ pending' = pending \/ pending' = Elapsed(Head(pending).left)
      /\ UNCHANGED <<yieldOnReturn, current, mode, parked, oldStatus>>
  BY Zenon DEF Idle, Types
<1>2. Head(pending).left \in Int
  <2>1. Head(pending) \in Pending
    BY <1>1 DEF Types
  <2> QED
    BY <2>1, Zenon DEF Pending
<1>3. /\ pending' \in Seq(Pending) /\ Sorted(pending') /\ Once(pending')
      /\ \A d : Has(pending', d) <=> Has(pending, d)
  <2>1. CASE pending' = pending
    BY <2>1, Zenon DEF Types, Queue
  <2>2. CASE pending' = Elapsed(Head(pending).left)
    BY <1>2, <2>2, ElapsedIs, Zenon DEF Types, Queue
  <2> QED
    BY <1>1, <2>1, <2>2, Zenon
<1>4. Types'
  BY <1>1, <1>3, Zenon DEF Types
<1>5. Queue'
  BY <1>1, <1>3, Zenon DEF Queue
<1>6. Modes'
  BY <1>1, Zenon DEF Modes, Types
<1> QED
  BY <1>4, <1>5, <1>6, Zenon

\* One handler: the timer and the polling devices come back into the list, and the
\* thread that waits for a device is woken.
LEMMA FireStep ==
  ASSUME Setting, TimeStructure, Fire
  PROVE  TimeStructure'
<1> USE DEF TimeStructure
<1> DEFINE e == Head(pending)
<1>1. PICK d \in TimerDelays : pending' = Again(e, Tail(pending), d)
  BY Zenon DEF Fire
<1>2. /\ inHandler = TRUE /\ pending # <<>>
      /\ yieldOnReturn' = (yieldOnReturn \/ Asks(e)) /\ parked' = Woken(e)
      /\ UNCHANGED <<status, inHandler, current, mode, oldStatus>>
  BY Zenon DEF Fire, Due, YieldOnReturn, Types
<1>3. /\ Tail(pending) \in Seq(Pending) /\ e \in Pending
      /\ Sorted(Tail(pending)) /\ Once(Tail(pending))
      /\ \A x : Has(Tail(pending), x) <=> Has(pending, x) /\ x # e.dev
  BY <1>2, Removed, Zenon DEF Types, Queue
<1>4. Has(pending, e.dev)
  BY <1>2 DEF Has, Types
<1>5. e.dev = <<"timer">> \/ e.dev = <<"poll">> \/ \E t \in Thread : e.dev = <<"io", t>>
  <2>1. e.dev \in Device
    BY <1>3, Zenon DEF Pending
  <2> QED
    BY <2>1, Zenon DEF Device, Io
<1> HIDE DEF e
<1>6. ASSUME NEW x \in Int, NEW c \in {<<"timer">>, <<"poll">>}, e.dev = c,
             pending' = Schedule(Tail(pending), Entry(c, x))
      PROVE  /\ pending' \in Seq(Pending) /\ Sorted(pending') /\ Once(pending')
             /\ \A y : Has(pending', y) <=> Has(pending, y)
  <2> DEFINE again == Entry(c, x)
             rest == Tail(pending)
  <2>1. again \in Pending /\ again.dev = c
    BY <1>6, Entries, Zenon
  <2> HIDE DEF again, rest
  <2>2. ~Has(rest, again.dev)
    BY <1>3, <1>6, <2>1, Zenon DEF rest
  <2>3. /\ Schedule(rest, again) \in Seq(Pending)
        /\ Sorted(Schedule(rest, again)) /\ Once(Schedule(rest, again))
        /\ \A y : Has(Schedule(rest, again), y) <=> Has(rest, y) \/ y = again.dev
        /\ Due(Schedule(rest, again)) => Due(rest) \/ again.left <= 0
    BY <1>3, <2>1, <2>2, Scheduled, Zenon DEF rest
  <2>4. pending' = Schedule(rest, again)
    BY <1>6, Zenon DEF again, rest
  <2>5. \A y : Has(rest, y) <=> Has(pending, y) /\ y # c
    BY <1>3, <1>6, Zenon DEF rest
  <2>6. Has(pending, c)
    BY <1>4, <1>6, Zenon
  <2> QED
    BY <2>1, <2>3, <2>4, <2>5, <2>6, Zenon
<1>7. CASE e.dev \in {<<"timer">>, <<"poll">>}
  <2>1. /\ pending' \in Seq(Pending) /\ Sorted(pending') /\ Once(pending')
        /\ \A y : Has(pending', y) <=> Has(pending, y)
    <3>1. d \in Int /\ PollTime \in Int
      BY DEF Setting
    <3>2. CASE e.dev = <<"timer">>
      <4>1. pending' = Schedule(Tail(pending), Entry(<<"timer">>, d))
        <5>1. e.dev \notin Io /\ e.dev # <<"poll">>
          BY <3>2, Devices, Zenon DEF Io
        <5> QED
          BY <1>1, <3>2, <5>1, Zenon DEF Again
      <4> QED
        BY <1>6, <3>1, <3>2, <4>1, Zenon
    <3>3. CASE e.dev = <<"poll">>
      <4>1. pending' = Schedule(Tail(pending), Entry(<<"poll">>, PollTime))
        <5>1. e.dev \notin Io /\ e.dev # <<"timer">>
          BY <3>3, Devices, Zenon DEF Io
        <5> QED
          BY <1>1, <3>3, <5>1, Zenon DEF Again
      <4> QED
        BY <1>6, <3>1, <3>3, <4>1, Zenon
    <3> QED
      BY <1>7, <3>2, <3>3, Zenon
  <2>2. parked' = parked
    BY <1>2, <1>7, Devices, Zenon DEF Woken, Types
  <2>3. yieldOnReturn' \in BOOLEAN /\ (yieldOnReturn' => yieldOnReturn \/ status # "Idle")
    BY <1>2, Zenon DEF Asks, Types
  <2>4. Types'
    BY <1>2, <2>1, <2>2, <2>3, Zenon DEF Types
  <2>5. Queue'
    BY <1>2, <2>1, <2>2, Zenon DEF Queue
  <2>6. Modes'
    <3>1. ASSUME yieldOnReturn'
          PROVE  parked[current] = "no"
      <4>1. CASE yieldOnReturn
        BY <4>1, Zenon DEF Modes
      <4>2. CASE status # "Idle"
        BY <1>2, <4>2, Zenon DEF Modes
      <4> QED
        BY <2>3, <3>1, <4>1, <4>2, Zenon
    <3>2. parked[current] = "no" => oldStatus[current] = mode[current]
      BY <1>2, Zenon DEF Modes
    <3> QED
      BY <1>2, <2>2, <3>1, <3>2, Zenon DEF Modes
  <2> QED
    BY <2>4, <2>5, <2>6, Zenon
<1>8. ASSUME NEW t \in Thread, e.dev = <<"io", t>>
      PROVE  TimeStructure'
  <2>1. pending' = Tail(pending)
    <3>1. e.dev \in Io /\ e.dev # <<"timer">> /\ e.dev # <<"poll">>
      BY <1>8, Devices, Zenon DEF Io
    <3> QED
      BY <1>1, <3>1, Zenon DEF Again
  <2>2. yieldOnReturn' = yieldOnReturn
    BY <1>2, <1>8, Devices, Zenon DEF Asks, Types
  <2>3. \A u \in Thread : parked'[u] = IF u = t THEN "woken" ELSE parked[u]
    BY <1>2, <1>8, Devices, Zenon DEF Woken
  <2>4. parked[t] = "sleep"
    BY <1>4, <1>8, Zenon DEF Queue
  <2>5. Types'
    <3>1. parked' \in [Thread -> {"no", "new", "tick", "sleep", "woken"}]
      BY <1>2, Zenon DEF Woken, Types
    <3> QED
      BY <1>2, <1>3, <2>1, <2>2, <3>1, Zenon DEF Types
  <2>6. Queue'
    <3>1. Has(pending', <<"timer">>)
      BY <1>3, <1>8, <2>1, Devices, Zenon DEF Queue
    <3>2. \A u \in Thread : Has(pending', <<"io", u>>) <=> parked'[u] = "sleep"
      BY <1>3, <1>8, <2>1, <2>3, Devices, Zenon DEF Queue
    <3> QED
      BY <1>2, <1>3, <2>1, <3>1, <3>2, Zenon DEF Queue
  <2>7. Modes'
    BY <1>2, <2>2, <2>3, <2>4 DEF Modes, Types
  <2> QED
    BY <2>5, <2>6, <2>7, Zenon
<1> QED
  BY <1>5, <1>7, <1>8, Zenon

\* Every step keeps the invariant.
LEMMA TimeNext ==
  ASSUME Setting, TimeStructure, [Next]_vars
  PROVE  TimeStructure'
<1>1. CASE UNCHANGED vars
  <2>1. Types'
    BY <1>1, Zenon DEF vars, TimeStructure, Types
  <2>2. Queue'
    BY <1>1, Zenon DEF vars, TimeStructure, Queue
  <2>3. Modes'
    BY <1>1, Zenon DEF vars, TimeStructure, Modes
  <2> QED
    BY <2>1, <2>2, <2>3, Zenon DEF TimeStructure
<1>2. CASE EnterKernel \/ LeaveKernel
  BY <1>2, CallStep, Zenon
<1>3. CASE Kernel
  BY <1>3, OneTickStep, FireStep, FiredStep, YieldStep, IdleStep, DispatchStep, Zenon DEF Kernel
<1>4. ASSUME NEW n \in IoTimes, Sleep(n)
      PROVE  TimeStructure'
  BY <1>4, SleepStep, Zenon
<1> QED
  BY <1>1, <1>2, <1>3, <1>4, Zenon DEF Next

\* The invariant holds for any threads, ticks and latencies.
THEOREM TimeStructureCorrect ==
  ASSUME Setting
  PROVE  Spec => []TimeStructure
<1>1. Init => TimeStructure
  BY TimeInit, Zenon
<1>2. TimeStructure /\ [Next]_vars => TimeStructure'
  BY TimeNext, Zenon
<1> QED
  BY <1>1, <1>2, PTL DEF Spec

\* CheckIfDue looks at the front of the list only, and yet no interrupt is overdue
\* when it returns, whatever the handlers scheduled.
THEOREM NothingOverdueCorrect ==
  ASSUME Setting
  PROVE  Spec => []NothingOverdue
<1>1. TimeStructure => NothingOverdue
  <2> SUFFICES ASSUME TimeStructure, ~inHandler, NEW i \in DOMAIN pending
               PROVE  pending[i].left > 0
    BY Zenon DEF NothingOverdue
  <2>1. /\ pending \in Seq(Pending) /\ i \in 1..Len(pending) /\ 1 \in 1..Len(pending)
        /\ 1 <= i /\ pending # <<>> /\ Head(pending) = pending[1]
    BY DEF TimeStructure, Types
  <2>2. pending[1] \in Pending /\ pending[i] \in Pending
    BY <2>1
  <2>3. pending[1].left \in Int /\ pending[i].left \in Int
    BY <2>2, Zenon DEF Pending
  <2>4. pending[1].left <= pending[i].left /\ ~(pending[1].left <= 0)
    BY <2>1, Zenon DEF TimeStructure, Queue, Sorted, Due
  <2> QED
    BY <2>3, <2>4
<1> QED
  BY <1>1, TimeStructureCorrect, PTL

\* The timer is pending exactly once at all times: it is never lost and never
\* doubled, so Idle always finds an interrupt.
THEOREM TimerPendingCorrect ==
  ASSUME Setting
  PROVE  Spec => []TimerPending
<1>1. TimeStructure => TimerPending
  <2> SUFFICES ASSUME TimeStructure
               PROVE  TimerPending
    BY Zenon
  <2>1. DOMAIN pending = 1..Len(pending)
    BY DEF TimeStructure, Types
  <2>2. PICK i \in 1..Len(pending) : pending[i].dev = <<"timer">>
    BY Zenon DEF TimeStructure, Queue, Has
  <2>3. {j \in DOMAIN pending : pending[j].dev = <<"timer">>} = {i}
    BY <2>1, <2>2, Zenon DEF TimeStructure, Queue, Once
  <2> QED
    BY <2>3, FS_Singleton, Zenon DEF TimerPending
<1> QED
  BY <1>1, TimeStructureCorrect, PTL

\* The one status variable that all threads share is the mode of the thread that
\* runs, although threads are switched in the middle of OneTick.
THEOREM StatusIsMineCorrect ==
  ASSUME Setting
  PROVE  Spec => []StatusIsMine
<1>1. TimeStructure => StatusIsMine
  BY Zenon DEF TimeStructure, Modes, StatusIsMine, Running
<1> QED
  BY <1>1, TimeStructureCorrect, PTL

\* A yield is asked for by a handler that interrupted a thread, never by one that
\* interrupted the idle loop (Alarm::CallBack looks at the status first).
THEOREM YieldsThreadsCorrect ==
  ASSUME Setting
  PROVE  Spec => []YieldsThreads
<1>1. TimeStructure => YieldsThreads
  <2> SUFFICES ASSUME TimeStructure, yieldOnReturn
               PROVE  status # "Idle" /\ parked[current] = "no"
    BY Zenon DEF YieldsThreads
  <2>1. parked[current] = "no" /\ status = mode[current]
    BY Zenon DEF TimeStructure, Modes
  <2> QED
    BY <2>1, Zenon DEF TimeStructure, Types
<1> QED
  BY <1>1, TimeStructureCorrect, PTL

\* No thread sleeps without the interrupt that will wake it, and none that runs or
\* is ready can be woken again: each request has one interrupt in the list.
SleepersAwaited ==
  \A t \in Thread :
    parked[t] = "sleep" <=> Cardinality({i \in DOMAIN pending : pending[i].dev = <<"io", t>>}) = 1

\* A thread waits for a device exactly while one interrupt of that device is pending.
THEOREM SleepersAwaitedCorrect ==
  ASSUME Setting
  PROVE  Spec => []SleepersAwaited
<1>1. TimeStructure => SleepersAwaited
  <2> SUFFICES ASSUME TimeStructure, NEW t \in Thread
               PROVE  parked[t] = "sleep"
                        <=> Cardinality({i \in DOMAIN pending : pending[i].dev = <<"io", t>>}) = 1
    BY Zenon DEF SleepersAwaited
  <2>1. DOMAIN pending = 1..Len(pending)
    BY DEF TimeStructure, Types
  <2>2. Has(pending, <<"io", t>>) <=> parked[t] = "sleep"
    BY Zenon DEF TimeStructure, Queue
  <2>3. ASSUME NEW i \in 1..Len(pending), pending[i].dev = <<"io", t>>
        PROVE  {j \in DOMAIN pending : pending[j].dev = <<"io", t>>} = {i}
    BY <2>1, <2>3, Zenon DEF TimeStructure, Queue, Once
  <2>4. CASE parked[t] = "sleep"
    <3>1. PICK i \in 1..Len(pending) : pending[i].dev = <<"io", t>>
      BY <2>2, <2>4, Zenon DEF Has
    <3> QED
      BY <2>3, <2>4, <3>1, FS_Singleton, Zenon
  <2>5. CASE parked[t] # "sleep"
    <3>1. {j \in DOMAIN pending : pending[j].dev = <<"io", t>>} = {}
      BY <2>1, <2>2, <2>5, Zenon DEF Has
    <3> QED
      BY <2>5, <3>1, FS_EmptySet
  <2> QED
    BY <2>4, <2>5, Zenon
<1> QED
  BY <1>1, TimeStructureCorrect, PTL

-----------------------------------------------------------------------------
(* The disk and SynchDisk, on any drive.                                   *)

CONSTANTS SectorsPerTrack, NumTracks, SeekTime, RotationTime, MaxTicks
VARIABLES totalTicks, lastSector, bufferInit, active, due, avail, waiting, pc, last

Dsk == INSTANCE SynchDisk

\* The thread that has SynchDisk::lock.
Holds(t) == (pc[t] = "request" /\ t \notin waiting["lock"]) \/ pc[t] = "served"

DiskTypes ==
  /\ active \in BOOLEAN
  /\ avail \in [{"lock", "semaphore"} -> {0, 1}]
  /\ waiting \in [{"lock", "semaphore"} -> SUBSET Thread]
  /\ pc \in [Thread -> {"user", "request", "served"}]

\* One thread has the lock, or nobody and it is free.  A thread that waits for the
\* drive has an interrupt or a signal coming, never both, and only then is there one.
DiskStructure ==
  /\ DiskTypes
  /\ \A t \in waiting["lock"] : pc[t] = "request"
  /\ \A t \in waiting["semaphore"] : pc[t] = "served"
  /\ \A t, u \in Thread : Holds(t) /\ Holds(u) => t = u
  /\ avail["lock"] = 1 <=> \A t \in Thread : ~Holds(t)
  /\ active = TRUE \/ avail["semaphore"] = 1 <=> waiting["semaphore"] # {}
  /\ ~(active = TRUE /\ avail["semaphore"] = 1)

\* SynchDisk::SynchDisk leaves the lock free and the drive at rest.
LEMMA DiskInit ==
  ASSUME Dsk!Init
  PROVE  DiskStructure
<1>1. /\ active = FALSE
      /\ avail = [s \in {"lock", "semaphore"} |-> IF s = "lock" THEN 1 ELSE 0]
      /\ waiting = [s \in {"lock", "semaphore"} |-> {}]
      /\ pc = [t \in Thread |-> "user"]
  BY Zenon DEF Dsk!Init, Dsk!Disk, Dsk!S!Init
<1>2. /\ avail["lock"] = 1 /\ avail["semaphore"] = 0
      /\ waiting["lock"] = {} /\ waiting["semaphore"] = {}
  BY <1>1, Zenon
<1>3. \A t \in Thread : ~Holds(t)
  BY <1>1, Zenon DEF Holds
<1>4. DiskTypes
  BY <1>1, Zenon DEF DiskTypes
<1> QED
  BY <1>1, <1>2, <1>3, <1>4 DEF DiskStructure

\* lock->Acquire, at once or after a wait.
LEMMA AcquireStep ==
  ASSUME DiskStructure, NEW t \in Thread, Dsk!Acquire(t)
  PROVE  DiskStructure'
<1>1. /\ pc[t] = "user" /\ t \notin waiting["lock"] /\ t \notin waiting["semaphore"]
      /\ pc' = [pc EXCEPT ![t] = "request"] /\ active' = active
  BY Zenon DEF Dsk!Acquire, Dsk!At, Dsk!P, Dsk!Goto, Dsk!drive, Dsk!S!IsWaiting
<1>2. \A u \in Thread : pc'[u] = IF u = t THEN "request" ELSE pc[u]
  BY <1>1, Zenon DEF DiskStructure, DiskTypes
<1>3. CASE Dsk!S!Take(t, "lock")
  <2>1. avail["lock"] > 0 /\ avail' = [avail EXCEPT !["lock"] = @ - 1] /\ waiting' = waiting
    BY <1>3, Zenon DEF Dsk!S!Take
  <2>2. avail["lock"] = 1
    BY <2>1 DEF DiskStructure, DiskTypes
  <2>3. avail'["lock"] = 0 /\ avail'["semaphore"] = avail["semaphore"]
    BY <2>1, <2>2 DEF DiskStructure, DiskTypes
  <2>4. DiskTypes'
    BY <1>1, <2>1, <2>2 DEF DiskStructure, DiskTypes
  <2>5. \A u \in Thread : Holds(u)' <=> u = t
    BY <1>1, <1>2, <2>1, <2>2, Zenon DEF DiskStructure, Holds
  <2> QED
    BY <1>1, <1>2, <2>1, <2>3, <2>4, <2>5 DEF DiskStructure, DiskTypes
<1>4. CASE Dsk!S!Wait(t, "lock")
  <2>1. /\ avail' = avail /\ waiting' = [waiting EXCEPT !["lock"] = @ \cup {t}]
    BY <1>4, Zenon DEF Dsk!S!Wait
  <2>2. waiting'["lock"] = waiting["lock"] \cup {t} /\ waiting'["semaphore"] = waiting["semaphore"]
    BY <2>1, Zenon DEF DiskStructure, DiskTypes
  <2>3. DiskTypes'
    BY <1>1, <2>1, Zenon DEF DiskStructure, DiskTypes
  <2>4. \A u \in Thread : Holds(u)' <=> Holds(u)
    BY <1>1, <1>2, <2>2 DEF Holds
  <2> QED
    BY <1>1, <1>2, <2>1, <2>2, <2>3, <2>4, Zenon DEF DiskStructure, DiskTypes
<1> QED
  BY <1>3, <1>4, Zenon DEF Dsk!Acquire, Dsk!P

\* A request starts the drive, which was at rest, and waits for its interrupt.
LEMMA RequestStep ==
  ASSUME DiskStructure, NEW t \in Thread, NEW new, NEW writing, Dsk!Request(t, new, writing)
  PROVE  DiskStructure'
<1>1. /\ pc[t] = "request" /\ t \notin waiting["lock"] /\ t \notin waiting["semaphore"]
      /\ pc' = [pc EXCEPT ![t] = "served"] /\ active' = TRUE
  BY Zenon DEF Dsk!Request, Dsk!At, Dsk!P, Dsk!Goto, Dsk!S!IsWaiting
<1>2. \A u \in Thread : pc'[u] = IF u = t THEN "served" ELSE pc[u]
  BY <1>1, Zenon DEF DiskStructure, DiskTypes
<1>3. avail["semaphore"] = 0 /\ waiting["semaphore"] = {}
  <2>1. \A u \in waiting["semaphore"] : u \in Thread /\ Holds(u) /\ u # t
    BY <1>1, Zenon DEF DiskStructure, DiskTypes, Holds
  <2>2. Holds(t)
    BY <1>1, Zenon DEF Holds
  <2>3. waiting["semaphore"] = {}
    BY <2>1, <2>2, Zenon DEF DiskStructure
  <2> QED
    BY <2>3, Zenon DEF DiskStructure, DiskTypes
<1>4. /\ avail' = avail /\ waiting' = [waiting EXCEPT !["semaphore"] = @ \cup {t}]
  BY <1>3 DEF Dsk!Request, Dsk!P, Dsk!S!Take, Dsk!S!Wait
<1>5. waiting'["lock"] = waiting["lock"] /\ waiting'["semaphore"] = {t}
  BY <1>3, <1>4, Zenon DEF DiskStructure, DiskTypes
<1>6. DiskTypes'
  BY <1>1, <1>4, Zenon DEF DiskStructure, DiskTypes
<1>7. \A u \in Thread : Holds(u)' <=> Holds(u)
  BY <1>1, <1>2, <1>5, Zenon DEF Holds
<1> QED
  BY <1>1, <1>2, <1>3, <1>4, <1>5, <1>6, <1>7, Zenon DEF DiskStructure, DiskTypes

\* lock->Release.
LEMMA ReleaseStep ==
  ASSUME DiskStructure, NEW t \in Thread, Dsk!Release(t)
  PROVE  DiskStructure'
<1>1. /\ pc[t] = "served" /\ t \notin waiting["lock"] /\ t \notin waiting["semaphore"]
      /\ pc' = [pc EXCEPT ![t] = "user"] /\ active' = active /\ waiting' = waiting
      /\ avail' = [avail EXCEPT !["lock"] = @ + 1]
  BY Zenon DEF Dsk!Release, Dsk!At, Dsk!Goto, Dsk!S!IsWaiting, Dsk!S!Release
<1>2. \A u \in Thread : pc'[u] = IF u = t THEN "user" ELSE pc[u]
  BY <1>1, Zenon DEF DiskStructure, DiskTypes
<1>3. Holds(t) /\ avail["lock"] = 0
  BY <1>1, Zenon DEF DiskStructure, DiskTypes, Holds
<1>4. avail'["lock"] = 1 /\ avail'["semaphore"] = avail["semaphore"]
  BY <1>1, <1>3 DEF DiskStructure, DiskTypes
<1>5. DiskTypes'
  BY <1>1, <1>3 DEF DiskStructure, DiskTypes
<1>6. \A u \in Thread : ~Holds(u)'
  BY <1>1, <1>2, <1>3 DEF DiskStructure, Holds
<1> QED
  BY <1>1, <1>2, <1>4, <1>5, <1>6, Zenon DEF DiskStructure, DiskTypes

\* A P that waited gets its unit.
LEMMA DiskWakeStep ==
  ASSUME DiskStructure, NEW t \in Thread, NEW s \in {"lock", "semaphore"}, Dsk!Wake(t, s)
  PROVE  DiskStructure'
<1>1. /\ t \in waiting[s] /\ avail[s] > 0 /\ avail' = [avail EXCEPT ![s] = @ - 1]
      /\ waiting' = [waiting EXCEPT ![s] = @ \ {t}] /\ pc' = pc /\ active' = active
  BY Zenon DEF Dsk!Wake, Dsk!S!Grant, Dsk!drive
<1>2. avail[s] = 1 /\ DiskTypes'
  BY <1>1 DEF DiskStructure, DiskTypes
<1>3. CASE s = "lock"
  <2>1. /\ avail'["lock"] = 0 /\ avail'["semaphore"] = avail["semaphore"]
        /\ waiting'["lock"] = waiting["lock"] \ {t}
        /\ waiting'["semaphore"] = waiting["semaphore"] /\ pc[t] = "request"
    BY <1>1, <1>2, <1>3 DEF DiskStructure, DiskTypes
  <2>2. \A u \in Thread : Holds(u)' <=> u = t
    BY <1>1, <1>2, <1>3, <2>1, Zenon DEF DiskStructure, Holds
  <2> QED
    BY <1>1, <1>2, <2>1, <2>2 DEF DiskStructure, DiskTypes
<1>4. CASE s = "semaphore"
  <2>1. /\ avail'["semaphore"] = 0 /\ avail'["lock"] = avail["lock"]
        /\ waiting'["semaphore"] = waiting["semaphore"] \ {t}
        /\ waiting'["lock"] = waiting["lock"]
    BY <1>1, <1>2, <1>4 DEF DiskStructure, DiskTypes
  <2>2. \A u \in Thread : Holds(u)' <=> Holds(u)
    BY <1>1, <2>1, Zenon DEF Holds
  <2>3. waiting'["semaphore"] = {} /\ active = FALSE
    <3>1. \A u \in waiting["semaphore"] : u \in Thread /\ Holds(u)
      BY Zenon DEF DiskStructure, DiskTypes, Holds
    <3>2. waiting["semaphore"] = {t}
      BY <1>1, <1>4, <3>1, Zenon DEF DiskStructure
    <3> QED
      BY <1>2, <1>4, <2>1, <3>2, Zenon DEF DiskStructure, DiskTypes
  <2> QED
    BY <1>1, <1>2, <2>1, <2>2, <2>3 DEF DiskStructure, DiskTypes
<1> QED
  BY <1>3, <1>4, Zenon

\* The interrupt of the drive becomes a signal.
LEMMA DiskIntStep ==
  ASSUME DiskStructure, Dsk!DiskInt
  PROVE  DiskStructure'
<1>1. /\ active = TRUE /\ active' = FALSE /\ pc' = pc /\ waiting' = waiting
      /\ avail' = [avail EXCEPT !["semaphore"] = @ + 1]
  BY Zenon DEF Dsk!DiskInt, Dsk!CallBack, Dsk!S!Release, DiskStructure, DiskTypes
<1>2. avail["semaphore"] = 0 /\ waiting["semaphore"] # {}
  BY <1>1, Zenon DEF DiskStructure, DiskTypes
<1>3. avail'["semaphore"] = 1 /\ avail'["lock"] = avail["lock"] /\ DiskTypes'
  <2>1. avail'["semaphore"] = 1 /\ avail'["lock"] = avail["lock"]
    BY <1>1, <1>2 DEF DiskStructure, DiskTypes
  <2>2. avail' \in [{"lock", "semaphore"} -> {0, 1}]
    <3>1. avail["semaphore"] + 1 = 1
      BY <1>2
    <3>2. avail' = [avail EXCEPT !["semaphore"] = 1]
      BY <1>1, <3>1, Zenon
    <3> QED
      BY <3>2, Zenon DEF DiskStructure, DiskTypes
  <2>3. DiskTypes'
    BY <1>1, <2>2, Zenon DEF DiskStructure, DiskTypes
  <2> QED
    BY <2>1, <2>3, Zenon
<1>4. \A u \in Thread : Holds(u)' <=> Holds(u)
  BY <1>1, Zenon DEF Holds
<1> QED
  BY <1>1, <1>2, <1>3, <1>4, Zenon DEF DiskStructure

\* Every step keeps the invariant.
LEMMA DiskNext ==
  ASSUME DiskStructure, [Dsk!Next]_(Dsk!vars)
  PROVE  DiskStructure'
<1>1. CASE UNCHANGED Dsk!vars \/ Dsk!Tick
  <2>1. UNCHANGED <<active, avail, waiting, pc>>
    BY <1>1, Zenon DEF Dsk!vars, Dsk!Tick
  <2>2. \A u \in Thread : Holds(u)' <=> Holds(u)
    BY <2>1, Zenon DEF Holds
  <2> QED
    BY <2>1, <2>2, Zenon DEF DiskStructure, DiskTypes
<1>2. CASE Dsk!DiskInt
  BY <1>2, DiskIntStep, Zenon
<1>3. ASSUME NEW t \in Thread, Dsk!Step(t) \/ Dsk!Acquire(t)
      PROVE  DiskStructure'
  BY <1>3, AcquireStep, RequestStep, ReleaseStep, DiskWakeStep, Zenon
     DEF Dsk!Step, Dsk!ReadSector, Dsk!WriteSector
<1> QED
  BY <1>1, <1>2, <1>3, Zenon DEF Dsk!Next

\* The invariant holds on any drive.
THEOREM DiskStructureCorrect == Dsk!Spec => []DiskStructure
<1>1. Dsk!Init => DiskStructure
  BY DiskInit, Zenon
<1>2. DiskStructure /\ [Dsk!Next]_(Dsk!vars) => DiskStructure'
  BY DiskNext, Zenon
<1> QED
  BY <1>1, <1>2, PTL DEF Dsk!Spec

\* The assertion of Disk::ReadRequest and WriteRequest holds: no request finds the
\* drive active, whatever its latencies.
THEOREM OneRequestCorrect == Dsk!Spec => []Dsk!OneRequest
<1>1. DiskStructure => Dsk!OneRequest
  <2> SUFFICES ASSUME DiskStructure, NEW t \in Thread, Dsk!At(t, "request"), active
               PROVE  FALSE
    BY Zenon DEF Dsk!OneRequest
  <2>1. PICK u \in Thread : u \in waiting["semaphore"]
    BY Zenon DEF DiskStructure, DiskTypes
  <2>2. Holds(t) /\ Holds(u) /\ pc[t] = "request" /\ pc[u] = "served"
    BY <2>1, Zenon DEF DiskStructure, Holds, Dsk!At, Dsk!S!IsWaiting
  <2> QED
    BY <2>2, Zenon DEF DiskStructure
<1> QED
  BY <1>1, DiskStructureCorrect, PTL

\* A call of SynchDisk returns after its own interrupt: when a thread has passed the
\* semaphore the drive is at rest and no signal is left over.
THEOREM OwnCompletionCorrect == Dsk!Spec => []Dsk!OwnCompletion
<1>1. DiskStructure => Dsk!OwnCompletion
  <2> SUFFICES ASSUME DiskStructure, NEW t \in Thread, Dsk!At(t, "served"),
                      active \/ avail["semaphore"] # 0
               PROVE  FALSE
    BY Zenon DEF Dsk!OwnCompletion
  <2>1. PICK u \in Thread : u \in waiting["semaphore"]
    BY Zenon DEF DiskStructure, DiskTypes
  <2>2. Holds(t) /\ Holds(u) /\ t \notin waiting["semaphore"]
    BY <2>1, Zenon DEF DiskStructure, Holds, Dsk!At, Dsk!S!IsWaiting
  <2> QED
    BY <2>1, <2>2, Zenon DEF DiskStructure
<1> QED
  BY <1>1, DiskStructureCorrect, PTL
=============================================================================
