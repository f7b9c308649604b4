-------------------------- MODULE ProcTableProofs --------------------------
(***************************************************************************)
(* Proofs about processes whose programs join each child exactly once, for *)
(* any size of the table and any set of programs: no PCB is used after it  *)
(* was deleted, Join and Exit meet, and no slot is given back too early.   *)
(***************************************************************************)
EXTENDS ProcTable, WellFoundedInduction, TLAPS

-----------------------------------------------------------------------------
(* The invariant.  A process other than main is in its parent's hands from *)
(* ExecCreate until ExitRelease; NoCorruption and Rendezvous follow from   *)
(* what its PCB, its semaphores and its thread look like before and after. *)

Exiting == {"exit1", "exit2", "exit3", "exit4"}
Execing == {"exec2", "exec3", "exec4"}
Joining == {"join1", "join2", "join3"}

\* What PTable::pcb[i] may point to.
PCB == [state : PcbState, parentID : Pid \cup {-1}, filename : Prog,
        numwait : 0..MaxNumWait, exitcode : ExitCode \cup {0}]

\* The types, but for the frames, which FramesAccounted is about.
Types ==
  /\ machine \in Machine
  /\ bm \subseteq Pid
  /\ pcb \in [Pid -> PCB]
  /\ avail \in [KSem -> Nat]
  /\ waiting \in [KSem -> SUBSET Pid]
  /\ pc \in [Pid -> Location]
  /\ name \in [Pid -> Prog]
  /\ id \in [Pid -> Pid]
  /\ kids \in [Pid -> SUBSET Pid]
  /\ \A p \in Pid : pc[p] = "join1" => pcb[p].numwait < MaxNumWait

\* The slots in use are those with a live PCB, and those with a thread or with an
\* Exec about to make one.
Slots ==
  /\ \A i \in Pid : i \in bm <=> Live(i)
  /\ \A i \in Pid : i \in bm <=> \/ pc[i] # "none"
                                 \/ \E p \in Pid : pc[p] = "exec2" /\ id[p] = i
  /\ pc[0] # "none"

\* The children a program knows of, and the one its Exec is making, are its own.
Family ==
  /\ \A p \in Pid : \A c \in kids[p] : p \in bm /\ c \in bm /\ c # 0 /\ parent(c) = p
  /\ \A p \in Pid : pc[p] \in Execing =>
       /\ id[p] \in bm /\ id[p] # 0 /\ parent(id[p]) = p
       /\ pc[p] = "exec2" => pc[id[p]] = "none"
  /\ \A p \in Pid : pc[p] \in Joining => id[p] \in kids[p]
  /\ \A p \in Pid : pc[p] \in Exiting => kids[p] = {} /\ p # 0

\* The parent of c has yet to join it.
Unjoined(c) ==
  \/ c \in kids[parent(c)]
  \/ pc[parent(c)] \in Execing /\ id[parent(c)] = c

\* A child stays until its parent has joined it; a joined child is at its end.
Parents ==
  \A c \in bm \ {0} :
    /\ parent(c) \in Pid
    /\ Unjoined(c) => /\ avail[exitsem(c)] = 0
                      /\ pc[c] = "exit4" => c \in waiting[exitsem(c)]
    /\ ~Unjoined(c) => pc[c] \in {"exit3", "exit4"} /\ avail[joinsem(c)] = 0

\* joinsem has its one unit only after the child has released it, and a parent
\* that is past it has taken it.
Meeting ==
  /\ \A i \in Pid : avail[joinsem(i)] \in 0..1
  /\ \A i \in Pid : avail[joinsem(i)] = 1 => pc[i] \in {"exit3", "exit4"}
  /\ \A p \in Pid : pc[p] = "join3" /\ p \notin waiting[joinsem(id[p])]
       => pc[id[p]] \in {"exit3", "exit4"} /\ avail[joinsem(id[p])] = 0

\* A thread waits only where its code calls P.
WaitsWhere ==
  /\ \A q \in waiting[bmsem] : pc[q] = "exec1"
  /\ \A q \in waiting[addrLock] : pc[q] = "load"
  /\ \A i \in Pid :
       /\ \A q \in waiting[joinsem(i)] : pc[q] = "join3" /\ id[q] = i
       /\ \A q \in waiting[exitsem(i)] : pc[q] = "exit4" /\ q = i
       /\ \A q \in waiting[multex(i)] : \/ pc[q] = "exit1" /\ parent(q) = i
                                        \/ pc[q] = "join1" /\ q = i

Structure == Types /\ NoCorruption /\ Slots /\ Family /\ Parents /\ Meeting /\ WaitsWhere

\* A leaf is given half a minute.
USE ProcTableAssumption, SMTT(30)

-----------------------------------------------------------------------------
(* The names of the semaphores.                                            *)

\* The semaphores of the table, of the kernel and of the PCBs are all different.
LEMMA Names ==
  /\ bmsem \in KSem /\ addrLock \in KSem /\ bmsem # addrLock
  /\ \A i \in Pid :
       /\ joinsem(i) \in KSem /\ exitsem(i) \in KSem /\ multex(i) \in KSem
       /\ bmsem \notin {joinsem(i), exitsem(i), multex(i)}
       /\ addrLock \notin {joinsem(i), exitsem(i), multex(i)}
  /\ \A i, j \in Pid :
       /\ joinsem(i) # exitsem(j) /\ joinsem(i) # multex(j) /\ exitsem(i) # multex(j)
       /\ joinsem(i) = joinsem(j) => i = j
       /\ exitsem(i) = exitsem(j) => i = j
       /\ multex(i) = multex(j) => i = j
  /\ \A s \in KSem :
       s \in {bmsem, addrLock} \/ \E i \in Pid : s \in {joinsem(i), exitsem(i), multex(i)}
<1>1. \A a, b, i, j : <<a, i>> = <<b, j>> => a = b /\ i = j
  BY Zenon
<1>2. bmsem \in KSem /\ addrLock \in KSem /\ bmsem # addrLock
  BY <1>1, Zenon DEF KSem, bmsem, addrLock
<1>3. ASSUME NEW i \in Pid
      PROVE  /\ joinsem(i) \in KSem /\ exitsem(i) \in KSem /\ multex(i) \in KSem
             /\ bmsem \notin {joinsem(i), exitsem(i), multex(i)}
             /\ addrLock \notin {joinsem(i), exitsem(i), multex(i)}
  BY <1>1, Zenon DEF KSem, bmsem, addrLock, joinsem, exitsem, multex
<1>4. ASSUME NEW i \in Pid, NEW j \in Pid
      PROVE  /\ joinsem(i) # exitsem(j) /\ joinsem(i) # multex(j) /\ exitsem(i) # multex(j)
             /\ joinsem(i) = joinsem(j) => i = j
             /\ exitsem(i) = exitsem(j) => i = j
             /\ multex(i) = multex(j) => i = j
  BY <1>1, Zenon DEF joinsem, exitsem, multex
<1>5. ASSUME NEW s \in KSem
      PROVE  s \in {bmsem, addrLock} \/ \E i \in Pid : s \in {joinsem(i), exitsem(i), multex(i)}
  <2>1. CASE s \in {"joinsem", "exitsem", "multex"} \X Pid
    <3>1. PICK a \in {"joinsem", "exitsem", "multex"}, i \in Pid : s = <<a, i>>
      BY <2>1
    <3> QED
      BY <3>1, Zenon DEF joinsem, exitsem, multex
  <2> QED
    BY <2>1, Zenon DEF KSem
<1> QED
  BY <1>2, <1>3, <1>4, <1>5, Zenon

\* Main is process 0.
LEMMA Zero == 0 \in Pid /\ -1 \notin Pid
  BY DEF Pid

\* What it means that the thread of p runs at loc.
LEMMA AtIs ==
  ASSUME NEW p \in Pid, NEW loc, At(p, loc)
  PROVE  /\ machine = "running" /\ pc[p] = loc
         /\ \A s \in KSem : p \notin waiting[s]
         /\ p \notin waiting[bmsem] /\ p \notin waiting[addrLock]
         /\ \A i \in Pid : p \notin waiting[joinsem(i)] /\ p \notin waiting[exitsem(i)]
                          /\ p \notin waiting[multex(i)]
<1>1. machine = "running" /\ pc[p] = loc /\ \A s \in KSem : p \notin waiting[s]
  BY Zenon DEF At, S!IsWaiting
<1> QED
  BY <1>1, Names, Zenon

-----------------------------------------------------------------------------
\* PTable and the main process start as the invariant says.
LEMMA StructureInit == Init => Structure
<1> SUFFICES ASSUME Init
             PROVE  Structure
  BY Zenon
<1>0. /\ avail = KValue /\ waiting = [s \in KSem |-> {}]
      /\ pc = [i \in Pid |-> IF i = 0 THEN "start" ELSE "none"]
      /\ pcb = [i \in Pid |-> IF i = 0 THEN NewPCB(-1, MainProg) ELSE NullPCB]
      /\ kids = [i \in Pid |-> {}] /\ id = [i \in Pid |-> 0] /\ bm = {0}
      /\ machine = "running" /\ name = [i \in Pid |-> MainProg]
  BY Zenon DEF Init, S!Init
<1>1. Types
  <2>1. avail \in [KSem -> Nat] /\ waiting \in [KSem -> SUBSET Pid]
    BY <1>0, Zenon DEF KValue
  <2>2. pc \in [Pid -> Location] /\ \A p \in Pid : pc[p] # "join1"
    BY <1>0, Zenon DEF Location
  <2>3. pcb \in [Pid -> PCB]
    <3>1. NewPCB(-1, MainProg) \in PCB /\ NullPCB \in PCB
      BY DEF NewPCB, NullPCB, PCB, PcbState
    <3> QED
      BY <1>0, <3>1, Zenon
  <2> QED
    BY <1>0, <2>1, <2>2, <2>3, Zero, Zenon DEF Types, Machine
<1>2. Slots
  BY <1>0, Zero, Zenon DEF Slots, Live, NewPCB, NullPCB
<1>3. Family
  BY <1>0, Zenon DEF Family, Execing, Joining, Exiting
<1>4. Parents
  BY <1>0, Zenon DEF Parents
<1>5. Meeting
  <2>1. \A i \in Pid : avail[joinsem(i)] = 0
    BY <1>0, Names, Zero, Zenon DEF KValue
  <2> QED
    BY <1>0, <2>1 DEF Meeting
<1>6. WaitsWhere
  BY <1>0, Names, Zenon DEF WaitsWhere
<1> QED
  BY <1>0, <1>1, <1>2, <1>3, <1>4, <1>5, <1>6, Zenon DEF Structure, NoCorruption

-----------------------------------------------------------------------------
(* Steps that only move a thread: the table and the family stay.           *)

\* No PCB is made or deleted, none changes its parent, and no process but p counts
\* one more Join.
SamePCBs(p) ==
  /\ pcb' \in [Pid -> PCB]
  /\ \A i \in Pid : pcb'[i].state = pcb[i].state /\ pcb'[i].parentID = pcb[i].parentID
  /\ \A i \in Pid : i # p => pcb'[i].numwait <= pcb[i].numwait

\* The fields of a PCB, and of one that is changed.
LEMMA Fields ==
  ASSUME NEW r \in PCB
  PROVE  /\ r.numwait \in 0..MaxNumWait /\ r.numwait <= r.numwait
         /\ \A n \in 0..MaxNumWait :
              /\ [r EXCEPT !.numwait = n] \in PCB
              /\ [r EXCEPT !.numwait = n].state = r.state
              /\ [r EXCEPT !.numwait = n].parentID = r.parentID
              /\ [r EXCEPT !.numwait = n].numwait = n
         /\ \A ec \in ExitCode :
              /\ [r EXCEPT !.exitcode = ec] \in PCB
              /\ [r EXCEPT !.exitcode = ec].state = r.state
              /\ [r EXCEPT !.exitcode = ec].parentID = r.parentID
              /\ [r EXCEPT !.exitcode = ec].numwait = r.numwait
  BY DEF PCB

\* A step that leaves the PCBs alone leaves them in the same state for everybody.
LEMMA Untouched ==
  ASSUME Structure, pcb' = pcb
  PROVE  \A p \in Pid : SamePCBs(p)
  BY Fields, Zenon DEF SamePCBs, Structure, Types

\* Moves that leave the table alone, and do not begin or end an Exec or a Join.
Moves(p, a, b) ==
  /\ a \in Location \ {"none", "exec2"} /\ b \in Location \ {"none", "exec2", "join1"}
  /\ a \in Execing <=> b \in Execing
  /\ b \in Joining => a \in Joining
  /\ b \in Exiting => a \in Exiting \/ (kids[p] = {} /\ p # 0)

\* A thread moves on within one system call, or between calls that do not change
\* what it knows of its children.
LEMMA MoveStep ==
  ASSUME Structure, NEW p \in Pid, NEW b, Moves(p, pc[p], b),
         pc' = [pc EXCEPT ![p] = b], UNCHANGED <<bm, id, kids>>, SamePCBs(p)
  PROVE  Slots' /\ Family' /\ \A c \in bm \ {0} : Unjoined(c)' <=> Unjoined(c)
<1> USE DEF Structure
<1>0. /\ \A q \in Pid : pc'[q] = IF q = p THEN b ELSE pc[q]
      /\ \A i \in Pid : (Live(i)' <=> Live(i)) /\ parent(i)' = parent(i)
      /\ pc[p] \notin {"none", "exec2"} /\ b \notin {"none", "exec2"}
      /\ bm \subseteq Pid /\ \A q \in Pid : id[q] \in Pid /\ kids[q] \subseteq Pid
      /\ bm' = bm /\ id' = id /\ kids' = kids
  BY Zenon DEF Types, Live, parent, SamePCBs, Moves
<1>1. Slots'
  BY <1>0, Zero DEF Slots
<1>2. Family'
  <2>1. \A q \in Pid : pc'[q] \in Execing =>
          /\ id'[q] \in bm' /\ id'[q] # 0 /\ pcb'[id'[q]].parentID = q
          /\ pc'[q] = "exec2" => pc'[id'[q]] = "none"
    BY <1>0 DEF Family, Moves, parent
  <2>2. \A q \in Pid : /\ pc'[q] \in Joining => id'[q] \in kids'[q]
                       /\ pc'[q] \in Exiting => kids'[q] = {} /\ q # 0
    BY <1>0 DEF Family, Moves
  <2>3. \A q \in Pid : \A c \in kids'[q] : q \in bm' /\ c \in bm' /\ c # 0 /\ parent(c)' = q
    BY <1>0, Zenon DEF Family
  <2> QED
    BY <2>1, <2>2, <2>3, Zenon DEF Family, parent
<1>3. \A c \in bm \ {0} : Unjoined(c)' <=> Unjoined(c)
  <2>1. \A c \in bm \ {0} : parent(c) \in Pid
    BY Zenon DEF Parents
  <2> QED
    BY <1>0, <2>1, Zenon DEF Unjoined, Moves
<1> QED
  BY <1>1, <1>2, <1>3, Zenon

\* The other semaphores stay as they are, and nobody but p begins to wait.
OnlyAt(p, s) ==
  /\ avail' \in [KSem -> Nat] /\ waiting' \in [KSem -> SUBSET Pid]
  /\ \A r \in KSem : r # s => avail'[r] = avail[r] /\ waiting'[r] = waiting[r]

\* What Semaphore::P does.
LEMMA PIs ==
  ASSUME Structure, NEW p \in Pid, NEW s \in KSem, NEW b, P(p, s, b)
  PROVE  /\ OnlyAt(p, s) /\ pc' = [pc EXCEPT ![p] = b]
         /\ \/ avail[s] > 0 /\ avail'[s] = avail[s] - 1 /\ waiting'[s] = waiting[s]
            \/ avail[s] = 0 /\ avail'[s] = 0 /\ waiting'[s] = waiting[s] \cup {p}
<1>1. avail \in [KSem -> Nat] /\ waiting \in [KSem -> SUBSET Pid]
  BY Zenon DEF Structure, Types
<1> QED
  BY <1>1 DEF P, Goto, S!Take, S!Wait, OnlyAt

\* What Semaphore::V does.
LEMMA VIs ==
  ASSUME Structure, NEW p \in Pid, NEW s \in KSem, NEW b, V(p, s, b)
  PROVE  /\ OnlyAt(p, s) /\ pc' = [pc EXCEPT ![p] = b]
         /\ avail'[s] = avail[s] + 1 /\ waiting'[s] = waiting[s]
<1>1. avail \in [KSem -> Nat] /\ waiting \in [KSem -> SUBSET Pid]
  BY Zenon DEF Structure, Types
<1> QED
  BY <1>1 DEF V, Goto, S!Release, OnlyAt

\* P is called where WaitsWhere says.
Where(p, s, b) ==
  \/ s = bmsem /\ b = "exec1"
  \/ s = addrLock /\ b = "load"
  \/ parent(p) \in Pid /\ s = multex(parent(p)) /\ b = "exit1"

\* The types after a thread has moved.
LEMMA TypesMove ==
  ASSUME Structure, NEW p \in Pid, NEW b, Moves(p, pc[p], b),
         pc' = [pc EXCEPT ![p] = b], UNCHANGED <<machine, bm, id, kids>>, SamePCBs(p),
         name' \in [Pid -> Prog], NEW s, OnlyAt(p, s)
  PROVE  Types'
<1> USE DEF Structure
<1>1. pc' \in [Pid -> Location] /\ b # "join1"
  BY Zenon DEF Types, Moves
<1>2. \A q \in Pid : pc'[q] = "join1" => pcb'[q].numwait < MaxNumWait
  <2> SUFFICES ASSUME NEW q \in Pid, pc'[q] = "join1"
               PROVE  pcb'[q].numwait < MaxNumWait
    BY Zenon
  <2>1. q # p /\ pc[q] = "join1"
    BY <1>1, Zenon DEF Types
  <2>2. pcb[q].numwait < MaxNumWait /\ pcb'[q].numwait <= pcb[q].numwait
    BY <2>1, Zenon DEF Types, SamePCBs
  <2>3. pcb[q].numwait \in 0..MaxNumWait /\ pcb'[q].numwait \in 0..MaxNumWait
    BY Fields, Zenon DEF Types, SamePCBs
  <2> QED
    BY <2>2, <2>3
<1> QED
  BY <1>1, <1>2, Zenon DEF Types, SamePCBs, OnlyAt

\* P or V of a semaphore other than joinsem and exitsem, outside the rendezvous.
LEMMA QuietStep ==
  ASSUME Structure, NEW p \in Pid, NEW a, NEW b, NEW s \in KSem,
         At(p, a), Moves(p, a, b), (P(p, s, b) /\ Where(p, s, b)) \/ V(p, s, b),
         a \notin {"join3", "exit3", "exit4"}, b \notin {"join3", "exit3", "exit4"},
         s \in {bmsem, addrLock} \/ \E i \in Pid : s = multex(i),
         UNCHANGED <<machine, bm, id, kids>>, SamePCBs(p), name' \in [Pid -> Prog]
  PROVE  Structure'
<1> USE DEF Structure
<1>0. pc[p] = a /\ (\A r \in KSem : p \notin waiting[r])
  BY AtIs, Zenon
<1>1. /\ OnlyAt(p, s) /\ pc' = [pc EXCEPT ![p] = b]
      /\ waiting'[s] = waiting[s] \/ (waiting'[s] = waiting[s] \cup {p} /\ Where(p, s, b))
  BY PIs, VIs, Zenon
<1>2. /\ \A q \in Pid : pc'[q] = IF q = p THEN b ELSE pc[q]
      /\ \A i \in Pid : parent(i)' = parent(i)
  BY <1>1, Zenon DEF Types, SamePCBs, parent
<1>3. \A i \in Pid : /\ s # joinsem(i) /\ s # exitsem(i)
                     /\ avail'[joinsem(i)] = avail[joinsem(i)]
                     /\ waiting'[joinsem(i)] = waiting[joinsem(i)]
                     /\ avail'[exitsem(i)] = avail[exitsem(i)]
                     /\ waiting'[exitsem(i)] = waiting[exitsem(i)]
  BY <1>1, Names, Zenon DEF OnlyAt
<1>4. Slots' /\ Family' /\ \A c \in bm \ {0} : Unjoined(c)' <=> Unjoined(c)
  BY <1>0, <1>1, MoveStep, Zenon
<1>5. Parents'
  <2>1. bm \subseteq Pid /\ bm' = bm
    BY Zenon DEF Types
  <2> QED
    BY <1>0, <1>2, <1>3, <1>4, <2>1 DEF Parents
<1>6. Meeting'
  <2>1. id' = id /\ \A q \in Pid : id[q] \in Pid
    BY Zenon DEF Types
  <2> QED
    BY <1>0, <1>2, <1>3, <2>1 DEF Meeting
<1>7. WaitsWhere'
  <2>1. \A r \in KSem : \A q \in waiting'[r] :
          q \in Pid /\ ((q \in waiting[r] /\ q # p) \/ (q = p /\ r = s /\ Where(p, s, b)))
    BY <1>0, <1>1, Zenon DEF OnlyAt, Types
  <2>2. /\ \A q \in waiting'[bmsem] : pc'[q] = "exec1"
        /\ \A q \in waiting'[addrLock] : pc'[q] = "load"
    BY <1>2, <2>1, Names DEF WaitsWhere, Where
  <2>3. \A i \in Pid : /\ \A q \in waiting'[joinsem(i)] : pc'[q] = "join3" /\ id'[q] = i
                       /\ \A q \in waiting'[exitsem(i)] : pc'[q] = "exit4" /\ q = i
    BY <1>2, <1>3, <2>1, Names DEF WaitsWhere
  <2>4. \A i \in Pid : \A q \in waiting'[multex(i)] :
          (pc'[q] = "exit1" /\ parent(q)' = i) \/ (pc'[q] = "join1" /\ q = i)
    BY <1>2, <2>1, Names DEF WaitsWhere, Where
  <2> QED
    BY <2>2, <2>3, <2>4, Zenon DEF WaitsWhere
<1>8. Types' /\ NoCorruption'
  BY <1>0, <1>1, TypesMove, Zenon DEF NoCorruption
<1> QED
  BY <1>4, <1>5, <1>6, <1>7, <1>8, Zenon

\* What a start, a load and a refused Exec leave alone.
LEMMA QuietCalls ==
  ASSUME Structure, NEW p \in Pid,
         \/ StartProcess(p) \/ Load(p) \/ LoadFull(p) \/ ExecRefuse(p) \/ ExecRelease(p)
         \/ \E file \in Prog : ExecCall(p, file)
  PROVE  Structure'
<1>1. SamePCBs(p) /\ UNCHANGED <<machine, bm, id, kids>>
  BY Untouched, Zenon DEF StartProcess, Load, LoadFull, ExecRefuse, ExecRelease, ExecCall
<1>2. name' \in [Pid -> Prog]
  BY ProcTableAssumption, ZenonT(30), Zenon DEF Structure, Types, StartProcess, Load, LoadFull, ExecRefuse,
     ExecRelease, ExecCall
<1> DEFINE Quietly(a, b, s) == /\ At(p, a) /\ ((P(p, s, b) /\ Where(p, s, b)) \/ V(p, s, b))
                               /\ Moves(p, a, b) /\ s \in KSem
                               /\ a \notin {"join3", "exit3", "exit4"}
                               /\ b \notin {"join3", "exit3", "exit4"}
                               /\ s \in {bmsem, addrLock} \/ \E i \in Pid : s = multex(i)
<1>3. ASSUME NEW a, NEW b, NEW s, Quietly(a, b, s)
      PROVE  Structure'
  BY <1>1, <1>2, <1>3, QuietStep, Zenon
<1>4. /\ Moves(p, "start", "load") /\ Moves(p, "load", "user") /\ Moves(p, "load", "failed")
      /\ Moves(p, "user", "exec1") /\ Moves(p, "exec1", "user") /\ Moves(p, "exec3", "exec4")
      /\ addrLock \in KSem /\ bmsem \in KSem
  BY Names, Zenon DEF Moves, Location, Execing, Joining, Exiting
<1>5. CASE StartProcess(p)
  <2>1. Quietly("start", "load", addrLock)
    BY <1>4, <1>5, Zenon DEF StartProcess, Where
  <2> QED
    BY <1>3, <2>1, Zenon
<1>6. CASE Load(p)
  <2>1. Quietly("load", "user", addrLock)
    BY <1>4, <1>6, Zenon DEF Load
  <2> QED
    BY <1>3, <2>1, Zenon
<1>7. CASE LoadFull(p)
  <2>1. Quietly("load", "failed", addrLock)
    BY <1>4, <1>7, Zenon DEF LoadFull
  <2> QED
    BY <1>3, <2>1, Zenon
<1>8. CASE ExecRefuse(p)
  <2>1. Quietly("exec1", "user", bmsem)
    BY <1>4, <1>8, Zenon DEF ExecRefuse
  <2> QED
    BY <1>3, <2>1, Zenon
<1>9. CASE ExecRelease(p)
  <2>1. id[p] \in Pid /\ multex(id[p]) \in KSem
    BY Names, Zenon DEF Structure, Types
  <2>2. Quietly("exec3", "exec4", multex(id[p]))
    BY <1>4, <1>9, <2>1, Zenon DEF ExecRelease
  <2> QED
    BY <1>3, <2>2, Zenon
<1>10. CASE \E file \in Prog : ExecCall(p, file)
  <2>1. Quietly("user", "exec1", bmsem)
    BY <1>4, <1>10, Zenon DEF ExecCall, Where
  <2> QED
    BY <1>3, <2>1, Zenon
<1> QED
  BY <1>5, <1>6, <1>7, <1>8, <1>9, <1>10, Zenon

\* A parent counts its Join.
LEMMA IncNumWaitStep ==
  ASSUME Structure, NEW p \in Pid, IncNumWait(p)
  PROVE  Structure'
<1>0. /\ At(p, "join1") /\ V(p, multex(p), "join2")
      /\ pcb' = [pcb EXCEPT ![p].numwait = @ + 1]
      /\ UNCHANGED <<machine, bm, name, id, kids>>
  BY Zenon DEF IncNumWait
<1>1. SamePCBs(p)
  <2>1. pcb \in [Pid -> PCB] /\ pcb[p].numwait < MaxNumWait
    BY <1>0, Zenon DEF At, Structure, Types
  <2>2. pcb[p].numwait + 1 \in 0..MaxNumWait
    BY <2>1, Fields
  <2>3. pcb' = [pcb EXCEPT ![p] = [pcb[p] EXCEPT !.numwait = pcb[p].numwait + 1]]
    BY <1>0, Zenon
  <2> QED
    BY <2>1, <2>2, <2>3, Fields DEF SamePCBs
<1>2. Moves(p, "join1", "join2")
  BY Zenon DEF Moves, Location, Execing, Joining, Exiting
<1>3. multex(p) \in KSem /\ name' \in [Pid -> Prog]
  BY <1>0, Names, Zenon DEF Structure, Types
<1> QED
  BY <1>0, <1>1, <1>2, <1>3, QuietStep, Zenon

\* A child counts itself out.
LEMMA DecNumWaitStep ==
  ASSUME Structure, NEW p \in Pid, DecNumWait(p)
  PROVE  Structure'
<1> USE DEF Structure
<1>0. /\ At(p, "exit1") /\ V(p, multex(parent(p)), "exit2")
      /\ pcb' = [pcb EXCEPT ![parent(p)].numwait = IF @ > 0 THEN @ - 1 ELSE @]
      /\ UNCHANGED <<machine, bm, name, id, kids>>
  BY Zenon DEF DecNumWait
<1>1. PICK r \in Pid : r = parent(p)
  BY <1>0, Zenon DEF At, Slots, Family, Exiting, Parents
<1>2. SamePCBs(p)
  <2> DEFINE n == IF pcb[r].numwait > 0 THEN pcb[r].numwait - 1 ELSE pcb[r].numwait
  <2>1. pcb \in [Pid -> PCB]
    BY Zenon DEF Types
  <2>2. n \in 0..MaxNumWait /\ n <= pcb[r].numwait
    BY <2>1, Fields
  <2>3. pcb' = [pcb EXCEPT ![r] = [pcb[r] EXCEPT !.numwait = n]]
    BY <1>0, <1>1, Zenon
  <2> HIDE DEF n
  <2> QED
    BY <2>1, <2>2, <2>3, Fields DEF SamePCBs
<1>3. Moves(p, "exit1", "exit2")
  BY Zenon DEF Moves, Location, Execing, Joining, Exiting
<1>4. multex(r) \in KSem /\ name' \in [Pid -> Prog]
  BY <1>0, Names, Zenon DEF Types
<1> QED
  BY <1>0, <1>1, <1>2, <1>3, <1>4, QuietStep, Zenon

\* A child with no children left exits: its parent is there.
LEMMA ExitCallStep ==
  ASSUME Structure, Disciplined, NEW p \in Pid, NEW ec \in ExitCode, ExitCall(p, ec)
  PROVE  Structure'
<1> USE DEF Structure
<1>1. /\ At(p, "user") /\ p \in bm \ {0} /\ kids[p] = {}
      /\ parent(p) \in Pid /\ Live(parent(p))
  <2>1. At(p, "user") /\ pc[p] = "user" /\ p # 0 /\ kids[p] = {}
    BY Zenon DEF At, ExitCall, MayExit
  <2>2. p \in bm \ {0} /\ parent(p) \in Pid /\ Unjoined(p)
    BY <2>1, Zenon DEF Slots, Parents
  <2>3. parent(p) \in bm
    BY <2>2, Zenon DEF Unjoined, Family, Slots, Execing
  <2> QED
    BY <2>1, <2>2, <2>3, Zenon DEF Slots
<1>2. /\ P(p, multex(parent(p)), "exit1") /\ pcb' = [pcb EXCEPT ![p].exitcode = ec]
      /\ UNCHANGED <<machine, bm, name, id, kids>>
  BY <1>1, Zenon DEF ExitCall
<1>3. SamePCBs(p)
  <2>1. pcb \in [Pid -> PCB]
    BY Zenon DEF Types
  <2>2. pcb' = [pcb EXCEPT ![p] = [pcb[p] EXCEPT !.exitcode = ec]]
    BY <1>2, Zenon
  <2> QED
    BY <2>1, <2>2, Fields DEF SamePCBs
<1>4. Moves(p, "user", "exit1") /\ Where(p, multex(parent(p)), "exit1")
  BY <1>1, Zenon DEF Moves, Where, Location, Execing, Joining, Exiting
<1>5. multex(parent(p)) \in KSem /\ name' \in [Pid -> Prog]
  BY <1>1, <1>2, Names, Zenon DEF Types
<1> QED
  BY <1>1, <1>2, <1>3, <1>4, <1>5, QuietStep, Zenon

-----------------------------------------------------------------------------
(* The rendezvous.                                                         *)

\* A parent waits for the unit of joinsem, or finds that the child has released it.
LEMMA JoinWaitStep ==
  ASSUME Structure, NEW p \in Pid, JoinWait(p)
  PROVE  Structure'
<1> USE DEF Structure
<1>0. /\ pc[p] = "join2" /\ \A r \in KSem : p \notin waiting[r]
  BY AtIs, Zenon DEF JoinWait
<1>1. PICK kid \in Pid : kid = id[p] /\ kid \in kids[p] /\ kid \in bm \ {0}
                         /\ parent(kid) = p /\ Live(kid)
  BY <1>0 DEF Family, Joining, Slots, Types
<1>2. P(p, joinsem(kid), "join3") /\ UNCHANGED <<machine, bm, pcb, name, id, kids>>
  BY <1>1, Zenon DEF JoinWait
<1>3. /\ OnlyAt(p, joinsem(kid)) /\ pc' = [pc EXCEPT ![p] = "join3"]
      /\ \/ /\ avail[joinsem(kid)] > 0 /\ avail'[joinsem(kid)] = avail[joinsem(kid)] - 1
            /\ waiting'[joinsem(kid)] = waiting[joinsem(kid)]
         \/ /\ avail[joinsem(kid)] = 0 /\ avail'[joinsem(kid)] = 0
            /\ waiting'[joinsem(kid)] = waiting[joinsem(kid)] \cup {p}
  BY <1>2, PIs, Names, Zenon
<1>4. SamePCBs(p) /\ Moves(p, pc[p], "join3")
  BY <1>0, <1>2, Untouched, Zenon DEF Moves, Location, Execing, Joining, Exiting
<1>5. Slots' /\ Family' /\ \A c \in bm \ {0} : Unjoined(c)' <=> Unjoined(c)
  BY <1>2, <1>3, <1>4, MoveStep, Zenon
<1>6. Types' /\ NoCorruption'
  BY <1>2, <1>3, <1>4, TypesMove, Zenon DEF NoCorruption, Types
<1>7. /\ \A q \in Pid : pc'[q] = IF q = p THEN "join3" ELSE pc[q]
      /\ \A i : parent(i)' = parent(i)
      /\ \A i \in Pid : i # kid => /\ avail'[joinsem(i)] = avail[joinsem(i)]
                                   /\ waiting'[joinsem(i)] = waiting[joinsem(i)]
      /\ \A i \in Pid : /\ avail'[exitsem(i)] = avail[exitsem(i)]
                        /\ waiting'[exitsem(i)] = waiting[exitsem(i)]
      /\ \A q \in Pid : id[q] \in Pid
  BY <1>2, <1>3, Names, Zenon DEF OnlyAt, parent, Types
<1>8. avail[joinsem(kid)] \in 0..1 /\ (avail[joinsem(kid)] = 1 => pc[kid] \in {"exit3", "exit4"})
  BY Zenon DEF Meeting
<1>9. Parents'
  <2>1. bm \subseteq Pid
    BY Zenon DEF Types
  <2>2. Unjoined(kid)
    BY <1>1, Zenon DEF Unjoined
  <2> QED
    BY <1>0, <1>1, <1>2, <1>5, <1>7, <2>1, <2>2, Zenon DEF Parents
<1>10. Meeting'
  <2>1. \A q \in Pid : pc[q] = "join3" => id[q] # kid
    <3>1. ASSUME NEW q \in Pid, pc[q] = "join3", id[q] = kid
          PROVE  FALSE
      BY <1>0, <1>1, <3>1, Zenon DEF Family, Joining
    <3> QED
      BY <3>1, Zenon
  <2> QED
    BY <1>0, <1>1, <1>2, <1>3, <1>7, <1>8, <2>1 DEF Meeting
<1>11. WaitsWhere'
  <2>1. \A r \in KSem : \A q \in waiting'[r] :
          q \in Pid /\ ((q \in waiting[r] /\ q # p) \/ (q = p /\ r = joinsem(kid)))
    BY <1>0, <1>3, Zenon DEF OnlyAt, Types
  <2> QED
    BY <1>1, <1>2, <1>7, <2>1, Names DEF WaitsWhere
<1> QED
  BY <1>5, <1>6, <1>9, <1>10, <1>11, Zenon

\* A child releases its parent, once.
LEMMA JoinReleaseStep ==
  ASSUME Structure, NEW p \in Pid, JoinRelease(p)
  PROVE  Structure'
<1> USE DEF Structure
<1>0. /\ pc[p] = "exit2" /\ \A r \in KSem : p \notin waiting[r]
  BY AtIs, Zenon DEF JoinRelease
<1>1. V(p, joinsem(p), "exit3") /\ UNCHANGED <<machine, bm, pcb, name, id, kids>>
  BY Zenon DEF JoinRelease
<1>2. /\ OnlyAt(p, joinsem(p)) /\ pc' = [pc EXCEPT ![p] = "exit3"]
      /\ avail'[joinsem(p)] = avail[joinsem(p)] + 1
      /\ waiting'[joinsem(p)] = waiting[joinsem(p)]
  BY <1>1, VIs, Names, Zenon
<1>3. SamePCBs(p) /\ Moves(p, pc[p], "exit3")
  BY <1>0, <1>1, Untouched, Zenon DEF Moves, Location, Execing, Joining, Exiting
<1>4. Slots' /\ Family' /\ \A c \in bm \ {0} : Unjoined(c)' <=> Unjoined(c)
  BY <1>1, <1>2, <1>3, MoveStep, Zenon
<1>5. Types' /\ NoCorruption'
  BY <1>1, <1>2, <1>3, TypesMove, Zenon DEF NoCorruption, Types
<1>6. /\ \A q \in Pid : pc'[q] = IF q = p THEN "exit3" ELSE pc[q]
      /\ \A i : parent(i)' = parent(i)
      /\ \A r \in KSem : waiting'[r] = waiting[r]
      /\ \A i \in Pid : i # p => avail'[joinsem(i)] = avail[joinsem(i)]
      /\ \A i \in Pid : avail'[exitsem(i)] = avail[exitsem(i)]
      /\ \A q \in Pid : id[q] \in Pid
      /\ bm \subseteq Pid /\ \A r \in KSem : waiting[r] \subseteq Pid
  BY <1>1, <1>2, Names, Zenon DEF OnlyAt, parent, Types
<1>7. avail'[joinsem(p)] = 1
  BY <1>0, <1>2 DEF Meeting
<1>8. p \in bm \ {0} /\ Unjoined(p)
  BY <1>0, Zenon DEF Slots, Family, Exiting, Parents
<1>9. Parents'
  BY <1>0, <1>1, <1>4, <1>6, <1>8, Names, Zenon DEF Parents
<1>10. Meeting'
  <2>1. \A q \in Pid : pc[q] = "join3" /\ id[q] = p => q \in waiting[joinsem(p)]
    BY <1>0, Zenon DEF Meeting
  <2> QED
    BY <1>0, <1>1, <1>6, <1>7, <2>1, Names DEF Meeting
<1>11. WaitsWhere'
  BY <1>0, <1>1, <1>6, Names DEF WaitsWhere
<1> QED
  BY <1>4, <1>5, <1>9, <1>10, <1>11, Zenon

\* A child waits to be joined.
LEMMA ExitWaitStep ==
  ASSUME Structure, NEW p \in Pid, ExitWait(p)
  PROVE  Structure'
<1> USE DEF Structure
<1>0. /\ pc[p] = "exit3" /\ \A r \in KSem : p \notin waiting[r]
  BY AtIs, Zenon DEF ExitWait
<1>1. P(p, exitsem(p), "exit4") /\ UNCHANGED <<machine, bm, pcb, name, id, kids>>
  BY Zenon DEF ExitWait
<1>2. /\ OnlyAt(p, exitsem(p)) /\ pc' = [pc EXCEPT ![p] = "exit4"]
      /\ \/ avail[exitsem(p)] > 0 /\ waiting'[exitsem(p)] = waiting[exitsem(p)]
         \/ /\ avail[exitsem(p)] = 0 /\ avail'[exitsem(p)] = 0
            /\ waiting'[exitsem(p)] = waiting[exitsem(p)] \cup {p}
  BY <1>1, PIs, Names, Zenon
<1>3. SamePCBs(p) /\ Moves(p, pc[p], "exit4")
  BY <1>0, <1>1, Untouched, Zenon DEF Moves, Location, Execing, Joining, Exiting
<1>4. Slots' /\ Family' /\ \A c \in bm \ {0} : Unjoined(c)' <=> Unjoined(c)
  BY <1>1, <1>2, <1>3, MoveStep, Zenon
<1>5. Types' /\ NoCorruption'
  BY <1>1, <1>2, <1>3, TypesMove, Zenon DEF NoCorruption, Types
<1>6. /\ \A q \in Pid : pc'[q] = IF q = p THEN "exit4" ELSE pc[q]
      /\ \A i : parent(i)' = parent(i)
      /\ \A i \in Pid : i # p => /\ avail'[exitsem(i)] = avail[exitsem(i)]
                                 /\ waiting'[exitsem(i)] = waiting[exitsem(i)]
      /\ \A i \in Pid : /\ avail'[joinsem(i)] = avail[joinsem(i)]
                        /\ waiting'[joinsem(i)] = waiting[joinsem(i)]
      /\ \A q \in Pid : id[q] \in Pid
      /\ bm \subseteq Pid
  BY <1>1, <1>2, Names, Zenon DEF OnlyAt, parent, Types
<1>7. Parents'
  <2>1. Unjoined(p) => avail[exitsem(p)] = 0 \/ p \notin bm \ {0}
    BY Zenon DEF Parents
  <2> QED
    BY <1>0, <1>1, <1>2, <1>4, <1>6, <2>1 DEF Parents
<1>8. Meeting'
  BY <1>0, <1>1, <1>6, Zenon DEF Meeting
<1>9. WaitsWhere'
  <2>1. \A r \in KSem : \A q \in waiting'[r] :
          q \in Pid /\ ((q \in waiting[r] /\ q # p) \/ (q = p /\ r = exitsem(p)))
    BY <1>0, <1>2, Zenon DEF OnlyAt, Types
  <2> QED
    BY <1>1, <1>6, <2>1, Names DEF WaitsWhere
<1> QED
  BY <1>4, <1>5, <1>7, <1>8, <1>9, Zenon

\* A waiting P returns.
LEMMA WakeStep ==
  ASSUME Structure, NEW p \in Pid, NEW s \in KSem, Wake(p, s)
  PROVE  Structure'
<1> USE DEF Structure
<1>0. /\ p \in waiting[s] /\ avail[s] > 0
      /\ avail' = [avail EXCEPT ![s] = @ - 1]
      /\ waiting' = [waiting EXCEPT ![s] = @ \ {p}]
      /\ UNCHANGED <<machine, bm, pcb, pc, name, id, kids>>
  BY Zenon DEF Wake, S!Grant
<1>1. Types'
  BY <1>0 DEF Types
<1>2. Slots' /\ Family' /\ NoCorruption'
  BY <1>0 DEF Slots, Family, NoCorruption, Live, parent
<1>3. \A c : Unjoined(c)' <=> Unjoined(c)
  BY <1>0, Zenon DEF Unjoined, parent
<1>4. Parents'
  BY <1>0, <1>3, Names DEF Parents, Types, parent, WaitsWhere
<1>5. Meeting'
  BY <1>0, Names DEF Meeting, Types, WaitsWhere
<1>6. WaitsWhere'
  BY <1>0, Names DEF WaitsWhere, Types, parent
<1> QED
  BY <1>1, <1>2, <1>4, <1>5, <1>6, Zenon

-----------------------------------------------------------------------------
(* The rest of Exec, after the PCB is made.                                *)

\* Thread::Fork gives the new PCB its thread.
LEMMA ExecForkStep ==
  ASSUME Structure, NEW p \in Pid, ExecFork(p)
  PROVE  Structure'
<1> USE DEF Structure
<1>a. /\ machine = "running" /\ pc[p] = "exec2" /\ p \in bm
      /\ \A s \in KSem : p \notin waiting[s]
  BY AtIs DEF ExecFork, Slots
<1>b. PICK new \in Pid : /\ new = id[p] /\ new \in bm /\ new # 0 /\ new # p
                         /\ pc[new] = "none" /\ parent(new) = p
  BY <1>a, Zenon DEF Family, Execing, Types
<1>c. /\ \A q \in Pid : pc'[q] = IF q = new THEN "start" ELSE IF q = p THEN "exec3" ELSE pc[q]
      /\ pc' \in [Pid -> Location]
      /\ UNCHANGED <<machine, bm, pcb, avail, waiting, name, id, kids>>
  BY <1>b, Zenon DEF ExecFork, Types, Location
<1>1. Types'
  BY <1>c, Zenon DEF Types
<1>2. Slots'
  <2>1. \A k \in Pid : k \in bm' <=> Live(k)'
    BY <1>c, Zenon DEF Slots, Live
  <2>2. \A k \in Pid : k \in bm' <=> \/ pc'[k] # "none"
                                     \/ \E q \in Pid : pc'[q] = "exec2" /\ id'[q] = k
    BY <1>a, <1>b, <1>c DEF Slots
  <2>3. pc'[0] # "none"
    BY <1>a, <1>b, <1>c, Zero, Zenon DEF Slots
  <2> QED
    BY <2>1, <2>2, <2>3, Zenon DEF Slots
<1>3. Family'
  <2>0. /\ \A q \in Pid : id[q] \in Pid /\ kids[q] \subseteq Pid
        /\ \A q : parent(q)' = parent(q)
    BY <1>c, Zenon DEF Types, parent
  <2>1. \A q \in Pid : \A c \in kids'[q] : q \in bm' /\ c \in bm' /\ c # 0 /\ parent(c)' = q
    BY <1>a, <1>b, <1>c, <2>0, Zenon DEF Family
  <2>2. \A q \in Pid : pc'[q] \in Execing =>
          /\ id'[q] \in bm' /\ id'[q] # 0 /\ pcb'[id'[q]].parentID = q
          /\ pc'[q] = "exec2" => pc'[id'[q]] = "none"
    BY <1>a, <1>b, <1>c, <2>0 DEF Family, Execing, parent
  <2>3. \A q \in Pid : pc'[q] \in Joining => id'[q] \in kids'[q]
    BY <1>a, <1>b, <1>c, <2>0, Zenon DEF Family, Joining
  <2>4. \A q \in Pid : pc'[q] \in Exiting => kids'[q] = {} /\ q # 0
    BY <1>a, <1>b, <1>c, <2>0, Zenon DEF Family, Exiting
  <2> QED
    BY <2>1, <2>2, <2>3, <2>4, Zenon DEF Family, parent
<1>4. \A c \in bm \ {0} : parent(c)' = parent(c) /\ (Unjoined(c)' <=> Unjoined(c))
  BY <1>a, <1>b, <1>c, Zenon DEF Unjoined, Execing, parent, Parents
<1>5. Parents'
  <2>1. Unjoined(new) /\ bm \subseteq Pid
    BY <1>a, <1>b, Zenon DEF Unjoined, Execing, Types
  <2> QED
    BY <1>a, <1>b, <1>c, <1>4, <2>1, Zenon DEF Parents
<1>6. Meeting'
  <2>1. \A q \in Pid : id[q] \in Pid
    BY Zenon DEF Types
  <2> QED
    BY <1>a, <1>b, <1>c, <2>1, Zenon DEF Meeting
<1>7. WaitsWhere'
  <2>1. \A s \in KSem : waiting[s] \subseteq Pid
    BY Zenon DEF Types
  <2> QED
    BY <1>a, <1>b, <1>c, <2>1, Names DEF WaitsWhere, parent
<1>8. NoCorruption'
  BY <1>c, Zenon DEF NoCorruption
<1> QED
  BY <1>1, <1>2, <1>3, <1>5, <1>6, <1>7, <1>8, Zenon

\* Exec returns: the program knows of its child.
LEMMA ExecReturnStep ==
  ASSUME Structure, NEW p \in Pid, ExecReturn(p)
  PROVE  Structure'
<1> USE DEF Structure
<1>a. /\ machine = "running" /\ pc[p] = "exec4" /\ p \in bm
      /\ \A s \in KSem : p \notin waiting[s]
  BY AtIs DEF ExecReturn, Slots
<1>b. PICK new \in Pid : new = id[p] /\ new \in bm /\ new # 0 /\ parent(new) = p
  BY <1>a, Zenon DEF Family, Execing, Types
<1>c. /\ \A q \in Pid : pc'[q] = IF q = p THEN "user" ELSE pc[q]
      /\ \A q \in Pid : id'[q] = IF q = p THEN 0 ELSE id[q]
      /\ \A q \in Pid : kids'[q] = IF q = p THEN kids[p] \cup {new} ELSE kids[q]
      /\ pc' \in [Pid -> Location] /\ id' \in [Pid -> Pid] /\ kids' \in [Pid -> SUBSET Pid]
      /\ UNCHANGED <<machine, bm, pcb, waiting, name>>
  BY <1>b, Zero, Zenon DEF ExecReturn, V, S!Release, Goto, Types, Location
<1>d. /\ avail' \in [KSem -> Nat]
      /\ \A i \in Pid : avail'[joinsem(i)] = avail[joinsem(i)]
      /\ \A i \in Pid : avail'[exitsem(i)] = avail[exitsem(i)]
  <2>1. V(p, bmsem, "user") /\ bmsem \in KSem
    BY Names, Zenon DEF ExecReturn
  <2> QED
    BY <2>1, VIs, Names DEF OnlyAt
<1>1. Types'
  BY <1>c, <1>d, Zenon DEF Types
<1>2. Slots'
  <2>1. \A k \in Pid : k \in bm' <=> Live(k)'
    BY <1>c, Zenon DEF Slots, Live
  <2>2. \A k \in Pid : k \in bm' <=> \/ pc'[k] # "none"
                                     \/ \E q \in Pid : pc'[q] = "exec2" /\ id'[q] = k
    BY <1>a, <1>c DEF Slots
  <2>3. pc'[0] # "none"
    BY <1>a, <1>c, Zero, Zenon DEF Slots
  <2> QED
    BY <2>1, <2>2, <2>3, Zenon DEF Slots
<1>3. Family'
  <2>0. /\ \A q \in Pid : id[q] \in Pid /\ kids[q] \subseteq Pid
        /\ \A q : parent(q)' = parent(q)
    BY <1>c, Zenon DEF Types, parent
  <2>1. \A q \in Pid : \A c \in kids'[q] : q \in bm' /\ c \in bm' /\ c # 0 /\ parent(c)' = q
    BY <1>a, <1>b, <1>c, <2>0 DEF Family
  <2>2. \A q \in Pid : pc'[q] \in Execing =>
          /\ id'[q] \in bm' /\ id'[q] # 0 /\ pcb'[id'[q]].parentID = q
          /\ pc'[q] = "exec2" => pc'[id'[q]] = "none"
    BY <1>a, <1>b, <1>c, <2>0 DEF Family, Execing, parent
  <2>3. \A q \in Pid : pc'[q] \in Joining => id'[q] \in kids'[q]
    BY <1>a, <1>b, <1>c, <2>0, Zenon DEF Family, Joining
  <2>4. \A q \in Pid : pc'[q] \in Exiting => kids'[q] = {} /\ q # 0
    BY <1>a, <1>b, <1>c, <2>0, Zenon DEF Family, Exiting
  <2> QED
    BY <2>1, <2>2, <2>3, <2>4, Zenon DEF Family, parent
<1>4. \A c \in bm \ {0} : parent(c)' = parent(c) /\ (Unjoined(c)' <=> Unjoined(c))
  <2> SUFFICES ASSUME NEW c \in bm \ {0}
               PROVE  parent(c)' = parent(c) /\ (Unjoined(c)' <=> Unjoined(c))
    BY Zenon
  <2>1. parent(c)' = parent(c) /\ parent(c) \in Pid
    BY <1>c, Zenon DEF parent, Parents
  <2>2. Unjoined(c)' <=> \/ c \in kids'[parent(c)]
                         \/ pc'[parent(c)] \in Execing /\ id'[parent(c)] = c
    BY <2>1, Zenon DEF Unjoined
  <2> QED
    BY <1>a, <1>b, <1>c, <2>1, <2>2 DEF Unjoined, Execing
<1>5. Parents'
  <2>1. bm \subseteq Pid
    BY Zenon DEF Types
  <2> QED
    BY <1>a, <1>c, <1>d, <1>4, <2>1 DEF Parents
<1>6. Meeting'
  <2>1. \A q \in Pid : id[q] \in Pid
    BY Zenon DEF Types
  <2> QED
    BY <1>a, <1>c, <1>d, <2>1 DEF Meeting
<1>7. WaitsWhere'
  <2>1. \A s \in KSem : waiting[s] \subseteq Pid
    BY Zenon DEF Types
  <2> QED
    BY <1>a, <1>c, <2>1, Names DEF WaitsWhere, parent
<1>8. NoCorruption'
  BY <1>c, Zenon DEF NoCorruption
<1> QED
  BY <1>1, <1>2, <1>3, <1>5, <1>6, <1>7, <1>8, Zenon

-----------------------------------------------------------------------------
(* The steps that make, join and remove a process.                         *)

\* A set of natural numbers that is not empty has a least element: Bitmap::FindAndSet
\* returns a clear bit.
LEMMA MinIn ==
  ASSUME NEW T, T \subseteq Nat, T # {}
  PROVE  Min(T) \in T /\ \A y \in T : Min(T) <= y
<1> DEFINE R == {ss \in Nat \X Nat : ss[1] < ss[2]}
<1>1. IsWellFoundedOn(R, Nat)
  BY NatLessThanWellFounded, Zenon DEF OpToRel
<1>2. PICK x \in T : \A y \in T : <<y, x>> \notin R
  BY <1>1, WFMin, Zenon
<1>3. \A y \in T : x <= y
  <2> TAKE y \in T
  <2>1. x \in Nat /\ y \in Nat
    BY Zenon
  <2>2. y < x => <<y, x>> \in R
    BY <2>1, Zenon
  <2> QED
    BY <1>2, <2>1, <2>2
<1> QED
  BY <1>3, Zenon DEF Min

\* PTable::ExecUpdate takes a free slot: nothing is left of who had it before.
LEMMA ExecCreateStep ==
  ASSUME Structure, NEW p \in Pid, ExecCreate(p)
  PROVE  Structure'
<1> USE DEF Structure
<1>a. /\ machine = "running" /\ pc[p] = "exec1" /\ p \in bm
      /\ \A s \in KSem : p \notin waiting[s]
  BY AtIs DEF ExecCreate, Slots
<1>b. GetFreeSlot \in Pid \ bm
  <2>1. Pid \ bm # {}
    BY Zenon DEF ExecCreate, Types
  <2>2. Pid \ bm \subseteq Nat
    BY DEF Pid
  <2> QED
    BY <2>1, <2>2, MinIn, Zenon DEF GetFreeSlot
<1>0. PICK new \in Pid \ bm :
      /\ bm' = bm \cup {new}
      /\ pcb' = [pcb EXCEPT ![new] = NewPCB(p, name[p])]
      /\ avail' = [avail EXCEPT ![joinsem(new)] = 0, ![exitsem(new)] = 0, ![multex(new)] = 0]
      /\ id' = [id EXCEPT ![p] = new]
      /\ name' = [name EXCEPT ![p] = MainProg]
      /\ pc' = [pc EXCEPT ![p] = "exec2"]
      /\ UNCHANGED <<machine, waiting, kids>>
  BY <1>b, Zenon DEF ExecCreate, Goto
<1>c. /\ pc[new] = "none" /\ new # p /\ new # 0 /\ kids[new] = {}
      /\ \A q \in Pid : new \notin kids[q]
      /\ \A q \in Pid : pc[q] \in Execing => id[q] # new
      /\ \A q \in Pid : pc[q] \in Joining => id[q] # new
  BY <1>a, Zero DEF Slots, Family, Types
<1>d. /\ \A i \in Pid : pcb'[i] = IF i = new THEN NewPCB(p, name[p]) ELSE pcb[i]
      /\ \A i \in Pid : parent(i)' = IF i = new THEN p ELSE parent(i)
      /\ \A i \in Pid : Live(i)' <=> (i = new \/ Live(i))
      /\ NewPCB(p, name[p]).numwait = 0
  BY <1>0, <1>b, Zenon DEF Types, parent, Live, NewPCB
<1>e. /\ \A i \in Pid : avail'[joinsem(i)] = IF i = new THEN 0 ELSE avail[joinsem(i)]
      /\ \A i \in Pid : avail'[exitsem(i)] = IF i = new THEN 0 ELSE avail[exitsem(i)]
  BY <1>0, Names, Zenon DEF Types
<1>f. /\ \A q \in Pid : pc'[q] = IF q = p THEN "exec2" ELSE pc[q]
      /\ \A q \in Pid : id'[q] = IF q = p THEN new ELSE id[q]
      /\ UNCHANGED <<machine, waiting, kids>> /\ bm' = bm \cup {new}
  BY <1>0, Zenon DEF Types
<1>1. Types'
  <2>1. avail' \in [KSem -> Nat]
    BY <1>0, Names, Zenon DEF Types
  <2>2. pcb' \in [Pid -> PCB]
    <3>1. NewPCB(p, name[p]) \in PCB
      BY DEF Types, NewPCB, PCB, PcbState
    <3> QED
      BY <1>0, <3>1, Zenon DEF Types
  <2>3. pc' \in [Pid -> Location] /\ id' \in [Pid -> Pid] /\ name' \in [Pid -> Prog]
    BY <1>0, <1>b, Zenon DEF Types, Location
  <2>4. \A q \in Pid : pc'[q] = "join1" => pcb'[q].numwait < MaxNumWait
    BY <1>c, <1>d, <1>f, Zenon DEF Types
  <2> QED
    BY <1>f, <2>1, <2>2, <2>3, <2>4, Zenon DEF Types
<1>2. Slots'
  BY <1>a, <1>c, <1>d, <1>f, Zero DEF Slots
<1>3. Family'
  BY <1>a, <1>c, <1>d, <1>f DEF Family, Execing, Joining, Exiting, Types
<1>4. /\ Unjoined(new)'
      /\ \A c \in bm \ {0} : Unjoined(c)' <=> Unjoined(c)
  <2>1. Unjoined(new)'
    BY <1>d, <1>f, Zenon DEF Unjoined, Execing
  <2>2. ASSUME NEW c \in bm \ {0}
        PROVE  Unjoined(c)' <=> Unjoined(c)
    <3>1. parent(c)' = parent(c) /\ parent(c) \in Pid /\ c # new
      BY <1>d, Zenon DEF Parents, Types
    <3>2. Unjoined(c)' <=> \/ c \in kids[parent(c)]
                           \/ pc'[parent(c)] \in Execing /\ id'[parent(c)] = c
      BY <1>f, <3>1, Zenon DEF Unjoined
    <3> QED
      BY <1>a, <1>f, <3>1, <3>2, Zenon DEF Unjoined, Execing
  <2> QED
    BY <2>1, <2>2, Zenon
<1>5. Parents'
  <2>1. \A c \in bm' \ {0} : c = new \/ c \in bm \ {0}
    BY <1>f, Zenon
  <2>2. bm \subseteq Pid
    BY Zenon DEF Types
  <2> QED
    BY <1>a, <1>c, <1>d, <1>e, <1>f, <1>4, <2>1, <2>2 DEF Parents
<1>6. Meeting'
  <2>1. \A q \in Pid : id[q] \in Pid
    BY Zenon DEF Types
  <2> QED
    BY <1>a, <1>c, <1>e, <1>f, <2>1 DEF Meeting, Joining
<1>7. WaitsWhere'
  BY <1>a, <1>c, <1>d, <1>f, Names DEF WaitsWhere, Types
<1>8. NoCorruption'
  BY <1>f, Zenon DEF NoCorruption
<1> QED
  BY <1>1, <1>2, <1>3, <1>5, <1>6, <1>7, <1>8, Zenon

\* Join of a child the program has not joined.
LEMMA JoinCallStep ==
  ASSUME Structure, Disciplined, NEW p \in Pid, NEW i \in Pid \cup {-1}, JoinCall(p, i)
  PROVE  Structure'
<1> USE DEF Structure
<1>a. /\ machine = "running" /\ pc[p] = "user" /\ p \in bm
      /\ \A s \in KSem : p \notin waiting[s]
  BY AtIs DEF JoinCall, Slots
<1>b. i \in Pid /\ i \in kids[p] /\ pcb[p].numwait < MaxNumWait
  BY Zenon DEF JoinCall, MayJoin, Types
<1>c. /\ \A q \in Pid : pc'[q] = IF q = p THEN "join1" ELSE pc[q]
      /\ \A q \in Pid : id'[q] = IF q = p THEN i ELSE id[q]
      /\ pc' \in [Pid -> Location] /\ id' \in [Pid -> Pid]
      /\ UNCHANGED <<machine, bm, pcb, name, kids>>
  BY <1>b, Zenon DEF JoinCall, P, Goto, Types, Location
<1>d. /\ avail' \in [KSem -> Nat] /\ waiting' \in [KSem -> SUBSET Pid]
      /\ \A s \in KSem \ {multex(p)} : avail'[s] = avail[s] /\ waiting'[s] = waiting[s]
      /\ waiting'[multex(p)] \subseteq waiting[multex(p)] \cup {p}
  <2>1. P(p, multex(p), "join1") /\ multex(p) \in KSem
    BY Names, Zenon DEF JoinCall
  <2> QED
    BY <2>1, PIs, Zenon DEF OnlyAt
<1>e. \A k \in Pid : /\ avail'[joinsem(k)] = avail[joinsem(k)]
                     /\ avail'[exitsem(k)] = avail[exitsem(k)]
                     /\ waiting'[joinsem(k)] = waiting[joinsem(k)]
                     /\ waiting'[exitsem(k)] = waiting[exitsem(k)]
                     /\ k # p => waiting'[multex(k)] = waiting[multex(k)]
  BY <1>d, Names, Zenon
<1>1. Types'
  BY <1>b, <1>c, <1>d, Zenon DEF Types
<1>2. Slots'
  <2>1. \A k \in Pid : k \in bm' <=> Live(k)'
    BY <1>c, Zenon DEF Slots, Live
  <2>2. \A k \in Pid : k \in bm' <=> \/ pc'[k] # "none"
                                     \/ \E q \in Pid : pc'[q] = "exec2" /\ id'[q] = k
    BY <1>a, <1>c DEF Slots
  <2>3. pc'[0] # "none"
    BY <1>a, <1>c, Zero, Zenon DEF Slots
  <2> QED
    BY <2>1, <2>2, <2>3, Zenon DEF Slots
<1>3. Family'
  <2>0. /\ \A q \in Pid : id[q] \in Pid /\ kids[q] \subseteq Pid
        /\ \A q : parent(q)' = parent(q)
    BY <1>c, Zenon DEF Types, parent
  <2>1. \A q \in Pid : \A c \in kids'[q] : q \in bm' /\ c \in bm' /\ c # 0 /\ parent(c)' = q
    BY <1>a, <1>b, <1>c, <2>0, Zenon DEF Family
  <2>2. \A q \in Pid : pc'[q] \in Execing =>
          /\ id'[q] \in bm' /\ id'[q] # 0 /\ pcb'[id'[q]].parentID = q
          /\ pc'[q] = "exec2" => pc'[id'[q]] = "none"
    BY <1>a, <1>b, <1>c, <2>0 DEF Family, Execing, parent
  <2>3. \A q \in Pid : pc'[q] \in Joining => id'[q] \in kids'[q]
    BY <1>a, <1>b, <1>c, <2>0, Zenon DEF Family, Joining
  <2>4. \A q \in Pid : pc'[q] \in Exiting => kids'[q] = {} /\ q # 0
    BY <1>a, <1>b, <1>c, <2>0, Zenon DEF Family, Exiting
  <2> QED
    BY <2>1, <2>2, <2>3, <2>4, Zenon DEF Family, parent
<1>4. \A c \in bm \ {0} : parent(c)' = parent(c) /\ (Unjoined(c)' <=> Unjoined(c))
  BY <1>a, <1>c, Zenon DEF Unjoined, Execing, parent, Parents
<1>5. Parents'
  <2>1. bm \subseteq Pid
    BY Zenon DEF Types
  <2> QED
    BY <1>a, <1>c, <1>e, <1>4, <2>1 DEF Parents
<1>6. Meeting'
  <2>1. \A q \in Pid : id[q] \in Pid
    BY Zenon DEF Types
  <2> QED
    BY <1>a, <1>c, <1>e, <2>1 DEF Meeting
<1>7. WaitsWhere'
  <2>1. \A s \in KSem : waiting[s] \subseteq Pid
    BY Zenon DEF Types
  <2>2. waiting'[bmsem] = waiting[bmsem] /\ waiting'[addrLock] = waiting[addrLock]
    BY <1>d, Names, Zenon
  <2>3. \A q \in waiting'[multex(p)] : q = p \/ q \in waiting[multex(p)]
    BY <1>d, Zenon
  <2>4. \A s \in KSem : p \notin waiting[s]
    BY <1>a, Zenon
  <2> QED
    BY <1>c, <1>e, <2>1, <2>2, <2>3, <2>4, Names DEF WaitsWhere, parent
<1>8. NoCorruption'
  BY <1>c, Zenon DEF NoCorruption
<1> QED
  BY <1>1, <1>2, <1>3, <1>5, <1>6, <1>7, <1>8, Zenon

\* Join returns: the child, which has come to its end, is joined.
LEMMA ExitReleaseStep ==
  ASSUME Structure, NEW p \in Pid, ExitRelease(p)
  PROVE  Structure'
<1> USE DEF Structure
<1>a. /\ machine = "running" /\ pc[p] = "join3" /\ p \in bm
      /\ \A s \in KSem : p \notin waiting[s]
  BY AtIs DEF ExitRelease, Slots
<1>b. PICK kid \in Pid : /\ kid = id[p] /\ kid \in kids[p]
                         /\ kid \in bm \ {0} /\ parent(kid) = p /\ Live(kid)
                         /\ pc[kid] \in {"exit3", "exit4"} /\ avail[joinsem(kid)] = 0
  <2>1. id[p] \in Pid /\ id[p] \in kids[p] /\ id[p] \in bm \ {0} /\ parent(id[p]) = p
    BY <1>a, Zenon DEF Family, Joining, Types
  <2>2. pc[id[p]] \in {"exit3", "exit4"} /\ avail[joinsem(id[p])] = 0
    BY <1>a, <2>1, Names, Zenon DEF Meeting
  <2> QED
    BY <2>1, <2>2, Zenon DEF Slots
<1>c. /\ \A q \in Pid : pc'[q] = IF q = p THEN "user" ELSE pc[q]
      /\ \A q \in Pid : id'[q] = IF q = p THEN 0 ELSE id[q]
      /\ \A q \in Pid : kids'[q] = IF q = p THEN kids[p] \ {kid} ELSE kids[q]
      /\ pc' \in [Pid -> Location] /\ id' \in [Pid -> Pid] /\ kids' \in [Pid -> SUBSET Pid]
      /\ UNCHANGED <<machine, bm, pcb, waiting, name>>
  BY <1>b, Zero DEF ExitRelease, V, S!Release, Goto, Types, Location
<1>d. /\ avail' \in [KSem -> Nat]
      /\ \A i \in Pid : avail'[joinsem(i)] = avail[joinsem(i)]
      /\ \A i \in Pid : i # kid => avail'[exitsem(i)] = avail[exitsem(i)]
  <2>1. V(p, exitsem(kid), "user") /\ exitsem(kid) \in KSem
    BY <1>b, Names, Zenon DEF ExitRelease
  <2> QED
    BY <2>1, VIs, Names DEF OnlyAt
<1>1. Types'
  BY <1>a, <1>c, <1>d, Zenon DEF Types
<1>2. Slots'
  <2>1. \A k \in Pid : k \in bm' <=> Live(k)'
    BY <1>c, Zenon DEF Slots, Live
  <2>2. \A k \in Pid : k \in bm' <=> \/ pc'[k] # "none"
                                     \/ \E q \in Pid : pc'[q] = "exec2" /\ id'[q] = k
    BY <1>a, <1>c DEF Slots
  <2>3. pc'[0] # "none"
    BY <1>a, <1>c, Zero, Zenon DEF Slots
  <2> QED
    BY <2>1, <2>2, <2>3, Zenon DEF Slots
<1>3. Family'
  <2>0. /\ \A q \in Pid : id[q] \in Pid /\ kids[q] \subseteq Pid
        /\ \A q : parent(q)' = parent(q)
    BY <1>c, Zenon DEF Types, parent
  <2>1. \A q \in Pid : \A c \in kids'[q] : q \in bm' /\ c \in bm' /\ c # 0 /\ parent(c)' = q
    BY <1>a, <1>b, <1>c, <2>0 DEF Family
  <2>2. \A q \in Pid : pc'[q] \in Execing =>
          /\ id'[q] \in bm' /\ id'[q] # 0 /\ pcb'[id'[q]].parentID = q
          /\ pc'[q] = "exec2" => pc'[id'[q]] = "none"
    BY <1>a, <1>b, <1>c, <2>0 DEF Family, Execing, parent
  <2>3. \A q \in Pid : pc'[q] \in Joining => id'[q] \in kids'[q]
    BY <1>a, <1>b, <1>c, <2>0, Zenon DEF Family, Joining
  <2>4. \A q \in Pid : pc'[q] \in Exiting => kids'[q] = {} /\ q # 0
    BY <1>a, <1>b, <1>c, <2>0 DEF Family, Exiting
  <2> QED
    BY <2>1, <2>2, <2>3, <2>4, Zenon DEF Family, parent
<1>4. /\ \A c \in bm \ {0} : parent(c)' = parent(c)
      /\ \A c \in bm \ {0} : c # kid => (Unjoined(c)' <=> Unjoined(c))
      /\ ~Unjoined(kid)'
  <2>1. ASSUME NEW c \in bm \ {0}
        PROVE  /\ parent(c)' = parent(c) /\ parent(c) \in Pid
               /\ Unjoined(c)' <=> \/ c \in kids'[parent(c)]
                                   \/ pc'[parent(c)] \in Execing /\ id'[parent(c)] = c
    <3>1. parent(c)' = parent(c) /\ parent(c) \in Pid
      BY <1>c, Zenon DEF parent, Parents
    <3> QED
      BY <3>1, Zenon DEF Unjoined
  <2>2. ASSUME NEW c \in bm \ {0}, c # kid
        PROVE  Unjoined(c)' <=> Unjoined(c)
    BY <1>a, <1>b, <1>c, <2>1, <2>2 DEF Unjoined, Execing
  <2>3. ~Unjoined(kid)'
    BY <1>b, <1>c, <2>1, Zenon DEF Execing
  <2> QED
    BY <2>1, <2>2, <2>3, Zenon
<1>5. Parents'
  <2>1. bm \subseteq Pid
    BY Zenon DEF Types
  <2> QED
    BY <1>a, <1>b, <1>c, <1>d, <1>4, <2>1 DEF Parents
<1>6. Meeting'
  <2>1. \A q \in Pid : id[q] \in Pid
    BY Zenon DEF Types
  <2> QED
    BY <1>a, <1>c, <1>d, <2>1 DEF Meeting
<1>7. WaitsWhere'
  <2>1. \A s \in KSem : waiting[s] \subseteq Pid
    BY Zenon DEF Types
  <2> QED
    BY <1>a, <1>c, <2>1, Names DEF WaitsWhere, parent
<1>8. NoCorruption'
  BY <1>c, Zenon DEF NoCorruption
<1> QED
  BY <1>1, <1>2, <1>3, <1>5, <1>6, <1>7, <1>8, Zenon

\* A process that removes itself has been joined, has no children left, and nobody
\* uses its PCB.
LEMMA RemoveFree ==
  ASSUME Structure, NEW p \in Pid, At(p, "exit4")
  PROVE  /\ p \in bm \ {0} /\ kids[p] = {} /\ ~Unjoined(p) /\ ~InUse(p)
         /\ avail[joinsem(p)] = 0
         /\ \A q \in Pid : p \notin kids[q]
         /\ \A q \in Pid : pc[q] \in Execing => id[q] # p
<1> USE DEF Structure
<1>1. /\ pc[p] = "exit4" /\ p \in bm \ {0} /\ kids[p] = {}
      /\ p \notin waiting[exitsem(p)]
  BY AtIs, Names DEF Slots, Family, Exiting
<1>2. ~Unjoined(p) /\ avail[joinsem(p)] = 0
  BY <1>1, Zenon DEF Parents
<1>3. \A q \in Pid : p \notin kids[q]
  BY <1>2, Zenon DEF Family, Unjoined
<1>4. \A q \in Pid : pc[q] \in Execing => id[q] # p
  BY <1>2, Zenon DEF Family, Unjoined
<1>5. ~InUse(p)
  <2> SUFFICES ASSUME NEW q \in Pid \ {p}
               PROVE  /\ q \notin waiting[joinsem(p)]
                      /\ q \notin waiting[exitsem(p)]
                      /\ q \notin waiting[multex(p)]
                      /\ ~(pc[q] = "exit1" /\ parent(q) = p)
                      /\ ~(pc[q] \in {"exec2", "exec3"} /\ id[q] = p)
    BY Zenon DEF InUse
  <2>1. q \notin waiting[joinsem(p)]
    BY <1>3 DEF WaitsWhere, Family, Joining
  <2>2. q \notin waiting[exitsem(p)]
    BY Zenon DEF WaitsWhere
  <2>3. ~(pc[q] = "exit1" /\ parent(q) = p)
    <3> SUFFICES ASSUME pc[q] = "exit1", parent(q) = p
                 PROVE  FALSE
      BY Zenon
    <3>1. q \in bm \ {0}
      BY Zenon DEF Slots, Family, Exiting
    <3>2. Unjoined(q)
      BY <3>1, Zenon DEF Parents
    <3> QED
      BY <1>1, <3>2, Zenon DEF Unjoined, Execing
  <2>4. q \notin waiting[multex(p)]
    BY <2>3, Zenon DEF WaitsWhere
  <2>5. ~(pc[q] \in {"exec2", "exec3"} /\ id[q] = p)
    BY <1>4, Zenon DEF Execing
  <2> QED
    BY <2>1, <2>2, <2>3, <2>4, <2>5, Zenon
<1> QED
  BY <1>1, <1>2, <1>3, <1>4, <1>5, Zenon

\* PTable::Remove leaves nothing that refers to the slot.
LEMMA RemoveStep ==
  ASSUME Structure, NEW p \in Pid, Remove(p)
  PROVE  Structure'
<1> USE DEF Structure
<1>a. /\ machine = "running" /\ pc[p] = "exit4"
      /\ \A s \in KSem : p \notin waiting[s]
  BY AtIs, Zenon DEF Remove
<1>b. /\ p \in bm \ {0} /\ kids[p] = {} /\ ~Unjoined(p) /\ ~InUse(p)
      /\ avail[joinsem(p)] = 0 /\ parent(p) \in Pid
      /\ \A q \in Pid : p \notin kids[q]
      /\ \A q \in Pid : pc[q] \in Execing => id[q] # p
  BY RemoveFree, Zenon DEF Remove, Parents
<1>c. /\ \A q \in Pid : pc'[q] = IF q = p THEN "none" ELSE pc[q]
      /\ pc' \in [Pid -> Location] /\ kids' = kids
      /\ machine' = machine /\ bm' = bm \ {p}
      /\ UNCHANGED <<avail, waiting, name, id>>
  BY <1>a, <1>b, Zenon DEF Remove, Goto, Types, Location
<1>d. /\ pcb' \in [Pid -> PCB]
      /\ \A i \in Pid : pcb'[i].parentID = pcb[i].parentID
      /\ \A i \in Pid : i # p => pcb'[i] = pcb[i]
      /\ pcb'[p].state = "deleted"
  <2> DEFINE rec == [NullPCB EXCEPT !.state = "deleted", !.parentID = parent(p)]
  <2>1. /\ rec \in PCB
        /\ rec.state = "deleted" /\ rec.parentID = pcb[p].parentID
    <3> DEFINE par == parent(p)
    <3>1. NullPCB \in PCB
      BY DEF NullPCB, PCB, PcbState
    <3>2. par \in Pid /\ par = pcb[p].parentID
      BY <1>b, Zenon DEF parent
    <3> HIDE DEF par
    <3>3. rec = [NullPCB EXCEPT !.state = "deleted", !.parentID = par]
      BY Zenon DEF par
    <3> HIDE DEF rec
    <3> QED
      BY <3>1, <3>2, <3>3, Zenon DEF PCB, PcbState
  <2>2. pcb' = [pcb EXCEPT ![p] = rec]
    BY Zenon DEF Remove
  <2> HIDE DEF rec
  <2> QED
    BY <2>1, <2>2, Zenon DEF Types
<1>1. Types'
  BY <1>c, <1>d, Zenon DEF Types
<1>2. Slots'
  <2>1. \A k \in Pid : k \in bm' <=> Live(k)'
    BY <1>c, <1>d DEF Slots, Live
  <2>2. \A k \in Pid : k \in bm' <=> \/ pc'[k] # "none"
                                     \/ \E q \in Pid : pc'[q] = "exec2" /\ id'[q] = k
    BY <1>a, <1>b, <1>c DEF Slots, Execing
  <2>3. pc'[0] # "none"
    BY <1>b, <1>c, Zero, Zenon DEF Slots
  <2> QED
    BY <2>1, <2>2, <2>3, Zenon DEF Slots
<1>3. Family'
  <2>0. /\ \A q \in Pid : id[q] \in Pid /\ kids[q] \subseteq Pid
        /\ \A q \in Pid : parent(q)' = parent(q)
    BY <1>d, Zenon DEF Types, parent
  <2>1. \A q \in Pid : \A c \in kids'[q] : q \in bm' /\ c \in bm' /\ c # 0 /\ parent(c)' = q
    BY <1>b, <1>c, <2>0 DEF Family
  <2>2. \A q \in Pid : pc'[q] \in Execing =>
          /\ id'[q] \in bm' /\ id'[q] # 0 /\ pcb'[id'[q]].parentID = q
          /\ pc'[q] = "exec2" => pc'[id'[q]] = "none"
    BY <1>a, <1>b, <1>c, <1>d, <2>0 DEF Family, Execing, parent
  <2>3. \A q \in Pid : pc'[q] \in Joining => id'[q] \in kids'[q]
    BY <1>c, Zenon DEF Family, Joining
  <2>4. \A q \in Pid : pc'[q] \in Exiting => kids'[q] = {} /\ q # 0
    BY <1>c, Zenon DEF Family, Exiting
  <2> QED
    BY <2>1, <2>2, <2>3, <2>4, Zenon DEF Family, parent
<1>4. \A c \in bm \ {0} : parent(c)' = parent(c) /\ (Unjoined(c)' <=> Unjoined(c))
  <2> SUFFICES ASSUME NEW c \in bm \ {0}
               PROVE  parent(c)' = parent(c) /\ (Unjoined(c)' <=> Unjoined(c))
    BY Zenon
  <2>1. parent(c)' = parent(c) /\ parent(c) \in Pid
    BY <1>d, Zenon DEF parent, Parents, Types
  <2>2. Unjoined(c)' <=> \/ c \in kids'[parent(c)]
                         \/ pc'[parent(c)] \in Execing /\ id'[parent(c)] = c
    BY <2>1, Zenon DEF Unjoined
  <2> QED
    BY <1>a, <1>c, <2>1, <2>2, Zenon DEF Unjoined, Execing
<1>5. Parents'
  <2>1. bm \subseteq Pid
    BY Zenon DEF Types
  <2> QED
    BY <1>c, <1>4, <2>1, Zenon DEF Parents
<1>6. Meeting'
  <2>1. \A q \in Pid : id[q] \in Pid
    BY Zenon DEF Types
  <2>2. \A q \in Pid : pc[q] = "join3" => id[q] # p
    BY <1>b DEF Family, Joining
  <2> QED
    BY <1>a, <1>b, <1>c, <2>1, <2>2 DEF Meeting
<1>7. WaitsWhere'
  <2>1. \A s \in KSem : waiting[s] \subseteq Pid
    BY Zenon DEF Types
  <2>2. \A q \in Pid : parent(q)' = parent(q)
    BY <1>d, Zenon DEF parent
  <2> QED
    BY <1>a, <1>c, <2>1, <2>2, Names DEF WaitsWhere
<1>8. NoCorruption'
  BY <1>c, Zenon DEF NoCorruption
<1> QED
  BY <1>1, <1>2, <1>3, <1>5, <1>6, <1>7, <1>8, Zenon

\* Every way in which the machine stops, but for corruption, keeps the rest.
LEMMA StopStep ==
  ASSUME Structure, machine' \in Machine \ {"corrupt"},
         UNCHANGED <<bm, pcb, avail, waiting, pc, name, id, kids>>
  PROVE  Structure'
  BY DEF Structure, Types, NoCorruption, Slots, Family, Parents, Meeting, WaitsWhere, Live,
     parent, Unjoined

\* Join finds a PCB: what a program may join is live.
LEMMA JoinNullStep ==
  ASSUME Structure, Disciplined, NEW p \in Pid, NEW i \in Pid \cup {-1}, JoinNull(p, i)
  PROVE  FALSE
  BY Zenon DEF Structure, JoinNull, MayJoin, Family, Slots, Live, Types

\* Every step of a disciplined program, and of the kernel, keeps the invariant.
LEMMA StructureNext ==
  ASSUME Disciplined
  PROVE  Structure /\ [Next]_vars => Structure'
<1> SUFFICES ASSUME Structure, [Next]_vars
             PROVE  Structure'
  BY Zenon
<1>1. ASSUME NEW p \in Pid, StartFailed(p) \/ LoadTooBig(p) \/ HaltCall(p)
      PROVE  Structure'
  BY <1>1, StopStep, Zenon DEF StartFailed, LoadTooBig, HaltCall, Machine
<1>2. ASSUME NEW p \in Pid, KernelStep(p)
      PROVE  Structure'
  BY <1>1, <1>2, WakeStep, QuietCalls, ExecCreateStep, ExecForkStep, ExecReturnStep, IncNumWaitStep,
     JoinWaitStep, ExitReleaseStep, DecNumWaitStep, JoinReleaseStep, ExitWaitStep,
     RemoveStep, Zenon DEF KernelStep
<1>3. CASE UNCHANGED vars
  <2>1. machine \in Machine \ {"corrupt"}
    BY Zenon DEF Structure, Types, NoCorruption
  <2> QED
    BY <1>3, <2>1, StopStep, Zenon DEF vars
<1>4. ASSUME NEW p \in Pid, SystemCall(p)
      PROVE  Structure'
  <2>1. CASE ExecNoFile(p) \/ \E i \in Pid \cup {-1} : JoinRefuse(p, i)
    BY <1>3, <2>1, Zenon DEF ExecNoFile, JoinRefuse
  <2> QED
    BY <1>1, <1>4, <2>1, QuietCalls, JoinNullStep, JoinCallStep, ExitCallStep, Zenon DEF SystemCall
<1> QED
  BY <1>2, <1>3, <1>4, Zenon DEF Next, Stopped

\* The invariant of the process table under disciplined programs.
THEOREM StructureCorrect ==
  ASSUME Disciplined
  PROVE  Spec => []Structure
<1>1. Init => Structure
  BY StructureInit, Zenon
<1>2. Structure /\ [Next]_vars => Structure'
  BY StructureNext, Zenon
<1> QED
  BY <1>1, <1>2, PTL DEF Spec

\* Exec, Join, Exit and Remove never use a PCB or a semaphore that is not there, for
\* any number of processes, when programs join each child exactly once.
THEOREM NoCorruptionCorrect ==
  ASSUME Disciplined
  PROVE  Spec => []NoCorruption
<1>1. Structure => NoCorruption
  BY Zenon DEF Structure
<1> QED
  BY <1>1, StructureCorrect, PTL

\* Join reads the exit code of its own child, which has set it and cannot leave yet.
THEOREM RendezvousCorrect ==
  ASSUME Disciplined
  PROVE  Spec => []Rendezvous
<1>1. Structure => Rendezvous
  <2> SUFFICES ASSUME Structure, NEW p \in Pid, At(p, "join3")
               PROVE  /\ Live(id[p]) /\ parent(id[p]) = p
                      /\ \/ pc[id[p]] = "exit3"
                         \/ pc[id[p]] = "exit4" /\ id[p] \in waiting[exitsem(id[p])]
    BY Zenon DEF Rendezvous
  <2> USE DEF Structure
  <2>1. /\ pc[p] = "join3" /\ id[p] \in Pid /\ id[p] \in kids[p] /\ id[p] \in bm \ {0}
        /\ parent(id[p]) = p
    BY AtIs, Zenon DEF Family, Joining, Types
  <2>2. pc[id[p]] \in {"exit3", "exit4"}
    BY <2>1, AtIs, Zenon DEF Meeting
  <2>3. pc[id[p]] = "exit4" => id[p] \in waiting[exitsem(id[p])]
    BY <2>1, Zenon DEF Parents, Unjoined
  <2> QED
    BY <2>1, <2>2, <2>3, Zenon DEF Slots
<1> QED
  BY <1>1, StructureCorrect, PTL

\* The bitmap, the table and the threads agree about the slots in use.
THEOREM SlotsMatchCorrect ==
  ASSUME Disciplined
  PROVE  Spec => []SlotsMatch
<1>1. Structure => SlotsMatch
  BY Zenon DEF Structure, Slots, SlotsMatch
<1> QED
  BY <1>1, StructureCorrect, PTL

\* A slot is given back only by a process that its parent has joined.
THEOREM KeptUntilJoinedCorrect ==
  ASSUME Disciplined
  PROVE  Spec => KeptUntilJoined
<1>1. Structure /\ [Next]_vars => [\A c \in bm \ bm' : c \notin kids[parent(c)]]_vars
  <2> SUFFICES ASSUME Structure, Next, NEW c \in bm \ bm'
               PROVE  c \notin kids[parent(c)]
    BY Zenon
  <2>1. PICK p \in Pid : Remove(p)
    BY ZenonT(30), Zenon DEF Next, KernelStep, SystemCall, Stopped, vars, Wake, StartProcess, Load, LoadFull,
       StartFailed, LoadTooBig, ExecRefuse, ExecCreate, ExecFork, ExecRelease, ExecReturn,
       IncNumWait, JoinWait, ExitRelease, DecNumWait, JoinRelease, ExitWait, Corrupt,
       ExecNoFile, ExecCall, JoinRefuse, JoinNull, JoinCall, ExitCall, HaltCall
  <2>2. c = p /\ At(p, "exit4")
    BY <2>1, Zenon DEF Remove
  <2> QED
    BY <2>2, RemoveFree, Zenon DEF Unjoined
<1> QED
  BY <1>1, StructureCorrect, PTL DEF Spec, KeptUntilJoined
=============================================================================
