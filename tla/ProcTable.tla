----------------------------- MODULE ProcTable -----------------------------
(***************************************************************************)
(* Processes: the system calls Exec, Join, Exit and Halt, through PTable   *)
(* (threads/ptable.cc) and PCB (threads/pcb.cc), with the start of a       *)
(* process and the frame accounting of AddrSpace::Load.                    *)
(*                                                                         *)
(* The threads run on the abstract semaphores of CountingSemaphore, which  *)
(* Threads implements.  A thread is preempted only where interrupts come   *)
(* back on: after each P, V and Fork.  Each action below is the code from  *)
(* one such point to the next.                                             *)
(*                                                                         *)
(* A process is removed from the table and its thread finishes in one      *)
(* step, so a pid stands for its thread too.                               *)
(***************************************************************************)
EXTENDS Integers, FiniteSets, FiniteSetsExt

CONSTANTS MaxProcess,    \* MAX_PROCESS: the slots of the table
          Prog,          \* the names of the executable files there are
          MainProg,      \* the one given to nachos -x
          Pages,         \* the pages each program needs
          BitmapSize,    \* the bits of gPhysPageBitMap
          NumPhysPages,  \* the pages of physical memory
          ExitCode,      \* what programs pass to Exit
          MaxNumWait,    \* bound: no Join beyond this numwait
          Disciplined    \* whether programs join each child exactly once

ASSUME ProcTableAssumption ==
  /\ MaxProcess \in Nat \ {0}
  /\ MainProg \in Prog
  /\ MaxNumWait \in Nat

Pid == 0..(MaxProcess - 1)

VARIABLES
  machine,    \* "running", or how the run of the kernel ended
  bm,         \* PTable::bm: the pids in use
  pcb,        \* PTable::pcb and the objects it points to
  freePages,  \* gPhysPageBitMap->NumClear()
  pages,      \* numPages of the process's address space
  avail,      \* the values of the semaphores
  waiting,    \* who is inside P of each semaphore
  pc,         \* where the thread of the process is
  name, id,   \* local variables of the system call under way, reset when dead
  kids        \* history: the children the program has not joined yet

vars == <<machine, bm, pcb, freePages, pages, avail, waiting, pc, name, id,
          kids>>

bmsem == <<"bmsem", 0>>
addrLock == <<"addrLock", 0>>
joinsem(i) == <<"joinsem", i>>
exitsem(i) == <<"exitsem", i>>
multex(i) == <<"multex", i>>

KSem == {bmsem, addrLock} \cup ({"joinsem", "exitsem", "multex"} \X Pid)

\* The semaphores of PTable and Kernel, and of the PCB of the main process.
KValue == [s \in KSem |-> IF s \in {bmsem, addrLock, multex(0)} THEN 1 ELSE 0]

S == INSTANCE CountingSemaphore
     WITH Thread <- Pid, Sem <- KSem, InitialValue <- KValue

PcbState == {"null", "live", "deleted"}

(* "corrupt" stands for what follows the use of a null or deleted object.  *)
Machine == {"running", "halted", "aborted", "corrupt"}

Location == {"none", "start", "load", "failed", "user",
             "exec1", "exec2", "exec3", "exec4",
             "join1", "join2", "join3", "exit1", "exit2", "exit3", "exit4"}

TypeOK ==
  /\ machine \in Machine
  /\ bm \subseteq Pid
  /\ pcb \in [Pid -> [state : PcbState, parentID : Pid \cup {-1},
                      filename : Prog, numwait : 0..MaxNumWait,
                      exitcode : ExitCode \cup {0}]]
  /\ freePages \in 0..BitmapSize
  /\ pages \in [Pid -> Nat]
  /\ avail \in [KSem -> Nat]
  /\ waiting \in [KSem -> SUBSET Pid]
  /\ pc \in [Pid -> Location]
  /\ name \in [Pid -> Prog]
  /\ id \in [Pid -> Pid]
  /\ kids \in [Pid -> SUBSET Pid]

\* PCB::PCB with SetFileName; the parent is set again in PCB::Exec.
NewPCB(parent, file) ==
  [state |-> "live", parentID |-> parent, filename |-> file, numwait |-> 0,
   exitcode |-> 0]

NullPCB ==
  [state |-> "null", parentID |-> -1, filename |-> MainProg, numwait |-> 0,
   exitcode |-> 0]

\* PTable::PTable and PTable::initStartProcess; the main thread is about to
\* load its program.
Init ==
  /\ machine = "running"
  /\ bm = {0}
  /\ pcb = [i \in Pid |-> IF i = 0 THEN NewPCB(-1, MainProg) ELSE NullPCB]
  /\ freePages = BitmapSize
  /\ pages = [i \in Pid |-> 0]
  /\ S!Init
  /\ pc = [i \in Pid |-> IF i = 0 THEN "start" ELSE "none"]
  /\ name = [i \in Pid |-> MainProg]
  /\ id = [i \in Pid |-> 0]
  /\ kids = [i \in Pid |-> {}]

-----------------------------------------------------------------------------
(* Threads and semaphores.                                                 *)

\* The thread of p is about to execute the code at loc.
At(p, loc) == machine = "running" /\ pc[p] = loc /\ ~S!IsWaiting(p)

Goto(p, loc) == pc' = [pc EXCEPT ![p] = loc]

\* Semaphore::P, and the code that follows it.
P(p, s, loc) == (S!Take(p, s) \/ S!Wait(p, s)) /\ Goto(p, loc)

\* A thread inside P gets its unit.
Wake(p, s) ==
  /\ machine = "running"
  /\ S!Grant(p, s)
  /\ UNCHANGED <<machine, bm, pcb, freePages, pages, pc, name, id, kids>>

\* Semaphore::V, and the code that follows it.
V(p, s, loc) == S!Release(s) /\ Goto(p, loc)

\* The code dereferences an object that is not there.
Corrupt ==
  /\ machine' = "corrupt"
  /\ UNCHANGED <<bm, pcb, freePages, pages, avail, waiting, pc, name, id,
                 kids>>

Live(i) == pcb[i].state = "live"

-----------------------------------------------------------------------------
(* Starting a process: StartProcess, and main() for the main process.      *)

StartProcess(p) ==
  /\ At(p, "start")
  /\ P(p, addrLock, "load")
  /\ UNCHANGED <<machine, bm, pcb, freePages, pages, name, id, kids>>

NumPages(p) == Pages[pcb[p].filename]

\* AddrSpace::Load finds enough clear frames; Execute follows.
Load(p) ==
  /\ At(p, "load")
  /\ NumPages(p) <= NumPhysPages
  /\ NumPages(p) <= freePages
  /\ freePages' = freePages - NumPages(p)
  /\ pages' = [pages EXCEPT ![p] = NumPages(p)]
  /\ V(p, addrLock, "user")
  /\ UNCHANGED <<machine, bm, pcb, name, id, kids>>

\* AddrSpace::Load finds too few and returns FALSE ...
LoadFull(p) ==
  /\ At(p, "load")
  /\ NumPages(p) <= NumPhysPages
  /\ NumPages(p) > freePages
  /\ V(p, addrLock, "failed")
  /\ UNCHANGED <<machine, bm, pcb, freePages, pages, name, id, kids>>

\* ... upon which StartProcess aborts the kernel and main() halts it.
StartFailed(p) ==
  /\ At(p, "failed")
  /\ machine' = IF p = 0 THEN "halted" ELSE "aborted"
  /\ UNCHANGED <<bm, pcb, freePages, pages, avail, waiting, pc, name, id,
                 kids>>

\* The assertion of AddrSpace::Load on the size of a program.
LoadTooBig(p) ==
  /\ At(p, "load")
  /\ NumPages(p) > NumPhysPages
  /\ machine' = "aborted"
  /\ UNCHANGED <<bm, pcb, freePages, pages, avail, waiting, pc, name, id,
                 kids>>

-----------------------------------------------------------------------------
(* Exec.                                                                   *)

\* SysExec cannot open the file: -1 in register 2.
ExecNoFile(p) == At(p, "user") /\ UNCHANGED vars

ExecCall(p, file) ==
  /\ At(p, "user")
  /\ file \in Prog
  /\ name' = [name EXCEPT ![p] = file]
  /\ P(p, bmsem, "exec1")
  /\ UNCHANGED <<machine, bm, pcb, freePages, pages, id, kids>>

(* The outcomes of comparing the name with currentThread->getName().  The  *)
(* main thread is called "main", which is no program.  The name of any     *)
(* other thread is the buffer of the Exec that made it, deleted when that  *)
(* call returned: what it holds now is undefined.                          *)
NameOfCurrent(p) == IF p = 0 THEN {FALSE} ELSE BOOLEAN

\* PTable::ExecUpdate refuses the name, or has no slot for it.
ExecRefuse(p) ==
  /\ At(p, "exec1")
  /\ \/ TRUE \in NameOfCurrent(p)
     \/ name[p] = pcb[0].filename
     \/ bm = Pid
  /\ name' = [name EXCEPT ![p] = MainProg]
  /\ V(p, bmsem, "user")
  /\ UNCHANGED <<machine, bm, pcb, freePages, pages, id, kids>>

\* Bitmap::FindAndSet of PTable::bm.
GetFreeSlot == Min(Pid \ bm)

\* Mutant: A PCB whose joinsem starts at one: Join does not wait for Exit.
ExecCreateJoinable(p) ==
  /\ At(p, "exec1")
  /\ FALSE \in NameOfCurrent(p)
  /\ name[p] # pcb[0].filename
  /\ bm # Pid
  /\ LET index == GetFreeSlot
     IN  /\ bm' = bm \cup {index}
         /\ pcb' = [pcb EXCEPT ![index] = NewPCB(p, name[p])]
         /\ avail' = [avail EXCEPT ![joinsem(index)] = 1,
                                   ![exitsem(index)] = 0,
                                   ![multex(index)] = 0]
         /\ id' = [id EXCEPT ![p] = index]
  /\ name' = [name EXCEPT ![p] = MainProg]
  /\ Goto(p, "exec2")
  /\ UNCHANGED <<machine, freePages, pages, waiting, kids>>

\* A slot is taken and a PCB made for it; PCB::Exec gets its fresh multex.
ExecCreate(p) ==
  /\ At(p, "exec1")
  /\ FALSE \in NameOfCurrent(p)
  /\ name[p] # pcb[0].filename
  /\ bm # Pid
  /\ LET index == GetFreeSlot
     IN  /\ bm' = bm \cup {index}
         /\ pcb' = [pcb EXCEPT ![index] = NewPCB(p, name[p])]
         /\ avail' = [avail EXCEPT ![joinsem(index)] = 0,
                                   ![exitsem(index)] = 0,
                                   ![multex(index)] = 0]
         /\ id' = [id EXCEPT ![p] = index]
  /\ name' = [name EXCEPT ![p] = MainProg]
  /\ Goto(p, "exec2")
  /\ UNCHANGED <<machine, freePages, pages, waiting, kids>>

\* new Thread and Thread::Fork: the child may run from here on.
ExecFork(p) ==
  /\ At(p, "exec2")
  /\ pc' = [pc EXCEPT ![p] = "exec3", ![id[p]] = "start"]
  /\ UNCHANGED <<machine, bm, pcb, freePages, pages, avail, waiting, name, id, kids>>

ExecRelease(p) ==
  /\ At(p, "exec3")
  /\ V(p, multex(id[p]), "exec4")
  /\ UNCHANGED <<machine, bm, pcb, freePages, pages, name, id, kids>>

ExecReturn(p) ==
  /\ At(p, "exec4")
  /\ V(p, bmsem, "user")
  /\ kids' = [kids EXCEPT ![p] = @ \cup {id[p]}]
  /\ id' = [id EXCEPT ![p] = 0]
  /\ UNCHANGED <<machine, bm, pcb, freePages, pages, name>>

-----------------------------------------------------------------------------
(* Join.                                                                   *)

\* What the program may pass to Join.
MayJoin(p, i) == Disciplined => i \in kids[p]

\* PTable::JoinUpdate refuses a negative id and a process of another parent.
\* The PCB of a removed process can still be read: ~PCB never completes.
JoinRefuse(p, i) ==
  /\ At(p, "user")
  /\ MayJoin(p, i)
  /\ i >= 0 => pcb[i].state # "null" /\ pcb[i].parentID # p
  /\ UNCHANGED vars

JoinNull(p, i) ==
  /\ At(p, "user")
  /\ MayJoin(p, i)
  /\ i >= 0 /\ pcb[i].state = "null"
  /\ Corrupt

JoinCall(p, i) ==
  /\ At(p, "user")
  /\ MayJoin(p, i)
  /\ i >= 0 /\ pcb[i].state # "null" /\ pcb[i].parentID = p
  /\ pcb[p].numwait < MaxNumWait
  /\ id' = [id EXCEPT ![p] = i]
  /\ P(p, multex(p), "join1")
  /\ UNCHANGED <<machine, bm, pcb, freePages, pages, name, kids>>

\* PCB::IncNumWait on the caller's own PCB.
IncNumWait(p) ==
  /\ At(p, "join1")
  /\ pcb' = [pcb EXCEPT ![p].numwait = @ + 1]
  /\ V(p, multex(p), "join2")
  /\ UNCHANGED <<machine, bm, freePages, pages, name, id, kids>>

JoinWait(p) ==
  /\ At(p, "join2")
  /\ IF Live(id[p])
     THEN /\ P(p, joinsem(id[p]), "join3")
          /\ UNCHANGED <<machine, bm, pcb, freePages, pages, name, id, kids>>
     ELSE Corrupt

\* GetExitCode and PCB::ExitRelease; the system call returns.
ExitRelease(p) ==
  /\ At(p, "join3")
  /\ IF Live(id[p])
     THEN /\ kids' = [kids EXCEPT ![p] = @ \ {id[p]}]
          /\ id' = [id EXCEPT ![p] = 0]
          /\ V(p, exitsem(id[p]), "user")
          /\ UNCHANGED <<machine, bm, pcb, freePages, pages, name>>
     ELSE Corrupt

-----------------------------------------------------------------------------
(* Exit and Halt.                                                          *)

MayExit(p) == Disciplined => kids[p] = {}

\* The main process frees its space and halts the machine; Halt and every
\* exception that is not a system call halt it too.
HaltCall(p) ==
  /\ At(p, "user")
  /\ machine' = "halted"
  /\ UNCHANGED <<bm, pcb, freePages, pages, avail, waiting, pc, name, id,
                 kids>>

parent(p) == pcb[p].parentID

\* PTable::ExitUpdate up to the P of the parent's DecNumWait.
ExitCall(p, ec) ==
  /\ At(p, "user")
  /\ p # 0
  /\ MayExit(p)
  /\ IF Live(parent(p))
     THEN /\ pcb' = [pcb EXCEPT ![p].exitcode = ec]
          /\ P(p, multex(parent(p)), "exit1")
          /\ UNCHANGED <<machine, bm, freePages, pages, name, id, kids>>
     ELSE Corrupt

\* Mutant: PCB::DecNumWait without its test.
DecNumWaitUntested(p) ==
  /\ At(p, "exit1")
  /\ pcb' = [pcb EXCEPT ![parent(p)].numwait = @ - 1]
  /\ V(p, multex(parent(p)), "exit2")
  /\ UNCHANGED <<machine, bm, freePages, pages, name, id, kids>>

DecNumWait(p) ==
  /\ At(p, "exit1")
  /\ pcb' = [pcb EXCEPT ![parent(p)].numwait = IF @ > 0 THEN @ - 1 ELSE @]
  /\ V(p, multex(parent(p)), "exit2")
  /\ UNCHANGED <<machine, bm, freePages, pages, name, id, kids>>

\* Mutant: PTable::ExitUpdate with its PCB::JoinRelease after ExitWait.
JoinReleaseLate(p) ==
  /\ At(p, "exit2")
  /\ Goto(p, "exit3")
  /\ UNCHANGED <<machine, bm, pcb, freePages, pages, avail, waiting, name, id, kids>>

JoinRelease(p) ==
  /\ At(p, "exit2")
  /\ V(p, joinsem(p), "exit3")
  /\ UNCHANGED <<machine, bm, pcb, freePages, pages, name, id, kids>>

\* Mutant: PTable::ExitUpdate without PCB::ExitWait.
ExitUnasked(p) ==
  /\ At(p, "exit3")
  /\ Goto(p, "exit4")
  /\ UNCHANGED <<machine, bm, pcb, freePages, pages, avail, waiting, name, id, kids>>

\* Mutant: PCB::ExitWait on the wrong semaphore.
ExitWaitJoinsem(p) ==
  /\ At(p, "exit3")
  /\ P(p, joinsem(p), "exit4")
  /\ UNCHANGED <<machine, bm, pcb, freePages, pages, name, id, kids>>

ExitWait(p) ==
  /\ At(p, "exit3")
  /\ P(p, exitsem(p), "exit4")
  /\ UNCHANGED <<machine, bm, pcb, freePages, pages, name, id, kids>>

\* Another thread is inside, or about to leave, a semaphore of p's PCB.
InUse(p) ==
  \E q \in Pid \ {p} :
    \/ \E s \in {joinsem(p), exitsem(p), multex(p)} : q \in waiting[s]
    \/ pc[q] = "exit1" /\ parent(q) = p
    \/ pc[q] \in {"exec2", "exec3"} /\ id[q] = p

\* Mutant: PTable::Remove without bm->Clear.
RemoveKeepsSlot(p) ==
  /\ At(p, "exit4")
  /\ machine' = IF InUse(p) THEN "corrupt" ELSE "running"
  /\ pcb' = [pcb EXCEPT ![p].state = "deleted"]
  /\ freePages' = freePages + pages[p]
  /\ pages' = [pages EXCEPT ![p] = 0]
  /\ kids' = [kids EXCEPT ![p] = {}]
  /\ Goto(p, "none")
  /\ UNCHANGED <<bm, avail, waiting, name, id>>

\* Mutant: ~PCB without FreeSpace.
RemoveKeepsSpace(p) ==
  /\ At(p, "exit4")
  /\ machine' = IF InUse(p) THEN "corrupt" ELSE "running"
  /\ bm' = bm \ {p}
  /\ pcb' = [pcb EXCEPT ![p].state = "deleted"]
  /\ pages' = [pages EXCEPT ![p] = 0]
  /\ kids' = [kids EXCEPT ![p] = {}]
  /\ Goto(p, "none")
  /\ UNCHANGED <<freePages, avail, waiting, name, id>>

\* PTable::Remove: the slot is cleared, ~PCB deletes the semaphores, frees the
\* address space and finishes the thread, which never returns from there.
Remove(p) ==
  /\ At(p, "exit4")
  /\ machine' = IF InUse(p) THEN "corrupt" ELSE "running"
  /\ bm' = bm \ {p}
  /\ pcb' = [pcb EXCEPT ![p] = [NullPCB EXCEPT !.state = "deleted",
                                              !.parentID = parent(p)]]
  /\ freePages' = freePages + pages[p]
  /\ pages' = [pages EXCEPT ![p] = 0]
  /\ kids' = [kids EXCEPT ![p] = {}]
  /\ Goto(p, "none")
  /\ UNCHANGED <<avail, waiting, name, id>>

\* The machine has stopped.
Stopped == machine # "running" /\ UNCHANGED vars

-----------------------------------------------------------------------------
\* What the kernel does without waiting for the program to ask.
KernelStep(p) ==
  \/ \E s \in KSem : Wake(p, s)
  \/ StartProcess(p) \/ Load(p) \/ LoadFull(p) \/ StartFailed(p) \/ LoadTooBig(p)
  \/ ExecRefuse(p) \/ ExecCreate(p) \/ ExecFork(p) \/ ExecRelease(p)
  \/ ExecReturn(p)
  \/ IncNumWait(p) \/ JoinWait(p) \/ ExitRelease(p)
  \/ DecNumWait(p) \/ JoinRelease(p) \/ ExitWait(p) \/ Remove(p)

\* The system calls the program chooses to make.
SystemCall(p) ==
  \/ ExecNoFile(p)
  \/ \E file \in Prog : ExecCall(p, file)
  \/ \E i \in Pid \cup {-1} : JoinRefuse(p, i) \/ JoinNull(p, i) \/ JoinCall(p, i)
  \/ \E ec \in ExitCode : ExitCall(p, ec)
  \/ HaltCall(p)

Next == (\E p \in Pid : KernelStep(p) \/ SystemCall(p)) \/ Stopped

Spec == Init /\ [][Next]_vars

\* Every ready thread gets the processor: ReadyRuns of Threads.
FairSpec == Spec /\ \A p \in Pid : WF_vars(KernelStep(p))

-----------------------------------------------------------------------------
(* Properties of programs that join each child exactly once.               *)

\* Nobody waits in, or comes back to, a semaphore of a PCB that Remove has
\* deleted, and no PCB is used that is not there: Join, Exit and Remove order
\* the last uses of a PCB before its deletion.
NoCorruption == machine # "corrupt"

\* When Join has passed joinsem, the child is the caller's own, has set its
\* exit code and released joinsem, and cannot be removed before the caller
\* releases exitsem: the exit code read is the child's.
Rendezvous ==
  \A p \in Pid : At(p, "join3") =>
    LET c == id[p]
    IN  /\ Live(c) /\ parent(c) = p
        /\ \/ pc[c] = "exit3"
           \/ pc[c] = "exit4" /\ c \in waiting[exitsem(c)]

\* The bitmap, the table and the threads agree: a slot is taken exactly while
\* its PCB is live, and a live PCB has a thread, or is being given one by Exec.
SlotsMatch ==
  machine # "corrupt" => \A i \in Pid :
    /\ i \in bm <=> Live(i)
    /\ i \in bm <=> \/ pc[i] # "none"
                    \/ \E p \in Pid : pc[p] = "exec2" /\ id[p] = i

\* Frames are neither lost nor freed twice over any sequence of Exec and Exit.
FramesAccounted ==
  freePages + MapThenSumSet(LAMBDA p : pages[p], Pid) = BitmapSize

\* A slot is given back only after the parent has joined its process: the exit
\* code of a child waits for its parent however late that joins.
KeptUntilJoined ==
  [][\A c \in bm \ bm' : c \notin kids[parent(c)]]_vars

\* A parent in Join of an exiting child, and that child, meet: Join returns.
JoinReturns ==
  \A p \in Pid :
    (/\ pc[p] \in {"join1", "join2", "join3"}
     /\ pc[id[p]] \in {"exit1", "exit2", "exit3", "exit4"})
    ~> (pc[p] = "user" \/ machine # "running")

\* A joined child gives its slot and its frames back.
JoinedLeaves ==
  \A c \in Pid :
    (c \in bm /\ avail[exitsem(c)] > 0) ~> (c \notin bm \/ machine # "running")

\* Both: Join and the Exit it waits for complete on either side.
JoinCompletes == JoinReturns /\ JoinedLeaves

-----------------------------------------------------------------------------
(* What the comments of the code say, and the code does not keep.          *)

\* Semaphore::~Semaphore: "Assume no one is still waiting on the semaphore!"
NoneWaitingAtDelete ==
  [][\A p \in bm \ bm' :
       \A s \in {joinsem(p), exitsem(p), multex(p)} : waiting[s] \ {p} = {}]_vars

\* PTable::JoinUpdate: only the parent may join.  A process that has not called
\* Exit cannot have been joined, so its parent still has it among its kids.
OnlyParentJoins ==
  [][\A p \in Pid :
       (pc[p] = "user" /\ pc'[p] = "join1" /\ pc[id'[p]] = "user")
         => id'[p] \in kids[p]]_vars

\* PTable::ExecUpdate: Exec is refused for the name of the current process, the
\* name of the main process, or for want of a slot.
RefusedWithReason ==
  [][\A p \in Pid :
       (pc[p] = "exec1" /\ pc'[p] = "user")
         => name[p] \in {pcb[p].filename, pcb[0].filename} \/ bm = Pid]_vars
=============================================================================
