----------------------------- MODULE AddrSpace -----------------------------
(***************************************************************************)
(* Address spaces (userprog/addrspace.cc): page frames are handed out from *)
(* the bitmap gPhysPageBitMap, a page table is installed in the machine on *)
(* a context switch, and user stores go through it (machine/translate.cc). *)
(*                                                                         *)
(* The body of each action runs with no preemption point inside: Load      *)
(* allocates between addrLock->P and addrLock->V, the rest with interrupts *)
(* off or between two user instructions.                                   *)
(***************************************************************************)
EXTENDS Integers, Sequences, FiniteSets

CONSTANTS Process,       \* the user processes
          Main,          \* the process of the main thread
          BitmapSize,    \* new Bitmap(256) in Kernel::Initialize
          NumPhysPages,  \* the pages of machine->mainMemory
          MaxPages,      \* bound: the largest address space
          Value,         \* what a page may hold
          Zero           \* what bzero leaves there

Frame == 0..(BitmapSize - 1)

ASSUME AddrSpaceAssumption ==
  /\ Main \in Process
  /\ BitmapSize \in Nat
  /\ NumPhysPages \in Nat
  /\ MaxPages \in Nat
  /\ Zero \in Value

VARIABLES
  currentThread,    \* the process whose thread is on the CPU
  space,            \* Thread::space, and whether Load has filled it
  gPhysPageBitMap,  \* the set bits
  pageTable,        \* AddrSpace::pageTable: the frame of each virtual page
  machineTable,     \* whose page table machine->pageTable points to
  mainMemory,       \* what each frame holds
  stored            \* history: what the process last stored in each page

vars == <<currentThread, space, gPhysPageBitMap, pageTable, machineTable,
          mainMemory, stored>>

(* "none":   no AddrSpace                                                  *)
(* "loaded": Load has returned, thread->space is still NULL                *)
(* "active": Execute has set thread->space                                 *)
(* "freed":  deleted by the exiting thread, which is still on the CPU      *)
SpaceState == {"none", "loaded", "active", "freed"}

TypeOK ==
  /\ currentThread \in Process
  /\ space \in [Process -> SpaceState]
  /\ gPhysPageBitMap \in SUBSET Frame
  /\ pageTable \in [Process -> Seq(Frame)]
  /\ machineTable \in Process
  /\ mainMemory \in [Frame -> Value]
  /\ stored \in [Process -> Seq(Value)]

\* Before the first program is loaded the machine has no page table; nothing
\* reads machineTable then.
Init ==
  /\ currentThread = Main
  /\ space = [p \in Process |-> "none"]
  /\ gPhysPageBitMap = {}
  /\ pageTable = [p \in Process |-> <<>>]
  /\ machineTable = Main
  /\ mainMemory = [f \in Frame |-> Zero]
  /\ stored = [p \in Process |-> <<>>]

\* Mutant: the scan runs one bit too far.
ClearTooFar == (0..BitmapSize) \ gPhysPageBitMap

\* The bits Bitmap::FindAndSet and NumClear find clear.
Clear == Frame \ gPhysPageBitMap

Frames(table) == {table[i] : i \in 1..Len(table)}

\* n calls of Bitmap::FindAndSet: the n lowest clear bits, in ascending order.
FindAndSet(table, n) ==
  /\ \A i, j \in 1..n : i < j => table[i] < table[j]
  /\ \A f \in Clear \ {table[i] : i \in 1..n} : \A i \in 1..n : table[i] < f

\* Mutant: the frames are found but not marked.
LoadUnmarked(p, n) ==
  /\ currentThread = p
  /\ space[p] = "none"
  /\ n <= NumPhysPages
  /\ n <= Cardinality(Clear)
  /\ \E table \in [1..n -> Clear] :
       /\ FindAndSet(table, n)
       /\ pageTable' = [pageTable EXCEPT ![p] = table]
       /\ mainMemory' = [f \in Frame |-> IF f \in Frames(table) THEN Zero
                                         ELSE mainMemory[f]]
  /\ space' = [space EXCEPT ![p] = "loaded"]
  /\ stored' = [stored EXCEPT ![p] = [i \in 1..n |-> Zero]]
  /\ UNCHANGED <<currentThread, machineTable, gPhysPageBitMap>>

\* AddrSpace::Load with enough memory: allocate and clear the frames.  The
\* segments are then copied to the frames of this table and to no others.  The
\* frames from NumPhysPages on lie behind the array mainMemory.
Load(p, n) ==
  /\ currentThread = p
  /\ space[p] = "none"
  /\ n <= NumPhysPages
  /\ n <= Cardinality(Clear)
  /\ \E table \in [1..n -> Clear] :
       /\ FindAndSet(table, n)
       /\ pageTable' = [pageTable EXCEPT ![p] = table]
       /\ gPhysPageBitMap' = gPhysPageBitMap \cup Frames(table)
       /\ mainMemory' = [f \in Frame |-> IF f \in Frames(table) THEN Zero
                                         ELSE mainMemory[f]]
  /\ space' = [space EXCEPT ![p] = "loaded"]
  /\ stored' = [stored EXCEPT ![p] = [i \in 1..n |-> Zero]]
  /\ UNCHANGED <<currentThread, machineTable>>

\* AddrSpace::Load without enough memory returns FALSE and leaves everything as
\* it was; what the caller does then is in ProcTable.

\* AddrSpace::Execute: the thread owns the space and the machine its table.
Execute(p) ==
  /\ currentThread = p
  /\ space[p] = "loaded"
  /\ space' = [space EXCEPT ![p] = "active"]
  /\ machineTable' = p
  /\ UNCHANGED <<currentThread, gPhysPageBitMap, pageTable, mainMemory, stored>>

\* Machine::Translate and the store of Machine::WriteMem, by an instruction of
\* the running program.  A page beyond the table is an address error, a frame
\* beyond the memory a bus error: neither stores anything.
Translates(page) ==
  /\ page <= Len(pageTable[machineTable])
  /\ pageTable[machineTable][page] < NumPhysPages

Store(p, page, x) ==
  /\ currentThread = p
  /\ space[p] = "active"
  /\ Translates(page)
  /\ mainMemory' = [mainMemory EXCEPT ![pageTable[machineTable][page]] = x]
  /\ stored' = [stored EXCEPT ![p][page] = x]
  /\ UNCHANGED <<currentThread, space, gPhysPageBitMap, pageTable, machineTable>>

\* Mutant: Run does not call RestoreState.
SwitchKeepsTable(q) ==
  /\ currentThread # q
  /\ currentThread' = q
  /\ space' = [space EXCEPT ![currentThread] = IF @ = "freed" THEN "none" ELSE @]
  /\ UNCHANGED <<gPhysPageBitMap, pageTable, machineTable, mainMemory, stored>>

\* Scheduler::Run as far as address spaces are concerned: the incoming thread's
\* page table is installed if it has a space.  A thread that freed its space is
\* finishing: it never comes back, and its pid may be used again.
Switch(q) ==
  /\ currentThread # q
  /\ currentThread' = q
  /\ machineTable' = IF space[q] = "active" THEN q ELSE machineTable
  /\ space' = [space EXCEPT ![currentThread] = IF @ = "freed" THEN "none" ELSE @]
  /\ UNCHANGED <<gPhysPageBitMap, pageTable, mainMemory, stored>>

\* Mutant: ~AddrSpace stops one page early.
FreeSpaceKeepsLast(p) ==
  /\ currentThread = p
  /\ p # Main
  /\ space[p] = "active"
  /\ gPhysPageBitMap' = gPhysPageBitMap \
       {pageTable[p][i] : i \in 1..(Len(pageTable[p]) - 1)}
  /\ pageTable' = [pageTable EXCEPT ![p] = <<>>]
  /\ space' = [space EXCEPT ![p] = "freed"]
  /\ stored' = [stored EXCEPT ![p] = <<>>]
  /\ UNCHANGED <<currentThread, machineTable, mainMemory>>

\* Thread::FreeSpace on exit: AddrSpace::~AddrSpace.  machine->pageTable dangles
\* until the next Switch to a thread with a space.  When the main process exits
\* the machine halts.
FreeSpace(p) ==
  /\ currentThread = p
  /\ p # Main
  /\ space[p] = "active"
  /\ gPhysPageBitMap' = gPhysPageBitMap \ Frames(pageTable[p])
  /\ pageTable' = [pageTable EXCEPT ![p] = <<>>]
  /\ space' = [space EXCEPT ![p] = "freed"]
  /\ stored' = [stored EXCEPT ![p] = <<>>]
  /\ UNCHANGED <<currentThread, machineTable, mainMemory>>

Next ==
  \E p \in Process :
    \/ \E n \in 1..MaxPages : Load(p, n)
    \/ Execute(p)
    \/ \E page \in 1..MaxPages, x \in Value : Store(p, page, x)
    \/ Switch(p)
    \/ FreeSpace(p)

Spec == Init /\ [][Next]_vars

-----------------------------------------------------------------------------
(* Properties.                                                             *)

\* The frame bitmap and the page tables agree: a frame is marked if and only if
\* some page table maps it, and it is mapped once.  FindAndSet in Load and Clear
\* in ~AddrSpace keep this although no lock is taken on exit.
FramesOwned ==
  /\ gPhysPageBitMap = UNION {Frames(pageTable[p]) : p \in Process}
  /\ \A p, q \in Process :
       \A i \in 1..Len(pageTable[p]), j \in 1..Len(pageTable[q]) :
         pageTable[p][i] = pageTable[q][j] => p = q /\ i = j

\* A program runs on its own page table, after any sequence of switches through
\* threads with and without an address space (Scheduler::Run, RestoreState).
OwnTable == space[currentThread] = "active" => machineTable = currentThread

\* Memory isolation: what a process finds in its pages is what it stored there,
\* whatever the other processes store, load or free.
Isolation ==
  \A p \in Process :
    \A i \in 1..Len(pageTable[p]) : mainMemory[pageTable[p][i]] = stored[p][i]

\* "if the pageFrame is too big, there is something really wrong!  An invalid
\* translation was loaded into the page table or TLB" (machine/translate.cc):
\* no page table holds a frame the machine does not have.
FramesExist ==
  \A p \in Process : \A f \in Frames(pageTable[p]) : f < NumPhysPages
=============================================================================
