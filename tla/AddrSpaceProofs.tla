-------------------------- MODULE AddrSpaceProofs --------------------------
(***************************************************************************)
(* Proofs about address spaces, for any number of processes, frames and    *)
(* pages: frames are owned by one page of one process, and memory is       *)
(* isolated; and about the registers of module UserState, the other part   *)
(* of a program's state that others must not disturb; and about the        *)
(* console that all programs share (module Console).                       *)
(***************************************************************************)
EXTENDS AddrSpace, TLAPS

USE AddrSpaceAssumption

-----------------------------------------------------------------------------
(* The invariant.  Isolation rests on frames having one owner and on the   *)
(* machine using the running program's table; Shape ties the table to the  *)
(* state of the space and to the history variable.                         *)

Shape ==
  \A p \in Process :
    /\ Len(stored[p]) = Len(pageTable[p])
    /\ space[p] \in {"none", "freed"} => pageTable[p] = <<>>
    /\ space[p] = "freed" => p = currentThread

Owned ==
  /\ \A p \in Process : \A i \in 1..Len(pageTable[p]) :
       pageTable[p][i] \in gPhysPageBitMap
  /\ \A f \in gPhysPageBitMap : \E p \in Process :
       \E i \in 1..Len(pageTable[p]) : pageTable[p][i] = f
  /\ \A p, q \in Process :
       \A i \in 1..Len(pageTable[p]), j \in 1..Len(pageTable[q]) :
         pageTable[p][i] = pageTable[q][j] => p = q /\ i = j

IInv == TypeOK /\ Shape /\ Owned /\ OwnTable /\ Isolation

\* Owned says what FramesOwned says, frame by frame.
LEMMA OwnedFrames == Owned <=> FramesOwned
  BY DEF Owned, FramesOwned, Frames

\* Kernel::Initialize establishes the invariant.
LEMMA InitInv == Init => IInv
<1> SUFFICES ASSUME Init
             PROVE  IInv
  OBVIOUS
<1>1. TypeOK
  <2>1. <<>> \in Seq(Frame) /\ <<>> \in Seq(Value)
    OBVIOUS
  <2>2. /\ pageTable \in [Process -> Seq(Frame)]
        /\ stored \in [Process -> Seq(Value)]
    BY <2>1, Zenon DEF Init
  <2>3. space \in [Process -> SpaceState] /\ mainMemory \in [Frame -> Value]
    BY DEF Init, SpaceState
  <2> QED
    BY <2>2, <2>3 DEF Init, TypeOK
<1>2. Shape /\ Owned /\ OwnTable /\ Isolation
  BY DEF Init, Shape, Owned, OwnTable, Isolation
<1> QED
  BY <1>1, <1>2 DEF IInv

\* AddrSpace::Load preserves the invariant: the frames it takes are clear, so no
\* other page table has them.
LEMMA LoadInv ==
  ASSUME IInv, NEW p \in Process, NEW n \in 1..MaxPages, Load(p, n)
  PROVE  IInv'
<1> USE DEF IInv
<1>0. PICK table \in [1..n -> Clear] :
        /\ FindAndSet(table, n)
        /\ pageTable' = [pageTable EXCEPT ![p] = table]
        /\ gPhysPageBitMap' = gPhysPageBitMap \cup Frames(table)
        /\ mainMemory' = [f \in Frame |-> IF f \in Frames(table) THEN Zero
                                          ELSE mainMemory[f]]
  BY DEF Load
<1>1. /\ n \in Nat
      /\ table \in Seq(Frame) /\ Len(table) = n
      /\ [i \in 1..n |-> Zero] \in Seq(Value) /\ Len([i \in 1..n |-> Zero]) = n
      /\ \A i \in 1..n : table[i] \in Frame \ gPhysPageBitMap
      /\ \A i, j \in 1..n : table[i] = table[j] => i = j
  <2>1. n \in Nat /\ \A i \in 1..n : table[i] \in Frame \ gPhysPageBitMap
    BY DEF Clear
  <2>2. table \in [1..n -> Frame]
    BY <2>1
  <2>3. \A i, j \in 1..n : table[i] = table[j] => i = j
    <3>1. \A i, j \in 1..n : i < j => table[i] < table[j]
      BY <1>0 DEF FindAndSet
    <3>2. \A i \in 1..n : table[i] \in Int
      BY <2>1 DEF Frame
    <3> QED
      BY <2>1, <3>1, <3>2
  <2> QED
    BY <2>1, <2>2, <2>3
<1>2. /\ currentThread = p /\ space[p] = "none"
      /\ space' = [space EXCEPT ![p] = "loaded"]
      /\ stored' = [stored EXCEPT ![p] = [i \in 1..n |-> Zero]]
      /\ currentThread' = currentThread /\ machineTable' = machineTable
  BY DEF Load
<1>3. /\ pageTable[p] = <<>>
      /\ \A q \in Process : pageTable'[q] = IF q = p THEN table ELSE pageTable[q]
      /\ \A q \in Process : stored'[q] = IF q = p THEN [i \in 1..n |-> Zero]
                                          ELSE stored[q]
  BY <1>0, <1>2 DEF TypeOK, Shape
<1>4. TypeOK'
  <2>1. /\ pageTable' \in [Process -> Seq(Frame)]
        /\ stored' \in [Process -> Seq(Value)]
    BY <1>0, <1>1, <1>2 DEF TypeOK
  <2>2. gPhysPageBitMap' \in SUBSET Frame /\ mainMemory' \in [Frame -> Value]
    BY <1>0, <1>1 DEF TypeOK, Frames
  <2> QED
    BY <1>2, <2>1, <2>2 DEF TypeOK, SpaceState
<1>5. Shape'
  BY <1>1, <1>2, <1>3 DEF TypeOK, Shape
<1>6. Owned'
  <2>1. \A f : f \in gPhysPageBitMap' <=>
          f \in gPhysPageBitMap \/ \E i \in 1..n : table[i] = f
    BY <1>0, <1>1 DEF Frames
  <2>2. \A q \in Process : \A i \in 1..Len(pageTable'[q]) :
          pageTable'[q][i] \in gPhysPageBitMap'
    BY <1>1, <1>3, <2>1 DEF Owned
  <2>3. \A f \in gPhysPageBitMap' : \E q \in Process :
          \E i \in 1..Len(pageTable'[q]) : pageTable'[q][i] = f
    <3>1. ASSUME NEW f \in gPhysPageBitMap
          PROVE  \E q \in Process :
                   \E i \in 1..Len(pageTable'[q]) : pageTable'[q][i] = f
      <4>1. PICK q \in Process : \E i \in 1..Len(pageTable[q]) :
                                   pageTable[q][i] = f
        BY DEF Owned
      <4>2. q # p
        BY <1>3, <4>1
      <4> QED
        BY <1>3, <4>1, <4>2
    <3> QED
      BY <1>1, <1>3, <2>1, <3>1
  <2>4. ASSUME NEW q \in Process, NEW r \in Process,
               NEW i \in 1..Len(pageTable'[q]), NEW j \in 1..Len(pageTable'[r]),
               pageTable'[q][i] = pageTable'[r][j]
        PROVE  q = r /\ i = j
    BY <1>1, <1>3, <2>4 DEF Owned
  <2> QED
    BY <2>2, <2>3, <2>4 DEF Owned
<1>7. OwnTable'
  BY <1>2 DEF TypeOK, OwnTable
<1>8. Isolation'
  <2> SUFFICES ASSUME NEW q \in Process, NEW i \in 1..Len(pageTable'[q])
               PROVE  mainMemory'[pageTable'[q][i]] = stored'[q][i]
    BY DEF Isolation
  <2>1. CASE q = p
    BY <1>0, <1>1, <1>3, <2>1 DEF Frames
  <2>2. CASE q # p
    <3>1. pageTable[q][i] \in gPhysPageBitMap /\ pageTable[q][i] \in Frame
      BY <1>3, <2>2 DEF Owned, TypeOK
    <3>2. pageTable[q][i] \notin Frames(table)
      BY <1>1, <3>1 DEF Frames
    <3> QED
      BY <1>0, <1>3, <2>2, <3>1, <3>2 DEF Isolation
  <2> QED
    BY <2>1, <2>2
<1> QED
  BY <1>4, <1>5, <1>6, <1>7, <1>8

\* AddrSpace::Execute preserves it.
LEMMA ExecuteInv ==
  ASSUME IInv, NEW p \in Process, Execute(p)
  PROVE  IInv'
<1> USE DEF IInv, Execute
<1>1. TypeOK' /\ Shape'
  BY DEF TypeOK, Shape, SpaceState
<1>2. Owned' /\ Isolation'
  BY DEF Owned, Isolation
<1>3. OwnTable'
  BY DEF OwnTable
<1> QED
  BY <1>1, <1>2, <1>3

\* A user store preserves it: the machine uses the program's own table, and the
\* frame stored to belongs to no other page.
LEMMA StoreInv ==
  ASSUME IInv, NEW p \in Process, NEW page \in 1..MaxPages, NEW x \in Value,
         Store(p, page, x)
  PROVE  IInv'
<1> USE DEF IInv
<1> DEFINE f == pageTable[p][page]
<1>1. /\ machineTable = p
      /\ page \in 1..Len(pageTable[p])
      /\ Len(stored[p]) = Len(pageTable[p])
      /\ f \in Frame
  BY DEF Store, Translates, OwnTable, Shape, TypeOK
<1>2. /\ mainMemory' = [mainMemory EXCEPT ![f] = x]
      /\ stored' = [stored EXCEPT ![p][page] = x]
      /\ UNCHANGED <<currentThread, space, gPhysPageBitMap, pageTable,
                     machineTable>>
  BY <1>1 DEF Store
<1>3. /\ stored' \in [Process -> Seq(Value)]
      /\ \A q \in Process : Len(stored'[q]) = Len(stored[q])
      /\ \A q \in Process : \A i \in 1..Len(stored[q]) :
           stored'[q][i] = IF q = p /\ i = page THEN x ELSE stored[q][i]
  <2>1. stored[p] \in Seq(Value) /\ page \in 1..Len(stored[p])
    BY <1>1 DEF TypeOK
  <2>2. /\ [stored[p] EXCEPT ![page] = x] \in Seq(Value)
        /\ Len([stored[p] EXCEPT ![page] = x]) = Len(stored[p])
        /\ \A i \in 1..Len(stored[p]) : [stored[p] EXCEPT ![page] = x][i]
             = IF i = page THEN x ELSE stored[p][i]
    BY <2>1
  <2>3. stored' = [stored EXCEPT ![p] = [stored[p] EXCEPT ![page] = x]]
    BY <1>2
  <2> QED
    BY <2>2, <2>3 DEF TypeOK
<1> HIDE DEF f
<1>4. TypeOK'
  BY <1>1, <1>2, <1>3 DEF TypeOK
<1>5. Shape'
  BY <1>2, <1>3 DEF Shape
<1>6. Owned' /\ OwnTable'
  BY <1>2 DEF Owned, OwnTable
<1>7. Isolation'
  <2> SUFFICES ASSUME NEW q \in Process, NEW i \in 1..Len(pageTable'[q])
               PROVE  mainMemory'[pageTable'[q][i]] = stored'[q][i]
    BY DEF Isolation
  <2>1. /\ i \in 1..Len(stored[q])
        /\ pageTable[q][i] \in Frame
        /\ mainMemory[pageTable[q][i]] = stored[q][i]
    BY <1>2 DEF Shape, TypeOK, Isolation
  <2>2. pageTable[q][i] = f <=> q = p /\ i = page
    BY <1>1, <1>2 DEF Owned, f
  <2>3. mainMemory'[pageTable[q][i]] = IF pageTable[q][i] = f THEN x
                                       ELSE mainMemory[pageTable[q][i]]
    BY <1>2, <2>1 DEF TypeOK
  <2> QED
    BY <1>2, <1>3, <2>1, <2>2, <2>3
<1> QED
  BY <1>4, <1>5, <1>6, <1>7

\* A context switch preserves it.
LEMMA SwitchInv ==
  ASSUME IInv, NEW q \in Process, Switch(q)
  PROVE  IInv'
<1> USE DEF IInv, Switch
<1>1. TypeOK'
  BY DEF TypeOK, SpaceState
<1>2. Shape'
  BY DEF TypeOK, Shape
<1>3. Owned' /\ Isolation'
  BY DEF Owned, Isolation
<1>4. OwnTable'
  BY DEF TypeOK, OwnTable
<1> QED
  BY <1>1, <1>2, <1>3, <1>4

\* ~AddrSpace preserves it: the frames it clears have no other owner.
LEMMA FreeSpaceInv ==
  ASSUME IInv, NEW p \in Process, FreeSpace(p)
  PROVE  IInv'
<1> USE DEF IInv
<1>1. /\ currentThread = p /\ space[p] = "active"
      /\ gPhysPageBitMap' = gPhysPageBitMap \ Frames(pageTable[p])
      /\ pageTable' = [pageTable EXCEPT ![p] = <<>>]
      /\ space' = [space EXCEPT ![p] = "freed"]
      /\ stored' = [stored EXCEPT ![p] = <<>>]
      /\ UNCHANGED <<currentThread, machineTable, mainMemory>>
  BY DEF FreeSpace
<1>2. /\ \A q \in Process : pageTable'[q] = IF q = p THEN <<>> ELSE pageTable[q]
      /\ \A q \in Process : stored'[q] = IF q = p THEN <<>> ELSE stored[q]
  BY <1>1 DEF TypeOK
<1>3. TypeOK'
  <2>1. <<>> \in Seq(Frame) /\ <<>> \in Seq(Value)
    OBVIOUS
  <2>2. /\ pageTable' \in [Process -> Seq(Frame)]
        /\ stored' \in [Process -> Seq(Value)]
    BY <1>1, <2>1 DEF TypeOK
  <2> QED
    BY <1>1, <2>2 DEF TypeOK, SpaceState
<1>4. Shape'
  BY <1>1, <1>2 DEF TypeOK, Shape
<1>5. Owned'
  <2>1. \A f : f \in gPhysPageBitMap' <=> f \in gPhysPageBitMap
          /\ ~\E i \in 1..Len(pageTable[p]) : pageTable[p][i] = f
    BY <1>1 DEF Frames
  <2>2. ASSUME NEW q \in Process, NEW i \in 1..Len(pageTable'[q])
        PROVE  pageTable'[q][i] \in gPhysPageBitMap'
    BY <1>2, <2>1 DEF Owned
  <2>3. ASSUME NEW f \in gPhysPageBitMap'
        PROVE  \E q \in Process :
                 \E i \in 1..Len(pageTable'[q]) : pageTable'[q][i] = f
    <3>1. PICK q \in Process : \E i \in 1..Len(pageTable[q]) :
                                 pageTable[q][i] = f
      BY <2>1 DEF Owned
    <3> QED
      BY <1>2, <2>1, <3>1
  <2>4. ASSUME NEW q \in Process, NEW r \in Process,
               NEW i \in 1..Len(pageTable'[q]), NEW j \in 1..Len(pageTable'[r]),
               pageTable'[q][i] = pageTable'[r][j]
        PROVE  q = r /\ i = j
    BY <1>2, <2>4 DEF Owned
  <2> QED
    BY <2>2, <2>3, <2>4 DEF Owned
<1>6. OwnTable'
  BY <1>1 DEF TypeOK, OwnTable
<1>7. Isolation'
  BY <1>1, <1>2 DEF Isolation
<1> QED
  BY <1>3, <1>4, <1>5, <1>6, <1>7

-----------------------------------------------------------------------------
(* The theorems.                                                           *)

\* The invariant holds in every reachable state.
THEOREM Invariance == Spec => []IInv
<1>1. IInv /\ [Next]_vars => IInv'
  <2> SUFFICES ASSUME IInv, [Next]_vars
               PROVE  IInv'
    OBVIOUS
  <2>1. CASE UNCHANGED vars
    <3>1. TypeOK' /\ Shape'
      BY <2>1 DEF vars, IInv, TypeOK, Shape
    <3>2. Owned' /\ OwnTable' /\ Isolation'
      BY <2>1 DEF vars, IInv, Owned, OwnTable, Isolation
    <3> QED
      BY <3>1, <3>2 DEF IInv
  <2> QED
    BY <2>1, LoadInv, ExecuteInv, StoreInv, SwitchInv, FreeSpaceInv DEF Next
<1> QED
  BY <1>1, InitInv, PTL DEF Spec

\* Every variable of the address spaces keeps its type.
THEOREM TypeCorrect == Spec => []TypeOK
<1>1. IInv => TypeOK
  BY DEF IInv
<1> QED
  BY <1>1, Invariance, PTL

\* The bitmap marks exactly the frames that are mapped, and each is mapped once.
THEOREM FramesOwnedCorrect == Spec => []FramesOwned
<1>1. IInv => FramesOwned
  BY OwnedFrames DEF IInv
<1> QED
  BY <1>1, Invariance, PTL

\* User code runs on its own page table.
THEOREM OwnTableCorrect == Spec => []OwnTable
<1>1. IInv => OwnTable
  BY DEF IInv
<1> QED
  BY <1>1, Invariance, PTL

\* A process finds in memory what it stored, whatever the others do.
THEOREM IsolationCorrect == Spec => []Isolation
<1>1. IInv => Isolation
  BY DEF IInv
<1> QED
  BY <1>1, Invariance, PTL

HIDE AddrSpaceAssumption

-----------------------------------------------------------------------------
(* The registers.  Every program finds its registers as it left them:      *)
(* module UserState keeps RegistersKept for any number of processes and    *)
(* kernel threads.                                                         *)

CONSTANTS KernelThread, Pid, Calls, WordSize, Code, StackTop, MaxSteps
VARIABLES reg, saved, current, withSpace, doing, asleep, machine, steps, view

Usr == INSTANCE UserState WITH space <- withSpace

\* What the code gives: processes are not kernel threads, addresses and pids are
\* numbers, a register has at least one value.
Setting ==
  /\ Main \in Process
  /\ Process \cap KernelThread = {}
  /\ Pid \in [Process -> Int]
  /\ Code \subseteq Int
  /\ StackTop \in Int
  /\ WordSize \in Nat \ {0}

Registers ==
  [r2 : Int, r4 : Int, r5 : Int, sp : Int, prevPC : Int, pc : Int, nextPC : Int]

Doing == {"new", "user", "kernel", "finished", "Exit"} \cup Usr!Results \cup Usr!NoResults

RegTypes ==
  /\ reg \in Registers
  /\ saved \in [Usr!Thread -> Registers]
  /\ view \in [Usr!Thread -> Registers]
  /\ current \in Usr!Thread
  /\ withSpace \subseteq Process
  /\ doing \in [Usr!Thread -> Doing]

\* A process has a space from Execute on, and a call was not made in a delay
\* slot: its return may take pc + 4 for the next instruction.
Started == \A t \in Process : doing[t] # "new" => t \in withSpace
InCall ==
  \A t \in Process :
    doing[t] \in Usr!Results \cup Usr!NoResults => view[t].nextPC = view[t].pc + 4

RegInv == RegTypes /\ Started /\ InCall /\ Usr!RegistersKept

USE DEF Usr!Thread

\* The registers are numbers,
LEMMA LoadRegister ==
  ASSUME NEW r \in Registers
  PROVE  r.r4 \in Int /\ r.r5 \in Int /\ r.pc \in Int /\ r.nextPC \in Int
BY DEF Registers

\* and storing a number in one leaves registers.
LEMMA StoreRegister ==
  ASSUME NEW r \in Registers, NEW v \in Int
  PROVE  /\ [r EXCEPT !.r2 = v] \in Registers /\ [r EXCEPT !.r4 = v] \in Registers
         /\ [r EXCEPT !.r5 = v] \in Registers /\ [r EXCEPT !.sp = v] \in Registers
         /\ [r EXCEPT !.prevPC = v] \in Registers
         /\ [r EXCEPT !.pc = v] \in Registers /\ [r EXCEPT !.nextPC = v] \in Registers
BY DEF Registers

\* Registers that agree one by one are equal.
LEMMA SameRegisters ==
  ASSUME NEW r \in Registers, NEW s \in Registers, r.r2 = s.r2, r.r4 = s.r4, r.r5 = s.r5,
         r.sp = s.sp, r.prevPC = s.prevPC, r.pc = s.pc, r.nextPC = s.nextPC
  PROVE  r = s
BY DEF Registers

\* The types of what IncreasePC, Behind and Step build.
LEMMA BuildRegisters ==
  ASSUME NEW r \in Registers, NEW v \in Int, NEW n \in Int
  PROVE  /\ Usr!IncreasePC(r) \in Registers
         /\ Usr!Behind(r, v) \in Registers
         /\ Usr!Step(r, v, n) \in Registers
<1>0. r.pc \in Int /\ r.nextPC \in Int /\ r.pc + 4 \in Int /\ r.pc + 8 \in Int
      /\ r.nextPC + 4 \in Int
  BY LoadRegister
<1>1. [r EXCEPT !.prevPC = r.pc, !.pc = r.pc + 4] \in Registers
  BY <1>0, StoreRegister
<1>2. Usr!IncreasePC(r) \in Registers
  BY <1>0, <1>1, StoreRegister DEF Usr!IncreasePC
<1>3. [r EXCEPT !.r2 = v, !.prevPC = r.pc] \in Registers
  BY <1>0, StoreRegister
<1>4. [r EXCEPT !.r2 = v, !.prevPC = r.pc, !.pc = r.nextPC] \in Registers
  BY <1>0, <1>3, StoreRegister
<1>5. Usr!Behind(r, v) \in Registers
  BY <1>0, <1>4, StoreRegister DEF Usr!Behind
<1>6. [r EXCEPT !.r2 = v, !.r4 = v] \in Registers
  BY StoreRegister
<1>7. [r EXCEPT !.r2 = v, !.r4 = v, !.r5 = v] \in Registers
  BY <1>6, StoreRegister
<1>8. [r EXCEPT !.r2 = v, !.r4 = v, !.r5 = v, !.prevPC = r.pc] \in Registers
  BY <1>0, <1>7, StoreRegister
<1>9. [r EXCEPT !.r2 = v, !.r4 = v, !.r5 = v, !.prevPC = r.pc, !.pc = r.nextPC] \in Registers
  BY <1>0, <1>8, StoreRegister
<1>10. Usr!Step(r, v, n) \in Registers
  BY <1>9, StoreRegister DEF Usr!Step
<1>. QED BY <1>2, <1>5, <1>10

\* What a return stores is what the program expects behind the call.
LEMMA ReturnBehind ==
  ASSUME NEW r \in Registers, r.nextPC = r.pc + 4, NEW v \in Int
  PROVE  /\ Usr!IncreasePC([r EXCEPT !.r2 = v]) = Usr!Behind(r, v)
         /\ v = r.r2 => Usr!IncreasePC(r) = Usr!Behind(r, v)
<1>a. r.pc \in Int /\ r.nextPC + 4 = r.pc + 8
  BY LoadRegister
<1>0. r.pc \in Int /\ r.nextPC + 4 = r.pc + 8 /\ [r EXCEPT !.r2 = v] \in Registers
  BY <1>a, StoreRegister
<1>1. /\ Usr!Behind(r, v).r2 = v /\ Usr!Behind(r, v).r4 = r.r4 /\ Usr!Behind(r, v).r5 = r.r5
      /\ Usr!Behind(r, v).sp = r.sp /\ Usr!Behind(r, v).prevPC = r.pc
      /\ Usr!Behind(r, v).pc = r.pc + 4
      /\ Usr!Behind(r, v).nextPC = r.pc + 8
  BY <1>0 DEF Usr!Behind, Registers
<1>2. ASSUME NEW s \in Registers, s.r2 = v, s.r4 = r.r4, s.r5 = r.r5, s.sp = r.sp, s.pc = r.pc
      PROVE  Usr!IncreasePC(s) = Usr!Behind(r, v)
  <2>1. /\ Usr!IncreasePC(s).r2 = v /\ Usr!IncreasePC(s).r4 = r.r4 /\ Usr!IncreasePC(s).r5 = r.r5
        /\ Usr!IncreasePC(s).sp = r.sp /\ Usr!IncreasePC(s).prevPC = r.pc
        /\ Usr!IncreasePC(s).pc = r.pc + 4 /\ Usr!IncreasePC(s).nextPC = r.pc + 8
    BY <1>2 DEF Usr!IncreasePC, Registers
  <2>2. Usr!IncreasePC(s) \in Registers /\ Usr!Behind(r, v) \in Registers
    BY BuildRegisters
  <2>. QED BY <1>1, <2>1, <2>2, SameRegisters
<1>3. Usr!IncreasePC([r EXCEPT !.r2 = v]) = Usr!Behind(r, v)
  <2>. DEFINE s == [r EXCEPT !.r2 = v]
  <2>1. s.r2 = v /\ s.r4 = r.r4 /\ s.r5 = r.r5 /\ s.sp = r.sp /\ s.pc = r.pc
    BY DEF Registers
  <2>2. s \in Registers
    BY <1>0
  <2>. HIDE DEF s
  <2>3. Usr!IncreasePC(s) = Usr!Behind(r, v)
    BY <1>2, <2>1, <2>2
  <2>. QED BY <2>3 DEF s
<1>. QED BY <1>2, <1>3

\* The constants the registers are built from.
LEMMA RegisterTypes ==
  ASSUME Setting
  PROVE  /\ Usr!ZeroRegisters \in Registers /\ Usr!InitRegisters \in Registers
         /\ \A a, b \in Int : Usr!SysAdd(a, b) \in Int
         /\ Usr!Word \subseteq Int
<1>1. Usr!ZeroRegisters \in Registers
  BY DEF Usr!ZeroRegisters, Registers
<1>2. ASSUME NEW n \in Int, NEW k \in Int
      PROVE  [Usr!ZeroRegisters EXCEPT !.nextPC = n, !.sp = k] \in Registers
  BY <1>1, StoreRegister
<1>a. 4 \in Int /\ StackTop \in Int
  BY DEF Setting
<1>3. Usr!InitRegisters \in Registers
  BY <1>2, <1>a, Zenon DEF Usr!InitRegisters
<1>4. \A a, b \in Int : Usr!SysAdd(a, b) \in Int
  BY DEF Usr!SysAdd, Setting
<1>5. Usr!Word \subseteq Int
  BY DEF Usr!Word, Setting
<1>. QED BY <1>1, <1>3, <1>4, <1>5

\* The invariant holds of the first process, before any instruction.
LEMMA RegInit ==
  ASSUME Setting, Usr!Init
  PROVE  RegInv
<1>1. doing = [t \in Usr!Thread |-> IF t \in Process THEN "new" ELSE "kernel"]
  BY DEF Usr!Init
<1>2. doing \in [Usr!Thread -> Doing]
  BY <1>1 DEF Doing
<1>3. \A t \in Process : doing[t] = "new"
  BY <1>1
<1>4. RegTypes
  BY <1>2, RegisterTypes DEF Setting, Usr!Init, RegTypes
<1>5. Started /\ InCall /\ Usr!RegistersKept
  BY <1>3 DEF Usr!Init, Started, InCall, Usr!RegistersKept, Usr!Results, Usr!NoResults
<1>. QED BY <1>4, <1>5 DEF RegInv

\* A step that writes the machine's registers of the running process t, as t
\* expects it to, keeps them in agreement.
LEMMA OwnWrite ==
  ASSUME RegInv, NEW t \in withSpace, t = current, NEW r \in Registers,
         reg' = r, Usr!Sees(t, r), UNCHANGED <<saved, current, withSpace>>
  PROVE  /\ Usr!RegistersKept'
         /\ reg' \in Registers /\ saved' \in [Usr!Thread -> Registers]
         /\ view' \in [Usr!Thread -> Registers]
         /\ current' \in Usr!Thread /\ withSpace' \subseteq Process
         /\ view'[t] = r
         /\ \A u \in Process \ {t} : view'[u] = view[u]
<1>1. view' = [view EXCEPT ![t] = r] /\ view \in [Usr!Thread -> Registers] /\ t \in Usr!Thread
  BY DEF Usr!Sees, RegInv, RegTypes
<1>2. view' \in [Usr!Thread -> Registers] /\ view'[t] = r
      /\ \A u \in Usr!Thread \ {t} : view'[u] = view[u]
  BY <1>1
<1>3. Usr!RegistersKept'
  BY <1>2 DEF Usr!RegistersKept, RegInv, RegTypes
<1>. QED BY <1>2, <1>3 DEF RegInv, RegTypes

\* Every step keeps it: an instruction, a call that returns or sleeps, a switch.
LEMMA RegNext ==
  ASSUME Setting, RegInv, [Usr!Next]_(Usr!vars)
  PROVE  RegInv'
<1>. USE DEF Setting
<1>t. RegTypes /\ Started /\ InCall /\ Usr!RegistersKept
  BY DEF RegInv
<1>1. ASSUME NEW t \in Process, Usr!Execute(t) PROVE RegInv'
  <2>1. /\ current = t /\ reg' = Usr!InitRegisters /\ withSpace' = withSpace \cup {t}
        /\ view' = [view EXCEPT ![t] = Usr!InitRegisters] /\ doing' = [doing EXCEPT ![t] = "user"]
        /\ UNCHANGED <<saved, current>>
    BY <1>1 DEF Usr!Execute, Usr!Runs, Usr!Sees, Usr!Does
  <2>2. view' \in [Usr!Thread -> Registers] /\ view'[t] = Usr!InitRegisters
        /\ \A u \in Usr!Thread \ {t} : view'[u] = view[u]
    BY <1>t, <2>1, RegisterTypes DEF RegTypes
  <2>3. doing' \in [Usr!Thread -> Doing] /\ doing'[t] = "user"
        /\ \A u \in Usr!Thread \ {t} : doing'[u] = doing[u]
    BY <1>t, <2>1 DEF RegTypes, Doing
  <2>4. RegTypes'
    BY <1>t, <2>1, <2>2, <2>3, RegisterTypes DEF RegTypes
  <2>5. Started'
    BY <1>t, <2>1, <2>3 DEF Started
  <2>6. InCall'
    BY <1>t, <2>2, <2>3 DEF InCall, Usr!Results, Usr!NoResults
  <2>7. Usr!RegistersKept'
    BY <1>t, <2>1, <2>2 DEF Usr!RegistersKept, RegTypes
  <2>. QED BY <2>4, <2>5, <2>6, <2>7 DEF RegInv
<1>2. ASSUME NEW t \in Process, NEW x \in Usr!Word, NEW target \in Code \cup {reg.nextPC + 4},
             Usr!Instruction(t, x, target)
      PROVE  RegInv'
  <2>1. /\ t = current /\ doing[t] = "user" /\ reg' = Usr!Step(reg, x, target)
        /\ Usr!Sees(t, Usr!Step(view[t], x, target))
        /\ UNCHANGED <<saved, current, withSpace, doing>>
    BY <1>2 DEF Usr!Instruction, Usr!Runs
  <2>2. t \in withSpace /\ view[t] = reg
    BY <1>t, <2>1 DEF Started, Usr!RegistersKept
  <2>a. target \in Int /\ x \in Int /\ reg \in Registers
    BY <1>t, RegisterTypes, LoadRegister DEF RegTypes, Setting
  <2>3. Usr!Step(reg, x, target) \in Registers
    BY <2>a, BuildRegisters
  <2>4. /\ Usr!RegistersKept' /\ reg' \in Registers /\ saved' \in [Usr!Thread -> Registers]
        /\ view' \in [Usr!Thread -> Registers] /\ current' \in Usr!Thread
        /\ withSpace' \subseteq Process
        /\ \A u \in Process \ {t} : view'[u] = view[u]
    BY <2>1, <2>2, <2>3, OwnWrite
  <2>5. RegTypes' /\ Started'
    BY <1>t, <2>1, <2>4 DEF RegTypes, Started
  <2>6. InCall'
    BY <1>t, <2>1, <2>4 DEF InCall, Usr!Results, Usr!NoResults
  <2>. QED BY <2>4, <2>5, <2>6 DEF RegInv
<1>3. ASSUME NEW t \in Process, Usr!Add(t) \/ Usr!GetPID(t) PROVE RegInv'
  <2>1. PICK v \in Int :
          /\ t = current /\ doing[t] = "user" /\ reg.nextPC = reg.pc + 4
          /\ reg' = Usr!IncreasePC([reg EXCEPT !.r2 = v])
          /\ view[t] = reg => Usr!Sees(t, Usr!Behind(reg, v))
          /\ UNCHANGED <<saved, current, withSpace, doing>>
    <3>1. CASE Usr!Add(t)
      <4>. DEFINE w == Usr!SysAdd(reg.r4, reg.r5)
      <4>1. w \in Int
        BY <1>t, RegisterTypes DEF RegTypes, Registers
      <4>. QED BY <3>1, <4>1 DEF Usr!Add, Usr!Raises, Usr!Runs, Usr!SysAdd
    <3>2. CASE Usr!GetPID(t)
      <4>1. Pid[t] \in Int
        OBVIOUS
      <4>. QED BY <3>2, <4>1 DEF Usr!GetPID, Usr!Raises, Usr!Runs
    <3>. QED BY <1>3, <3>1, <3>2
  <2>2. t \in withSpace /\ view[t] = reg /\ reg \in Registers
    BY <1>t, <2>1 DEF Started, Usr!RegistersKept, RegTypes
  <2>3. reg' = Usr!Behind(reg, v) /\ Usr!Behind(reg, v) \in Registers
    BY <2>1, <2>2, ReturnBehind, BuildRegisters
  <2>4. /\ Usr!RegistersKept' /\ reg' \in Registers /\ saved' \in [Usr!Thread -> Registers]
        /\ view' \in [Usr!Thread -> Registers] /\ current' \in Usr!Thread
        /\ withSpace' \subseteq Process
        /\ \A u \in Process \ {t} : view'[u] = view[u]
    BY <2>1, <2>2, <2>3, OwnWrite
  <2>5. RegTypes' /\ Started'
    BY <1>t, <2>1, <2>4 DEF RegTypes, Started
  <2>6. InCall'
    BY <1>t, <2>1, <2>4 DEF InCall, Usr!Results, Usr!NoResults
  <2>. QED BY <2>4, <2>5, <2>6 DEF RegInv
<1>4. ASSUME NEW t \in Process, NEW v \in Usr!Word, Usr!Return(t, v) PROVE RegInv'
  <2>1. /\ t = current /\ doing[t] \in Usr!Results \cup Usr!NoResults
        /\ doing[t] \in Usr!NoResults => v = view[t].r2
        /\ reg' = Usr!IncreasePC(IF doing[t] \in Usr!Results THEN [reg EXCEPT !.r2 = v] ELSE reg)
        /\ Usr!Sees(t, Usr!Behind(view[t], v))
        /\ doing' = [doing EXCEPT ![t] = "user"]
        /\ UNCHANGED <<saved, current, withSpace>>
    BY <1>4 DEF Usr!Return, Usr!Runs, Usr!Does
  <2>2. t \in withSpace /\ view[t] = reg /\ reg \in Registers /\ v \in Int
        /\ reg.nextPC = reg.pc + 4
    BY <1>t, <2>1, RegisterTypes DEF Started, Usr!RegistersKept, RegTypes, InCall,
       Usr!Results, Usr!NoResults
  <2>3. reg' = Usr!Behind(reg, v) /\ Usr!Behind(reg, v) \in Registers
    BY <2>1, <2>2, ReturnBehind, BuildRegisters
  <2>4. /\ Usr!RegistersKept' /\ reg' \in Registers /\ saved' \in [Usr!Thread -> Registers]
        /\ view' \in [Usr!Thread -> Registers] /\ current' \in Usr!Thread
        /\ withSpace' \subseteq Process
        /\ \A u \in Process \ {t} : view'[u] = view[u]
    BY <2>1, <2>2, <2>3, OwnWrite
  <2>5. doing' \in [Usr!Thread -> Doing] /\ doing'[t] = "user"
        /\ \A u \in Usr!Thread \ {t} : doing'[u] = doing[u]
    BY <1>t, <2>1 DEF RegTypes, Doing
  <2>6. RegTypes' /\ Started'
    BY <1>t, <2>1, <2>2, <2>4, <2>5 DEF RegTypes, Started
  <2>7. InCall'
    BY <1>t, <2>4, <2>5 DEF InCall, Usr!Results, Usr!NoResults
  <2>. QED BY <2>4, <2>6, <2>7 DEF RegInv
<1>5. ASSUME NEW t \in Process, NEW c \in Calls, Usr!ExceptionHandler(t, c) PROVE RegInv'
  <2>1. /\ t = current /\ doing[t] = "user" /\ reg.nextPC = reg.pc + 4
        /\ c \in Usr!Results \cup Usr!NoResults \cup {"Exit"}
        /\ doing' = [doing EXCEPT ![t] = c]
        /\ UNCHANGED <<reg, saved, current, withSpace, view>>
    BY <1>5 DEF Usr!ExceptionHandler, Usr!Raises, Usr!Runs, Usr!Does
  <2>2. t \in withSpace /\ view[t] = reg
    BY <1>t, <2>1 DEF Started, Usr!RegistersKept
  <2>3. c \in Doing
    BY <2>1 DEF Doing
  <2>4. doing' \in [Usr!Thread -> Doing] /\ \A u \in Usr!Thread \ {t} : doing'[u] = doing[u]
    BY <1>t, <2>1, <2>3 DEF RegTypes
  <2>5. RegTypes' /\ Started' /\ Usr!RegistersKept'
    BY <1>t, <2>1, <2>2, <2>4 DEF RegTypes, Started, Usr!RegistersKept
  <2>6. InCall'
    BY <1>t, <2>1, <2>2, <2>4 DEF InCall
  <2>. QED BY <2>5, <2>6 DEF RegInv
<1>6. ASSUME NEW t \in Process, Usr!SysExit(t) PROVE RegInv'
  <2>1. /\ doing' = [doing EXCEPT ![t] = "finished"] /\ doing[t] = "Exit"
        /\ UNCHANGED <<reg, saved, current, withSpace, view>>
    BY <1>6 DEF Usr!SysExit, Usr!Does
  <2>2. doing' \in [Usr!Thread -> Doing] /\ doing'[t] = "finished"
        /\ \A u \in Usr!Thread \ {t} : doing'[u] = doing[u]
    BY <1>t, <2>1 DEF RegTypes, Doing
  <2>3. RegTypes' /\ Started' /\ Usr!RegistersKept'
    BY <1>t, <2>1, <2>2 DEF RegTypes, Started, Usr!RegistersKept
  <2>4. InCall'
    BY <1>t, <2>1, <2>2 DEF InCall, Usr!Results, Usr!NoResults
  <2>. QED BY <2>3, <2>4 DEF RegInv
<1>7. ASSUME NEW u \in Usr!Thread, Usr!Run(u) PROVE RegInv'
  <2>1. /\ u # current /\ current' = u
        /\ IF current \in withSpace THEN saved' = [saved EXCEPT ![current] = reg]
           ELSE saved' = saved
        /\ IF u \in withSpace THEN reg' = saved[u] ELSE reg' = reg
        /\ UNCHANGED <<withSpace, doing, view>>
    BY <1>7 DEF Usr!Run, Usr!SaveUserState, Usr!RestoreUserState
  <2>2. /\ saved' \in [Usr!Thread -> Registers]
        /\ \A t \in Usr!Thread \ {current} : saved'[t] = saved[t]
        /\ current \in withSpace => saved'[current] = reg
    BY <1>t, <2>1 DEF RegTypes, Doing
  <2>3. RegTypes' /\ Started' /\ InCall'
    BY <1>t, <2>1, <2>2 DEF RegTypes, Started, InCall
  <2>4. Usr!RegistersKept'
    BY <1>t, <2>1, <2>2 DEF RegTypes, Usr!RegistersKept
  <2>. QED BY <2>3, <2>4 DEF RegInv
<1>8. ASSUME UNCHANGED <<reg, saved, current, withSpace, doing, view>> PROVE RegInv'
  BY <1>t, <1>8 DEF RegInv, RegTypes, Started, InCall, Usr!RegistersKept
<1>9. ASSUME NEW t \in Process, NEW c \in Calls, Usr!SysHalt(t, c) \/ Usr!Unexpected(t)
      PROVE  RegInv'
  BY <1>8, <1>9 DEF Usr!SysHalt, Usr!Unexpected
<1>10. ASSUME NEW t \in Usr!Thread, Usr!Sleep(t) \/ Usr!Wake(t) PROVE RegInv'
  BY <1>8, <1>10 DEF Usr!Sleep, Usr!Wake
<1>11. CASE UNCHANGED Usr!vars
  BY <1>8, <1>11 DEF Usr!vars
<1>12. ASSUME NEW t \in Process, Usr!Unexpected(t) PROVE RegInv'
  BY <1>8, <1>12 DEF Usr!Unexpected
<1>. QED
  BY <1>1, <1>2, <1>3, <1>4, <1>5, <1>6, <1>7, <1>9, <1>10, <1>11, <1>12 DEF Usr!Next

\* A program finds its registers as it left them, and behind a system call the
\* result of its own call and the next instruction (Scheduler::Run,
\* SaveUserState, RestoreUserState, ExceptionHandler), for any number of
\* processes, kernel threads, instructions and values.
THEOREM KeepsRegisters ==
  ASSUME Setting
  PROVE  Usr!Spec => []Usr!RegistersKept
<1>1. Usr!Init => RegInv
  BY RegInit
<1>2. RegInv /\ [Usr!Next]_(Usr!vars) => RegInv'
  BY RegNext
<1>3. RegInv => Usr!RegistersKept
  BY DEF RegInv
<1>. QED BY <1>1, <1>2, <1>3, PTL DEF Usr!Spec

-----------------------------------------------------------------------------
(* The console.  Its devices are never asked for a second operation while  *)
(* one is under way, and the readers together see the input in order, for  *)
(* any number of threads, any input and any calls.                         *)

CONSTANTS Thread, Inputs, Call, Base, IntBits, MaxCalls
VARIABLES rest, incoming, inInt, putBusy, avail, waiting, pc, call, loc, calls, input,
          delivered

Con == INSTANCE Console

\* A character is a number.
Typed == Inputs \subseteq Seq(Int)

Where == {"user", "get", "locked", "char", "put", "printing", "printed", "done"}

ConTypes ==
  /\ avail \in [Con!KSem -> {0, 1}]
  /\ waiting \in [Con!KSem -> SUBSET Thread]
  /\ pc \in [Thread -> Where]
  /\ inInt \in BOOLEAN /\ putBusy \in BOOLEAN
  /\ incoming \in Int
  /\ input \in Seq(Int) /\ rest \in Seq(Int) /\ delivered \in Seq(Int)

\* Between lock->Acquire and lock->Release of GetChar, and of PutChar.
Reading(t) == pc[t] \in {"locked", "char"} /\ t \notin waiting["inLock"]
Writing(t) == pc[t] \in {"printing", "printed"} /\ t \notin waiting["outLock"]

\* The reader has used up the signal of the device and not yet taken the character.
Serving(t) == pc[t] = "char" /\ t \notin waiting["inWait"]

\* One reader at a time; a poll is pending, or a signal is there, or a reader has
\* it, never two of these.
InputSide ==
  /\ \A t \in waiting["inLock"] : pc[t] = "locked"
  /\ \A t \in waiting["inWait"] : pc[t] = "char"
  /\ \A t \in Thread : Reading(t) => avail["inLock"] = 0
  /\ \A t, u \in Thread : Reading(t) /\ Reading(u) => t = u
  /\ inInt => avail["inWait"] = 0
  /\ \A t \in Thread : Serving(t) => avail["inWait"] = 0 /\ ~inInt

\* One writer at a time; a device that is busy, and a signal, have a writer that
\* waits for them.
OutputSide ==
  /\ \A t \in waiting["outLock"] : pc[t] = "printing"
  /\ \A t \in waiting["outWait"] : pc[t] = "printed"
  /\ \A t \in Thread : Writing(t) => avail["outLock"] = 0
  /\ \A t, u \in Thread : Writing(t) /\ Writing(u) => t = u
  /\ putBusy => avail["outWait"] = 0
  /\ putBusy \/ avail["outWait"] = 1 => waiting["outWait"] # {}

\* The buffer holds what no reader has taken: a character, or the end of the input.
Fresh == avail["inWait"] = 1 \/ \E t \in Thread : Serving(t)

Handed == Len(input) - Len(rest)

\* InOrder, and what keeps it: until the last EOF is taken none was delivered, a poll
\* is pending only when all that was handed over is delivered, and the buffer is empty
\* under a signal only at the end of the input.
Stream ==
  /\ Con!InOrder
  /\ inInt \/ Fresh => \A i \in 1..Len(delivered) : delivered[i] # -1
  /\ inInt => Len(delivered) = Handed
  /\ Fresh /\ Len(delivered) # Handed - 1 => rest = <<>> /\ Len(delivered) = Handed

ConInv == ConTypes /\ InputSide /\ OutputSide /\ Stream

-----------------------------------------------------------------------------
\* What P, V and the end of a P that waited do to semaphores of one unit.
LEMMA ConP ==
  ASSUME ConTypes, NEW t \in Thread, NEW s \in Con!KSem, NEW l, Con!P(t, s, l)
  PROVE  /\ pc' = [pc EXCEPT ![t] = l]
         /\ \/ avail[s] = 1 /\ avail' = [avail EXCEPT ![s] = 0] /\ waiting' = waiting
            \/ /\ avail[s] = 0 /\ avail' = avail
               /\ waiting' = [waiting EXCEPT ![s] = @ \cup {t}]
<1>1. pc' = [pc EXCEPT ![t] = l]
  BY Zenon DEF Con!P, Con!Goto
<1>2. avail[s] \in {0, 1}
  BY Zenon DEF ConTypes
<1>3. CASE Con!S!Take(t, s)
  <2>1. avail[s] > 0 /\ avail' = [avail EXCEPT ![s] = avail[s] - 1] /\ waiting' = waiting
    BY <1>3, Zenon DEF Con!S!Take
  <2>2. avail[s] = 1 /\ avail[s] - 1 = 0
    BY <1>2, <2>1
  <2> QED
    BY <1>1, <2>1, <2>2, Zenon
<1>4. CASE Con!S!Wait(t, s)
  BY <1>1, <1>4, Zenon DEF Con!S!Wait
<1> QED
  BY <1>3, <1>4, Zenon DEF Con!P

\* V of a semaphore of the console that has no unit gives it one.
LEMMA ConV ==
  ASSUME ConTypes, NEW s \in Con!KSem, avail[s] = 0, Con!S!Release(s)
  PROVE  avail' = [avail EXCEPT ![s] = 1] /\ waiting' = waiting
<1>1. avail' = [avail EXCEPT ![s] = avail[s] + 1] /\ waiting' = waiting
  BY Zenon DEF Con!S!Release
<1>2. avail[s] + 1 = 1
  OBVIOUS
<1> QED
  BY <1>1, <1>2, Zenon

\* A thread that waited in P takes the unit and leaves the semaphore without one.
LEMMA ConGrant ==
  ASSUME ConTypes, NEW t \in Thread, NEW s \in Con!KSem, Con!S!Grant(t, s)
  PROVE  /\ t \in waiting[s] /\ avail[s] = 1 /\ avail' = [avail EXCEPT ![s] = 0]
         /\ waiting' = [waiting EXCEPT ![s] = @ \ {t}]
<1>1. /\ t \in waiting[s] /\ avail[s] > 0 /\ avail' = [avail EXCEPT ![s] = avail[s] - 1]
      /\ waiting' = [waiting EXCEPT ![s] = @ \ {t}]
  BY Zenon DEF Con!S!Grant
<1>2. avail[s] \in {0, 1}
  BY Zenon DEF ConTypes
<1>3. avail[s] = 1 /\ avail[s] - 1 = 0
  BY <1>1, <1>2
<1> QED
  BY <1>1, <1>3, Zenon

\* Where At(t, l) puts a thread.
LEMMA ConAt ==
  ASSUME NEW t, NEW l, Con!At(t, l)
  PROVE  pc[t] = l /\ \A s \in Con!KSem : t \notin waiting[s]
BY Zenon DEF Con!At, Con!S!IsWaiting

\* A step that leaves the readers, their semaphores and the input device alone keeps
\* their part of the invariant,
LEMMA InputKept ==
  ASSUME InputSide, \A t \in Thread : pc'[t] = "locked" <=> pc[t] = "locked",
         \A t \in Thread : pc'[t] = "char" <=> pc[t] = "char", ConTypes,
         waiting'["inLock"] = waiting["inLock"], waiting'["inWait"] = waiting["inWait"],
         avail'["inLock"] = avail["inLock"], avail'["inWait"] = avail["inWait"],
         inInt' = inInt
  PROVE  InputSide' /\ (Fresh' <=> Fresh)
<1>1. waiting["inLock"] \subseteq Thread /\ waiting["inWait"] \subseteq Thread
  BY Zenon DEF ConTypes, Con!KSem
<1>2. \A t \in Thread : (Reading(t)' <=> Reading(t)) /\ (Serving(t)' <=> Serving(t))
  BY Zenon DEF Reading, Serving
<1> QED
  BY <1>1, <1>2, Zenon DEF InputSide, Fresh

\* and the same holds of the writers and the output device.
LEMMA OutputKept ==
  ASSUME OutputSide, \A t \in Thread : pc'[t] = "printing" <=> pc[t] = "printing",
         \A t \in Thread : pc'[t] = "printed" <=> pc[t] = "printed", ConTypes,
         waiting'["outLock"] = waiting["outLock"], waiting'["outWait"] = waiting["outWait"],
         avail'["outLock"] = avail["outLock"], avail'["outWait"] = avail["outWait"],
         putBusy' = putBusy
  PROVE  OutputSide'
<1>1. waiting["outLock"] \subseteq Thread /\ waiting["outWait"] \subseteq Thread
  BY Zenon DEF ConTypes, Con!KSem
<1>2. \A t \in Thread : Writing(t)' <=> Writing(t)
  BY Zenon DEF Writing
<1> QED
  BY <1>1, <1>2, Zenon DEF OutputSide

\* The stream depends on what the devices and the readers hold.
LEMMA StreamKept ==
  ASSUME Stream, Fresh' => Fresh, inInt' = inInt, incoming' = incoming, rest' = rest,
         input' = input, delivered' = delivered
  PROVE  Stream'
BY Zenon DEF Stream, Con!InOrder, Handed, Con!EOF

\* At the start a poll is pending and nobody has called.
LEMMA ConInit ==
  ASSUME Typed, Con!Init
  PROVE  ConInv
<1>1. /\ input \in Inputs /\ rest = input /\ incoming = -1 /\ inInt = TRUE /\ putBusy = FALSE
      /\ waiting = [s \in Con!KSem |-> {}] /\ pc = [t \in Thread |-> "user"]
      /\ avail = [s \in Con!KSem |-> IF s \in {"inLock", "outLock"} THEN 1 ELSE 0]
      /\ delivered = <<>>
  BY DEF Con!Init, Con!ConsoleInput, Con!ConsoleOutput, Con!S!Init, Con!EOF
<1>2. input \in Seq(Int)
  BY <1>1, Zenon DEF Typed
<1>3. ConTypes
  <2>1. avail \in [Con!KSem -> {0, 1}]
    BY <1>1
  <2>2. delivered \in Seq(Int) /\ incoming \in Int
    BY <1>1
  <2> QED
    BY <1>1, <1>2, <2>1, <2>2, Zenon DEF ConTypes, Where
<1>4. /\ avail["inLock"] = 1 /\ avail["outLock"] = 1 /\ avail["inWait"] = 0
      /\ avail["outWait"] = 0 /\ \A s \in Con!KSem : waiting[s] = {}
  BY <1>1 DEF Con!KSem
<1>5. \A t \in Thread : pc[t] = "user"
  BY <1>1, Zenon
<1>6. InputSide /\ ~Fresh
  BY <1>4, <1>5 DEF InputSide, Reading, Serving, Con!KSem, Fresh
<1>7. OutputSide
  BY <1>1, <1>4, <1>5 DEF OutputSide, Writing, Con!KSem
<1>8. Stream
  <2>1. Len(delivered) = 0 /\ Len(rest) = Len(input) /\ Handed = 0
    BY <1>1, <1>2 DEF Handed
  <2>2. rest = SubSeq(input, 1, Len(input))
    BY <1>1, <1>2
  <2> QED
    BY <1>1, <1>2, <1>6, <2>1, <2>2 DEF Stream, Con!InOrder, Con!EOF
<1> QED
  BY <1>3, <1>6, <1>7, <1>8, Zenon DEF ConInv

\* The types after a P, a V or a grant.
LEMMA ConTypesNext ==
  ASSUME ConTypes, pc' \in [Thread -> Where], avail' \in [Con!KSem -> {0, 1}],
         waiting' \in [Con!KSem -> SUBSET Thread], inInt' \in BOOLEAN, putBusy' \in BOOLEAN,
         incoming' \in Int, input' = input, rest' \in Seq(Int), delivered' \in Seq(Int)
  PROVE  ConTypes'
BY Zenon DEF ConTypes

\* and after any of them.
LEMMA SemTypes ==
  ASSUME ConTypes, NEW t \in Thread, NEW s \in Con!KSem, NEW l \in Where,
         pc' = [pc EXCEPT ![t] = l] \/ pc' = pc,
         avail' = avail \/ \E n \in {0, 1} : avail' = [avail EXCEPT ![s] = n],
         \/ waiting' = waiting
         \/ waiting' = [waiting EXCEPT ![s] = @ \cup {t}]
         \/ waiting' = [waiting EXCEPT ![s] = @ \ {t}],
         inInt' \in BOOLEAN, putBusy' \in BOOLEAN,
         incoming' \in Int, input' = input, rest' \in Seq(Int), delivered' \in Seq(Int)
  PROVE  ConTypes'
<1>1. pc' \in [Thread -> Where]
  BY Zenon DEF ConTypes
<1>2. avail' \in [Con!KSem -> {0, 1}]
  BY Zenon DEF ConTypes
<1>3. waiting' \in [Con!KSem -> SUBSET Thread]
  <2>1. waiting[s] \cup {t} \in SUBSET Thread /\ waiting[s] \ {t} \in SUBSET Thread
    BY Zenon DEF ConTypes
  <2> QED
    BY <2>1, Zenon DEF ConTypes
<1> QED
  BY <1>1, <1>2, <1>3, ConTypesNext, Zenon

\* A system call comes in.
LEMMA CallStep ==
  ASSUME ConInv, NEW t \in Thread, NEW c, Con!CallConsole(t, c)
  PROVE  ConInv'
<1>1. /\ pc[t] \in {"user", "done"} /\ avail' = avail /\ waiting' = waiting /\ rest' = rest
      /\ incoming' = incoming /\ inInt' = inInt /\ putBusy' = putBusy /\ input' = input
      /\ delivered' = delivered
  BY Zenon DEF Con!CallConsole, Con!At, Con!device
<1>2. PICK l \in {"done", "put", "get"} : pc' = [pc EXCEPT ![t] = l]
  BY Zenon DEF Con!CallConsole, Con!Goto
<1>3. \A u \in Thread : pc'[u] = IF u = t THEN l ELSE pc[u]
  BY <1>2, Zenon DEF ConInv, ConTypes
<1>4. ConTypes'
  BY <1>1, <1>2, Zenon DEF ConInv, ConTypes, Where
<1>5. InputSide' /\ (Fresh' <=> Fresh)
  BY <1>1, <1>3, InputKept, Zenon DEF ConInv
<1>6. OutputSide'
  BY <1>1, <1>3, OutputKept, Zenon DEF ConInv
<1>7. Stream'
  BY <1>1, <1>5, StreamKept, Zenon DEF ConInv
<1> QED
  BY <1>4, <1>5, <1>6, <1>7, Zenon DEF ConInv

\* lock->Acquire of GetChar, at once or after a wait.
LEMMA GetAcquireStep ==
  ASSUME ConInv, NEW t \in Thread, Con!GetAcquire(t)
  PROVE  ConInv'
<1>0. Con!At(t, "get") /\ Con!P(t, "inLock", "locked") /\ "inLock" \in Con!KSem
  BY Zenon DEF Con!GetAcquire, Con!KSem
<1>1. /\ rest' = rest /\ incoming' = incoming /\ inInt' = inInt /\ putBusy' = putBusy
      /\ input' = input /\ delivered' = delivered
  BY Zenon DEF Con!GetAcquire, Con!device
<1>2. /\ pc' = [pc EXCEPT ![t] = "locked"]
      /\ \/ avail["inLock"] = 1 /\ avail' = [avail EXCEPT !["inLock"] = 0] /\ waiting' = waiting
         \/ /\ avail["inLock"] = 0 /\ avail' = avail
            /\ waiting' = [waiting EXCEPT !["inLock"] = @ \cup {t}]
  BY <1>0, ConP, Zenon DEF ConInv
<1>3. pc[t] = "get" /\ \A s \in Con!KSem : t \notin waiting[s]
  BY <1>0, ConAt, Zenon
<1>4. \A u \in Thread : pc'[u] = IF u = t THEN "locked" ELSE pc[u]
  BY <1>2, Zenon DEF ConInv, ConTypes
<1>5. ConTypes'
  <2>1. "locked" \in Where
    BY Zenon DEF Where
  <2>2. avail' = avail \/ \E n \in {0, 1} : avail' = [avail EXCEPT !["inLock"] = n]
    BY <1>2, Zenon
  <2>3. \/ waiting' = waiting
        \/ waiting' = [waiting EXCEPT !["inLock"] = @ \cup {t}]
    BY <1>2, Zenon
  <2>4. /\ inInt' \in BOOLEAN /\ putBusy' \in BOOLEAN /\ incoming' \in Int
        /\ rest' \in Seq(Int) /\ delivered' \in Seq(Int) /\ ConTypes
    BY <1>1, Zenon DEF ConInv, ConTypes
  <2> QED
    BY <1>0, <1>1, <1>2, <2>1, <2>2, <2>3, <2>4, SemTypes, Zenon
<1>6. /\ avail'["inWait"] = avail["inWait"] /\ waiting'["inWait"] = waiting["inWait"]
      /\ avail'["outLock"] = avail["outLock"] /\ waiting'["outLock"] = waiting["outLock"]
      /\ avail'["outWait"] = avail["outWait"] /\ waiting'["outWait"] = waiting["outWait"]
  BY <1>2, Zenon DEF ConInv, ConTypes, Con!KSem
<1>7. \A u \in Thread : Serving(u)' <=> Serving(u)
  BY <1>3, <1>4, <1>6, Zenon DEF Serving
<1>8. InputSide'
  <2>1. CASE avail["inLock"] = 1
    <3>1. avail'["inLock"] = 0 /\ waiting'["inLock"] = waiting["inLock"]
      BY <1>2, <2>1 DEF ConInv, ConTypes, Con!KSem
    <3>4. \A u \in Thread : ~Reading(u)
      BY <2>1 DEF ConInv, InputSide
    <3>2. \A u \in Thread : Reading(u)' <=> u = t
      BY <1>3, <1>4, <3>1, <3>4, Zenon DEF Reading, Con!KSem
    <3>3. waiting["inLock"] \subseteq Thread /\ waiting["inWait"] \subseteq Thread
      BY Zenon DEF ConInv, ConTypes, Con!KSem
    <3> QED
      BY <1>1, <1>3, <1>4, <1>6, <1>7, <3>1, <3>2, <3>3, Zenon DEF ConInv, InputSide, Con!KSem
  <2>2. CASE avail["inLock"] = 0
    <3>1. avail'["inLock"] = 0 /\ waiting'["inLock"] = waiting["inLock"] \cup {t}
      BY <1>2, <2>2 DEF ConInv, ConTypes, Con!KSem
    <3>2. \A u \in Thread : Reading(u)' <=> Reading(u)
      BY <1>3, <1>4, <3>1, Zenon DEF Reading
    <3>3. waiting["inLock"] \subseteq Thread /\ waiting["inWait"] \subseteq Thread
      BY Zenon DEF ConInv, ConTypes, Con!KSem
    <3> QED
      BY <1>1, <1>3, <1>4, <1>6, <1>7, <3>1, <3>2, <3>3, Zenon DEF ConInv, InputSide, Con!KSem
  <2> QED
    BY <1>2, <2>1, <2>2, Zenon
<1>9. OutputSide'
  BY <1>1, <1>3, <1>4, <1>6, OutputKept, Zenon DEF ConInv
<1>10. Stream'
  BY <1>1, <1>6, <1>7, StreamKept, Zenon DEF ConInv, Fresh
<1> QED
  BY <1>5, <1>8, <1>9, <1>10, Zenon DEF ConInv

\* waitFor->P of GetChar: the signal that is there, or a wait for it.
LEMMA GetWaitStep ==
  ASSUME ConInv, NEW t \in Thread, Con!GetWait(t)
  PROVE  ConInv'
<1>0. Con!At(t, "locked") /\ Con!P(t, "inWait", "char") /\ "inWait" \in Con!KSem
  BY Zenon DEF Con!GetWait, Con!KSem
<1>1. /\ rest' = rest /\ incoming' = incoming /\ inInt' = inInt /\ putBusy' = putBusy
      /\ input' = input /\ delivered' = delivered
  BY Zenon DEF Con!GetWait, Con!device
<1>2. /\ pc' = [pc EXCEPT ![t] = "char"]
      /\ \/ avail["inWait"] = 1 /\ avail' = [avail EXCEPT !["inWait"] = 0] /\ waiting' = waiting
         \/ /\ avail["inWait"] = 0 /\ avail' = avail
            /\ waiting' = [waiting EXCEPT !["inWait"] = @ \cup {t}]
  BY <1>0, ConP, Zenon DEF ConInv
<1>3. pc[t] = "locked" /\ \A s \in Con!KSem : t \notin waiting[s]
  BY <1>0, ConAt, Zenon
<1>4. \A u \in Thread : pc'[u] = IF u = t THEN "char" ELSE pc[u]
  BY <1>2, Zenon DEF ConInv, ConTypes
<1>5. ConTypes'
  <2>1. "char" \in Where
    BY Zenon DEF Where
  <2>2. avail' = avail \/ \E n \in {0, 1} : avail' = [avail EXCEPT !["inWait"] = n]
    BY <1>2, Zenon
  <2>3. \/ waiting' = waiting
        \/ waiting' = [waiting EXCEPT !["inWait"] = @ \cup {t}]
    BY <1>2, Zenon
  <2>4. /\ inInt' \in BOOLEAN /\ putBusy' \in BOOLEAN /\ incoming' \in Int
        /\ rest' \in Seq(Int) /\ delivered' \in Seq(Int) /\ ConTypes
    BY <1>1, Zenon DEF ConInv, ConTypes
  <2> QED
    BY <1>0, <1>1, <1>2, <2>1, <2>2, <2>3, <2>4, SemTypes, Zenon
<1>6. /\ avail'["inLock"] = avail["inLock"] /\ waiting'["inLock"] = waiting["inLock"]
      /\ avail'["outLock"] = avail["outLock"] /\ waiting'["outLock"] = waiting["outLock"]
      /\ avail'["outWait"] = avail["outWait"] /\ waiting'["outWait"] = waiting["outWait"]
  BY <1>2, Zenon DEF ConInv, ConTypes, Con!KSem
<1>7. \A u \in Thread : Reading(u)' <=> Reading(u)
  BY <1>3, <1>4, <1>6, Zenon DEF Reading
<1>8. waiting["inLock"] \subseteq Thread /\ waiting["inWait"] \subseteq Thread
  BY Zenon DEF ConInv, ConTypes, Con!KSem
<1>9. InputSide' /\ (Fresh' => Fresh)
  <2>1. CASE avail["inWait"] = 1
    <3>1. avail'["inWait"] = 0 /\ waiting'["inWait"] = waiting["inWait"] /\ ~inInt
      BY <1>2, <2>1 DEF ConInv, ConTypes, Con!KSem, InputSide
    <3>2. \A u \in waiting'["inLock"] : pc'[u] = "locked"
      BY <1>0, <1>3, <1>4, <1>6, <1>8, Zenon DEF ConInv, InputSide, Con!KSem
    <3>3. \A u \in waiting'["inWait"] : pc'[u] = "char"
      BY <1>0, <1>3, <1>4, <1>8, <3>1, Zenon DEF ConInv, InputSide, Con!KSem
    <3>4. Fresh
      BY <2>1, Zenon DEF Fresh
    <3> QED
      BY <1>1, <1>6, <1>7, <3>1, <3>2, <3>3, <3>4, Zenon DEF ConInv, InputSide
  <2>2. CASE avail["inWait"] = 0
    <3>1. avail'["inWait"] = 0 /\ waiting'["inWait"] = waiting["inWait"] \cup {t}
      BY <1>2, <2>2 DEF ConInv, ConTypes, Con!KSem
    <3>2. \A u \in Thread : Serving(u)' <=> Serving(u)
      BY <1>3, <1>4, <3>1, Zenon DEF Serving
    <3> QED
      BY <1>0, <1>1, <1>3, <1>4, <1>6, <1>7, <1>8, <2>2, <3>1, <3>2, Zenon
         DEF ConInv, InputSide, Fresh, Con!KSem
  <2> QED
    BY <1>2, <2>1, <2>2, Zenon
<1>10. OutputSide'
  BY <1>1, <1>3, <1>4, <1>6, OutputKept, Zenon DEF ConInv
<1>11. Stream'
  BY <1>1, <1>9, StreamKept, Zenon DEF ConInv
<1> QED
  BY <1>5, <1>9, <1>10, <1>11, Zenon DEF ConInv

\* The stream when the reader takes what the buffer holds: a character, after which
\* the device polls again, or the EOF, after which it does not.
LEMMA StreamTaken ==
  ASSUME ConTypes, Stream, Fresh, ~inInt, inInt' = (incoming # -1), incoming' = -1,
         rest' = rest, input' = input, delivered' = Append(delivered, incoming), ~Fresh'
  PROVE  Stream'
<1> DEFINE n == Len(delivered)
           h == Handed
<1>1. n \in Nat /\ h \in Int /\ Len(input) \in Nat /\ Len(rest) \in Nat /\ h' = h
  BY DEF ConTypes, Handed
<1>2. /\ Len(delivered') = n + 1
      /\ \A i \in 1..(n + 1) : delivered'[i] = IF i = n + 1 THEN incoming ELSE delivered[i]
  BY DEF ConTypes
<1>3. /\ rest = SubSeq(input, h + 1, Len(input))
      /\ IF n = h - 1 THEN incoming = input[h] ELSE n >= h /\ incoming = -1
      /\ \A i \in 1..n : delivered[i] = IF i > h THEN -1 ELSE input[i]
      /\ \A i \in 1..n : delivered[i] # -1
      /\ n # h - 1 => rest = <<>> /\ n = h
  BY Zenon DEF Stream, Con!InOrder, Handed, Con!EOF
<1>8. inInt' => incoming # -1
  BY Zenon
<1>9. incoming # -1 => n = h - 1
  BY <1>3, Zenon
<1>10. inInt' => n' = h'
  BY <1>1, <1>2, <1>8, <1>9
<1>4. /\ rest' = SubSeq(input', h' + 1, Len(input'))
      /\ n' >= h' /\ n' # h' - 1 /\ incoming' = -1
  BY <1>1, <1>2, <1>3
<1>5. \A i \in 1..n' : delivered'[i] = IF i > h' THEN -1 ELSE input'[i]
  BY <1>1, <1>2, <1>3
<1>6. \A i \in 1..(n' - 1) : delivered'[i] # -1
  BY <1>1, <1>2, <1>3
<1>7. incoming # -1 => \A i \in 1..n' : delivered'[i] # -1
  BY <1>1, <1>2, <1>3
<1> QED
  BY <1>4, <1>5, <1>6, <1>7, <1>8, <1>10, Zenon DEF Stream, Con!InOrder, Handed, Con!EOF

\* GetChar takes the character and releases the lock.
LEMMA GetReleaseStep ==
  ASSUME ConInv, NEW t \in Thread, Con!GetRelease(t)
  PROVE  ConInv'
<1>0. Con!At(t, "char") /\ Con!S!Release("inLock") /\ "inLock" \in Con!KSem
  BY Zenon DEF Con!GetRelease, Con!KSem
<1>1. /\ rest' = rest /\ incoming' = -1 /\ inInt' = (inInt \/ incoming # -1)
      /\ putBusy' = putBusy /\ input' = input /\ delivered' = Append(delivered, incoming)
  BY Zenon DEF Con!GetRelease, Con!DeviceGet, Con!EOF
<1>2. PICK l \in {"done", "get"} : pc' = [pc EXCEPT ![t] = l]
  BY Zenon DEF Con!GetRelease, Con!Goto
<1>3. pc[t] = "char" /\ \A s \in Con!KSem : t \notin waiting[s]
  BY <1>0, ConAt, Zenon
<1>4. \A u \in Thread : pc'[u] = IF u = t THEN l ELSE pc[u]
  BY <1>2, Zenon DEF ConInv, ConTypes
<1>5. Reading(t) /\ Serving(t)
  BY <1>3, Zenon DEF Reading, Serving, Con!KSem
<1>6. avail["inLock"] = 0 /\ avail["inWait"] = 0 /\ ~inInt
  BY <1>5, Zenon DEF ConInv, InputSide
<1>7. avail' = [avail EXCEPT !["inLock"] = 1] /\ waiting' = waiting
  BY <1>0, <1>6, ConV, Zenon DEF ConInv
<1>8. /\ avail'["inWait"] = 0 /\ avail'["outLock"] = avail["outLock"]
      /\ avail'["outWait"] = avail["outWait"]
  BY <1>6, <1>7, Zenon DEF ConInv, ConTypes, Con!KSem
<1>9. ConTypes'
  <2>1. l \in Where
    BY Zenon DEF Where
  <2>2. avail' = avail \/ \E n \in {0, 1} : avail' = [avail EXCEPT !["inLock"] = n]
    BY <1>7, Zenon
  <2>3. delivered' \in Seq(Int) /\ incoming' \in Int
    BY <1>1 DEF ConInv, ConTypes
  <2>4. inInt' \in BOOLEAN /\ putBusy' \in BOOLEAN /\ rest' \in Seq(Int) /\ ConTypes
    BY <1>1, Zenon DEF ConInv, ConTypes
  <2> QED
    BY <1>0, <1>1, <1>2, <1>7, <2>1, <2>2, <2>3, <2>4, SemTypes, Zenon
<1>10. \A u \in Thread : ~Reading(u)' /\ ~Serving(u)'
  <2> SUFFICES ASSUME NEW u \in Thread
               PROVE  ~Reading(u)' /\ ~Serving(u)'
    BY Zenon
  <2>1. Serving(u) => Reading(u)
    BY Zenon DEF ConInv, InputSide, Serving, Reading
  <2>2. Reading(u) => u = t
    BY <1>5, Zenon DEF ConInv, InputSide
  <2>3. u # t => (Reading(u)' <=> Reading(u)) /\ (Serving(u)' <=> Serving(u))
    BY <1>4, <1>7, Zenon DEF Reading, Serving
  <2>4. ~Reading(t)' /\ ~Serving(t)'
    BY <1>4, Zenon DEF Reading, Serving
  <2> QED
    BY <2>1, <2>2, <2>3, <2>4, Zenon
<1>11. ~Fresh'
  BY <1>8, <1>10 DEF Fresh
<1>12. InputSide'
  <2>1. \A u \in waiting["inLock"] \cup waiting["inWait"] : u \in Thread /\ u # t
    BY <1>3, Zenon DEF ConInv, ConTypes, Con!KSem
  <2> QED
    BY <1>4, <1>7, <1>8, <1>10, <2>1, Zenon DEF ConInv, InputSide
<1>13. OutputSide'
  BY <1>1, <1>3, <1>4, <1>7, <1>8, OutputKept, Zenon DEF ConInv
<1>14. Stream'
  <2>1. Fresh /\ inInt' = (incoming # -1)
    BY <1>1, <1>5, <1>6, Zenon DEF Fresh
  <2> QED
    BY <1>1, <1>6, <1>11, <2>1, StreamTaken, Zenon DEF ConInv
<1> QED
  BY <1>9, <1>12, <1>13, <1>14, Zenon DEF ConInv

\* lock->Acquire of PutChar, at once or after a wait.
LEMMA PutAcquireStep ==
  ASSUME ConInv, NEW t \in Thread, Con!PutAcquire(t)
  PROVE  ConInv'
<1>0. Con!At(t, "put") /\ Con!P(t, "outLock", "printing") /\ "outLock" \in Con!KSem
  BY Zenon DEF Con!PutAcquire, Con!KSem
<1>1. /\ rest' = rest /\ incoming' = incoming /\ inInt' = inInt /\ putBusy' = putBusy
      /\ input' = input /\ delivered' = delivered
  BY Zenon DEF Con!PutAcquire, Con!device
<1>2. /\ pc' = [pc EXCEPT ![t] = "printing"]
      /\ \/ avail["outLock"] = 1 /\ avail' = [avail EXCEPT !["outLock"] = 0] /\ waiting' = waiting
         \/ /\ avail["outLock"] = 0 /\ avail' = avail
            /\ waiting' = [waiting EXCEPT !["outLock"] = @ \cup {t}]
  BY <1>0, ConP, Zenon DEF ConInv
<1>3. pc[t] = "put" /\ \A s \in Con!KSem : t \notin waiting[s]
  BY <1>0, ConAt, Zenon
<1>4. \A u \in Thread : pc'[u] = IF u = t THEN "printing" ELSE pc[u]
  BY <1>2, Zenon DEF ConInv, ConTypes
<1>5. ConTypes'
  <2>1. "printing" \in Where
    BY Zenon DEF Where
  <2>2. avail' = avail \/ \E n \in {0, 1} : avail' = [avail EXCEPT !["outLock"] = n]
    BY <1>2, Zenon
  <2>3. \/ waiting' = waiting
        \/ waiting' = [waiting EXCEPT !["outLock"] = @ \cup {t}]
    BY <1>2, Zenon
  <2>4. /\ inInt' \in BOOLEAN /\ putBusy' \in BOOLEAN /\ incoming' \in Int
        /\ rest' \in Seq(Int) /\ delivered' \in Seq(Int) /\ ConTypes
    BY <1>1, Zenon DEF ConInv, ConTypes
  <2> QED
    BY <1>0, <1>1, <1>2, <2>1, <2>2, <2>3, <2>4, SemTypes, Zenon
<1>6. /\ avail'["inLock"] = avail["inLock"] /\ waiting'["inLock"] = waiting["inLock"]
      /\ avail'["inWait"] = avail["inWait"] /\ waiting'["inWait"] = waiting["inWait"]
      /\ avail'["outWait"] = avail["outWait"] /\ waiting'["outWait"] = waiting["outWait"]
  BY <1>2, Zenon DEF ConInv, ConTypes, Con!KSem
<1>7. waiting["outLock"] \subseteq Thread /\ waiting["outWait"] \subseteq Thread
  BY Zenon DEF ConInv, ConTypes, Con!KSem
<1>8. OutputSide'
  <2>1. CASE avail["outLock"] = 1
    <3>1. avail'["outLock"] = 0 /\ waiting'["outLock"] = waiting["outLock"]
      BY <1>2, <2>1 DEF ConInv, ConTypes, Con!KSem
    <3>2. \A u \in Thread : ~Writing(u)
      BY <2>1 DEF ConInv, OutputSide
    <3>3. \A u \in Thread : Writing(u)' <=> u = t
      BY <1>3, <1>4, <3>1, <3>2, Zenon DEF Writing, Con!KSem
    <3> QED
      BY <1>1, <1>3, <1>4, <1>6, <1>7, <3>1, <3>3, Zenon DEF ConInv, OutputSide, Con!KSem
  <2>2. CASE avail["outLock"] = 0
    <3>1. avail'["outLock"] = 0 /\ waiting'["outLock"] = waiting["outLock"] \cup {t}
      BY <1>2, <2>2 DEF ConInv, ConTypes, Con!KSem
    <3>2. \A u \in Thread : Writing(u)' <=> Writing(u)
      BY <1>3, <1>4, <3>1, Zenon DEF Writing
    <3> QED
      BY <1>1, <1>3, <1>4, <1>6, <1>7, <3>1, <3>2, Zenon DEF ConInv, OutputSide, Con!KSem
  <2> QED
    BY <1>2, <2>1, <2>2, Zenon
<1>9. InputSide' /\ (Fresh' <=> Fresh)
  BY <1>1, <1>3, <1>4, <1>6, InputKept, Zenon DEF ConInv
<1>10. Stream'
  BY <1>1, <1>9, StreamKept, Zenon DEF ConInv
<1> QED
  BY <1>5, <1>8, <1>9, <1>10, Zenon DEF ConInv

\* The writer that is about to use the device finds it at rest.
LEMMA DeviceAtRest ==
  ASSUME ConInv, NEW t \in Thread, Con!At(t, "printing")
  PROVE  waiting["outWait"] = {} /\ avail["outWait"] = 0 /\ putBusy = FALSE
<1>1. pc[t] = "printing" /\ t \notin waiting["outLock"]
  BY ConAt, Zenon DEF Con!KSem
<1>2. Writing(t)
  BY <1>1, Zenon DEF Writing
<1>3. \A u \in waiting["outWait"] : u \in Thread /\ Writing(u) /\ u # t
  BY <1>1, Zenon DEF ConInv, ConTypes, OutputSide, Writing, Con!KSem
<1>4. waiting["outWait"] = {}
  BY <1>2, <1>3, Zenon DEF ConInv, OutputSide
<1>5. avail["outWait"] \in {0, 1} /\ putBusy \in BOOLEAN
  BY Zenon DEF ConInv, ConTypes, Con!KSem
<1> QED
  BY <1>4, <1>5, Zenon DEF ConInv, OutputSide

\* The character goes to the device, and the writer waits for its interrupt.
LEMMA PutDeviceStep ==
  ASSUME ConInv, NEW t \in Thread, Con!PutDevice(t)
  PROVE  ConInv'
<1>0. Con!At(t, "printing") /\ Con!P(t, "outWait", "printed") /\ "outWait" \in Con!KSem
  BY Zenon DEF Con!PutDevice, Con!KSem
<1>1. /\ rest' = rest /\ incoming' = incoming /\ inInt' = inInt /\ putBusy' = TRUE
      /\ input' = input /\ delivered' = delivered
  BY Zenon DEF Con!PutDevice
<1>2. waiting["outWait"] = {} /\ avail["outWait"] = 0
  BY <1>0, DeviceAtRest, Zenon
<1>3. /\ pc' = [pc EXCEPT ![t] = "printed"]
      /\ \/ avail["outWait"] = 1 /\ avail' = [avail EXCEPT !["outWait"] = 0] /\ waiting' = waiting
         \/ /\ avail["outWait"] = 0 /\ avail' = avail
            /\ waiting' = [waiting EXCEPT !["outWait"] = @ \cup {t}]
  BY <1>0, ConP, Zenon DEF ConInv
<1>4. avail' = avail /\ waiting' = [waiting EXCEPT !["outWait"] = @ \cup {t}]
  BY <1>2, <1>3
<1>5. pc[t] = "printing" /\ \A s \in Con!KSem : t \notin waiting[s]
  BY <1>0, ConAt, Zenon
<1>6. \A u \in Thread : pc'[u] = IF u = t THEN "printed" ELSE pc[u]
  BY <1>3, Zenon DEF ConInv, ConTypes
<1>7. ConTypes'
  <2>1. "printed" \in Where
    BY Zenon DEF Where
  <2>2. /\ inInt' \in BOOLEAN /\ putBusy' \in BOOLEAN /\ incoming' \in Int
        /\ rest' \in Seq(Int) /\ delivered' \in Seq(Int) /\ ConTypes
    BY <1>1, Zenon DEF ConInv, ConTypes
  <2> QED
    BY <1>0, <1>1, <1>3, <1>4, <2>1, <2>2, SemTypes, Zenon
<1>8. /\ waiting'["inLock"] = waiting["inLock"] /\ waiting'["inWait"] = waiting["inWait"]
      /\ waiting'["outLock"] = waiting["outLock"] /\ waiting'["outWait"] = {t}
  BY <1>2, <1>4, Zenon DEF ConInv, ConTypes, Con!KSem
<1>9. \A u \in Thread : Writing(u)' <=> Writing(u)
  BY <1>5, <1>6, <1>8, Zenon DEF Writing
<1>10. waiting["outLock"] \subseteq Thread
  BY Zenon DEF ConInv, ConTypes, Con!KSem
<1>11. OutputSide'
  <2>1. \A u \in waiting'["outLock"] : pc'[u] = "printing"
    BY <1>5, <1>6, <1>8, <1>10, Zenon DEF ConInv, OutputSide, Con!KSem
  <2>2. \A u \in waiting'["outWait"] : pc'[u] = "printed"
    BY <1>6, <1>8, Zenon
  <2>3. avail'["outWait"] = 0 /\ avail'["outLock"] = avail["outLock"] /\ waiting'["outWait"] # {}
    BY <1>2, <1>4, <1>8, Zenon
  <2> QED
    BY <1>9, <2>1, <2>2, <2>3, Zenon DEF ConInv, OutputSide
<1>12. InputSide' /\ (Fresh' <=> Fresh)
  BY <1>1, <1>4, <1>5, <1>6, <1>8, InputKept, Zenon DEF ConInv
<1>13. Stream'
  BY <1>1, <1>12, StreamKept, Zenon DEF ConInv
<1> QED
  BY <1>7, <1>11, <1>12, <1>13, Zenon DEF ConInv

\* PutChar releases the lock.
LEMMA PutReleaseStep ==
  ASSUME ConInv, NEW t \in Thread, Con!PutRelease(t)
  PROVE  ConInv'
<1>0. Con!At(t, "printed") /\ Con!S!Release("outLock") /\ "outLock" \in Con!KSem
  BY Zenon DEF Con!PutRelease, Con!KSem
<1>1. /\ rest' = rest /\ incoming' = incoming /\ inInt' = inInt /\ putBusy' = putBusy
      /\ input' = input /\ delivered' = delivered
  BY Zenon DEF Con!PutRelease, Con!device
<1>2. PICK l \in {"done", "put"} : pc' = [pc EXCEPT ![t] = l]
  BY Zenon DEF Con!PutRelease, Con!Goto
<1>3. pc[t] = "printed" /\ \A s \in Con!KSem : t \notin waiting[s]
  BY <1>0, ConAt, Zenon
<1>4. \A u \in Thread : pc'[u] = IF u = t THEN l ELSE pc[u]
  BY <1>2, Zenon DEF ConInv, ConTypes
<1>5. Writing(t) /\ avail["outLock"] = 0
  BY <1>3, Zenon DEF Writing, Con!KSem, ConInv, OutputSide
<1>6. avail' = [avail EXCEPT !["outLock"] = 1] /\ waiting' = waiting
  BY <1>0, <1>5, ConV, Zenon DEF ConInv
<1>7. /\ avail'["inWait"] = avail["inWait"] /\ avail'["inLock"] = avail["inLock"]
      /\ avail'["outWait"] = avail["outWait"]
  BY <1>6, Zenon DEF ConInv, ConTypes, Con!KSem
<1>8. ConTypes'
  <2>1. l \in Where
    BY Zenon DEF Where
  <2>2. avail' = avail \/ \E n \in {0, 1} : avail' = [avail EXCEPT !["outLock"] = n]
    BY <1>6, Zenon
  <2>3. /\ inInt' \in BOOLEAN /\ putBusy' \in BOOLEAN /\ incoming' \in Int
        /\ rest' \in Seq(Int) /\ delivered' \in Seq(Int) /\ ConTypes
    BY <1>1, Zenon DEF ConInv, ConTypes
  <2> QED
    BY <1>0, <1>1, <1>2, <1>6, <2>1, <2>2, <2>3, SemTypes, Zenon
<1>9. \A u \in Thread : ~Writing(u)'
  <2>1. \A u \in Thread : Writing(u) => u = t
    BY <1>5, Zenon DEF ConInv, OutputSide
  <2>2. \A u \in Thread : u # t => (Writing(u)' <=> Writing(u))
    BY <1>4, <1>6, Zenon DEF Writing
  <2>3. ~Writing(t)'
    BY <1>4, Zenon DEF Writing
  <2> QED
    BY <2>1, <2>2, <2>3, Zenon
<1>10. OutputSide'
  <2>1. \A u \in waiting["outLock"] \cup waiting["outWait"] : u \in Thread /\ u # t
    BY <1>3, Zenon DEF ConInv, ConTypes, Con!KSem
  <2> QED
    BY <1>1, <1>4, <1>6, <1>7, <1>9, <2>1, Zenon DEF ConInv, OutputSide
<1>11. InputSide' /\ (Fresh' <=> Fresh)
  BY <1>1, <1>3, <1>4, <1>6, <1>7, InputKept, Zenon DEF ConInv
<1>12. Stream'
  BY <1>1, <1>11, StreamKept, Zenon DEF ConInv
<1> QED
  BY <1>8, <1>10, <1>11, <1>12, Zenon DEF ConInv

\* A P that waited gets its unit.
LEMMA WakeStep ==
  ASSUME ConInv, NEW t \in Thread, NEW s \in Con!KSem, Con!Wake(t, s)
  PROVE  ConInv'
<1>1. /\ rest' = rest /\ incoming' = incoming /\ inInt' = inInt /\ putBusy' = putBusy
      /\ input' = input /\ delivered' = delivered /\ pc' = pc
  BY Zenon DEF Con!Wake, Con!device
<1>2. /\ t \in waiting[s] /\ avail[s] = 1 /\ avail' = [avail EXCEPT ![s] = 0]
      /\ waiting' = [waiting EXCEPT ![s] = @ \ {t}]
  BY ConGrant, Zenon DEF ConInv, Con!Wake
<1>3. /\ avail'[s] = 0 /\ waiting'[s] = waiting[s] \ {t}
      /\ \A r \in Con!KSem : r # s => avail'[r] = avail[r] /\ waiting'[r] = waiting[r]
  BY <1>2, Zenon DEF ConInv, ConTypes
<1>4. ConTypes'
  <2>1. "user" \in Where
    BY Zenon DEF Where
  <2>2. avail' = avail \/ \E n \in {0, 1} : avail' = [avail EXCEPT ![s] = n]
    BY <1>2, Zenon
  <2>3. /\ inInt' \in BOOLEAN /\ putBusy' \in BOOLEAN /\ incoming' \in Int
        /\ rest' \in Seq(Int) /\ delivered' \in Seq(Int) /\ ConTypes
    BY <1>1, Zenon DEF ConInv, ConTypes
  <2> QED
    BY <1>1, <1>2, <2>1, <2>2, <2>3, SemTypes, Zenon
<1>5. {"inLock", "inWait", "outLock", "outWait"} = Con!KSem
  BY Zenon DEF Con!KSem
<1>6. \A r \in Con!KSem : waiting'[r] \subseteq waiting[r]
  BY <1>3, Zenon
<1>7. CASE s = "inLock"
  <2>1. \A u \in Thread : ~Reading(u)
    BY <1>2, <1>7 DEF ConInv, InputSide
  <2>2. \A u \in Thread : (Reading(u)' => u = t) /\ (Serving(u)' <=> Serving(u))
    BY <1>1, <1>3, <1>5, <1>7, <2>1, Zenon DEF Reading, Serving
  <2>3. InputSide' /\ (Fresh' => Fresh)
    BY <1>1, <1>3, <1>5, <1>6, <1>7, <2>2, Zenon DEF ConInv, InputSide, Fresh
  <2>4. OutputSide'
    BY <1>1, <1>3, <1>5, <1>7, OutputKept, Zenon DEF ConInv
  <2> QED
    BY <1>1, <1>4, <2>3, <2>4, StreamKept, Zenon DEF ConInv
<1>8. CASE s = "inWait"
  <2>1. ~inInt /\ Fresh
    BY <1>2, <1>8 DEF ConInv, InputSide, Fresh
  <2>2. \A u \in Thread : Reading(u)' <=> Reading(u)
    BY <1>1, <1>3, <1>5, <1>8, Zenon DEF Reading
  <2>3. InputSide'
    BY <1>1, <1>3, <1>5, <1>6, <1>8, <2>1, <2>2, Zenon DEF ConInv, InputSide
  <2>4. OutputSide'
    BY <1>1, <1>3, <1>5, <1>8, OutputKept, Zenon DEF ConInv
  <2> QED
    BY <1>1, <1>4, <2>1, <2>3, <2>4, StreamKept, Zenon DEF ConInv
<1>9. CASE s = "outLock"
  <2>1. \A u \in Thread : ~Writing(u)
    BY <1>2, <1>9 DEF ConInv, OutputSide
  <2>2. \A u \in Thread : Writing(u)' => u = t
    BY <1>1, <1>3, <1>5, <1>9, <2>1, Zenon DEF Writing
  <2>3. OutputSide'
    BY <1>1, <1>3, <1>5, <1>6, <1>9, <2>2, Zenon DEF ConInv, OutputSide
  <2>4. InputSide' /\ (Fresh' <=> Fresh)
    BY <1>1, <1>3, <1>5, <1>9, InputKept, Zenon DEF ConInv
  <2> QED
    BY <1>1, <1>4, <2>3, <2>4, StreamKept, Zenon DEF ConInv
<1>10. CASE s = "outWait"
  <2>1. ~putBusy /\ avail'["outWait"] # 1
    BY <1>2, <1>3, <1>10 DEF ConInv, OutputSide
  <2>2. \A u \in Thread : Writing(u)' <=> Writing(u)
    BY <1>1, <1>3, <1>5, <1>10, Zenon DEF Writing
  <2>3. OutputSide'
    BY <1>1, <1>3, <1>5, <1>6, <1>10, <2>1, <2>2, Zenon DEF ConInv, OutputSide
  <2>4. InputSide' /\ (Fresh' <=> Fresh)
    BY <1>1, <1>3, <1>5, <1>10, InputKept, Zenon DEF ConInv
  <2> QED
    BY <1>1, <1>4, <2>3, <2>4, StreamKept, Zenon DEF ConInv
<1> QED
  BY <1>5, <1>7, <1>8, <1>9, <1>10, Zenon

\* Sequences that agree element by element are equal.
LEMMA SameSeq ==
  ASSUME NEW p \in Seq(Int), NEW q \in Seq(Int), Len(p) = Len(q),
         \A i \in 1..Len(q) : p[i] = q[i]
  PROVE  p = q
OBVIOUS

\* The stream when the host hands over a character, or the end of the input.
LEMMA StreamHanded ==
  ASSUME ConTypes, Stream, inInt, ~inInt', Fresh', input' = input, delivered' = delivered,
         rest' = IF rest = <<>> THEN rest ELSE Tail(rest),
         incoming' = IF rest = <<>> THEN incoming ELSE Head(rest)
  PROVE  Stream'
<1> DEFINE n == Len(delivered)
           h == Handed
<1>1. n \in Nat /\ h \in Int /\ Len(input) \in Nat /\ Len(rest) \in Nat
  BY DEF ConTypes, Handed
<1>2. /\ rest = SubSeq(input, h + 1, Len(input))
      /\ IF n = h - 1 THEN incoming = input[h] ELSE n >= h /\ incoming = -1
      /\ \A i \in 1..n : delivered[i] = IF i > h THEN -1 ELSE input[i]
      /\ \A i \in 1..n : delivered[i] # -1
      /\ n = h
  BY Zenon DEF Stream, Con!InOrder, Handed, Con!EOF
<1>3. CASE rest = <<>>
  <2>1. rest' = rest /\ incoming' = incoming /\ h' = h /\ n' = n /\ incoming = -1
    <3>1. rest' = rest /\ incoming' = incoming
      BY <1>3, Zenon
    <3>2. n # h - 1
      BY <1>1, <1>2
    <3> QED
      BY <1>2, <3>1, <3>2, Zenon DEF Handed
  <2>2. n >= h /\ n # h - 1 /\ 1..(n - 1) \subseteq 1..n
    BY <1>1, <1>2
  <2> QED
    BY <1>2, <1>3, <2>1, <2>2, Zenon DEF Stream, Con!InOrder, Handed, Con!EOF
<1>4. CASE rest # <<>>
  <2>1. rest' = Tail(rest) /\ incoming' = Head(rest) /\ n' = n
    BY <1>4, Zenon
  <2>2. Len(rest') = Len(rest) - 1 /\ Len(rest) > 0 /\ h' = h + 1
    BY <1>1, <1>4, <2>1 DEF Handed, ConTypes
  <2>3. h + Len(rest) = Len(input)
    BY <1>1 DEF Handed
  <2>4. \A i \in 1..Len(rest) : rest[i] = input[h + i]
    BY <1>1, <1>2, <2>3 DEF ConTypes
  <2>5. incoming' = input[h']
    BY <1>1, <2>1, <2>2, <2>4 DEF ConTypes
  <2>6. rest' = SubSeq(input', h' + 1, Len(input'))
    <3> DEFINE q == SubSeq(input, h + 2, Len(input))
    <3>1. q \in Seq(Int) /\ Len(q) = Len(rest) - 1
      BY <1>1, <1>2, <2>2, <2>3 DEF ConTypes
    <3>2. \A i \in 1..Len(q) : q[i] = input[h + 1 + i]
      BY <1>1, <1>2, <2>2, <2>3, <3>1 DEF ConTypes
    <3>3. \A i \in 1..Len(q) : rest'[i] = q[i]
      BY <1>1, <1>4, <2>1, <2>2, <2>4, <3>1, <3>2 DEF ConTypes
    <3>4. rest' \in Seq(Int)
      BY <1>4, <2>1 DEF ConTypes
    <3>5. rest' = q
      <4>1. Len(rest') = Len(q)
        BY <2>2, <3>1, Zenon
      <4> HIDE DEF q
      <4> QED
        BY <3>1, <3>3, <3>4, <4>1, SameSeq, Zenon
    <3>6. h' + 1 = h + 2
      BY <1>1, <2>2
    <3> QED
      BY <3>5, <3>6, Zenon
  <2>7. n' = h' - 1 /\ 1..(n' - 1) \subseteq 1..n
    BY <1>1, <1>2, <2>1, <2>2
  <2>8. \A i \in 1..n' : delivered'[i] = IF i > h' THEN -1 ELSE input'[i]
    BY <1>1, <1>2, <2>1, <2>2
  <2> QED
    BY <1>2, <2>1, <2>5, <2>6, <2>7, <2>8, Zenon DEF Stream, Con!InOrder, Handed, Con!EOF
<1> QED
  BY <1>3, <1>4, Zenon

\* The interrupt of the input device.
LEMMA ReadIntStep ==
  ASSUME ConInv, Con!ReadInt
  PROVE  ConInv'
<1>1. /\ inInt /\ inInt' = FALSE /\ putBusy' = putBusy /\ input' = input
      /\ delivered' = delivered /\ pc' = pc
      /\ rest' = IF rest = <<>> THEN rest ELSE Tail(rest)
      /\ incoming' = IF rest = <<>> THEN incoming ELSE Head(rest)
      /\ Con!S!Release("inWait")
  BY Zenon DEF Con!ReadInt, Con!InputCallBack
<1>2. avail["inWait"] = 0 /\ \A t \in Thread : ~Serving(t)
  BY <1>1, Zenon DEF ConInv, InputSide
<1>3. "inWait" \in Con!KSem
  BY Zenon DEF Con!KSem
<1>4. avail' = [avail EXCEPT !["inWait"] = 1] /\ waiting' = waiting
  BY <1>1, <1>2, <1>3, ConV, Zenon DEF ConInv
<1>5. /\ avail'["inWait"] = 1 /\ avail'["inLock"] = avail["inLock"]
      /\ avail'["outLock"] = avail["outLock"] /\ avail'["outWait"] = avail["outWait"]
  BY <1>4, Zenon DEF ConInv, ConTypes, Con!KSem
<1>6. ConTypes'
  <2>1. rest' \in Seq(Int) /\ incoming' \in Int
    BY <1>1 DEF ConInv, ConTypes
  <2>2. avail' \in [Con!KSem -> {0, 1}]
    BY <1>4, Zenon DEF ConInv, ConTypes
  <2> QED
    BY <1>1, <1>4, <2>1, <2>2, Zenon DEF ConInv, ConTypes
<1>7. InputSide' /\ Fresh'
  <2>1. \A t \in Thread : (Reading(t)' <=> Reading(t)) /\ ~Serving(t)'
    BY <1>1, <1>2, <1>4, Zenon DEF Reading, Serving
  <2> QED
    BY <1>1, <1>4, <1>5, <2>1, Zenon DEF ConInv, InputSide, Fresh
<1>8. OutputSide'
  BY <1>1, <1>4, <1>5, OutputKept, Zenon DEF ConInv
<1>9. Stream'
  BY <1>1, <1>7, StreamHanded, Zenon DEF ConInv
<1> QED
  BY <1>6, <1>7, <1>8, <1>9, Zenon DEF ConInv

\* The interrupt of the output device.
LEMMA WriteIntStep ==
  ASSUME ConInv, Con!WriteInt
  PROVE  ConInv'
<1>1. /\ putBusy /\ putBusy' = FALSE /\ input' = input /\ delivered' = delivered
      /\ pc' = pc /\ rest' = rest /\ incoming' = incoming /\ inInt' = inInt
      /\ Con!S!Release("outWait")
  BY Zenon DEF Con!WriteInt, Con!OutputCallBack
<1>2. avail["outWait"] = 0 /\ waiting["outWait"] # {}
  BY <1>1, Zenon DEF ConInv, OutputSide
<1>3. "outWait" \in Con!KSem
  BY Zenon DEF Con!KSem
<1>4. avail' = [avail EXCEPT !["outWait"] = 1] /\ waiting' = waiting
  BY <1>1, <1>2, <1>3, ConV, Zenon DEF ConInv
<1>5. /\ avail'["inWait"] = avail["inWait"] /\ avail'["inLock"] = avail["inLock"]
      /\ avail'["outLock"] = avail["outLock"]
  BY <1>4, Zenon DEF ConInv, ConTypes, Con!KSem
<1>6. ConTypes'
  <2>1. avail' \in [Con!KSem -> {0, 1}]
    BY <1>4, Zenon DEF ConInv, ConTypes
  <2> QED
    BY <1>1, <1>4, <2>1, Zenon DEF ConInv, ConTypes
<1>7. OutputSide'
  <2>1. \A t \in Thread : Writing(t)' <=> Writing(t)
    BY <1>1, <1>4, Zenon DEF Writing
  <2> QED
    BY <1>1, <1>2, <1>4, <1>5, <2>1, Zenon DEF ConInv, OutputSide
<1>8. InputSide' /\ (Fresh' <=> Fresh)
  BY <1>1, <1>4, <1>5, InputKept, Zenon DEF ConInv
<1>9. Stream'
  BY <1>1, <1>8, StreamKept, Zenon DEF ConInv
<1> QED
  BY <1>6, <1>7, <1>8, <1>9, Zenon DEF ConInv

\* Every step of the console keeps the invariant.
LEMMA ConNext ==
  ASSUME ConInv, [Con!Next]_(Con!vars)
  PROVE  ConInv'
<1>1. CASE UNCHANGED Con!vars
  <2>1. /\ rest' = rest /\ incoming' = incoming /\ inInt' = inInt /\ putBusy' = putBusy
        /\ input' = input /\ delivered' = delivered /\ pc' = pc /\ avail' = avail
        /\ waiting' = waiting
    BY <1>1, Zenon DEF Con!vars
  <2>2. ConTypes'
    BY <2>1, Zenon DEF ConInv, ConTypes
  <2>3. InputSide' /\ (Fresh' <=> Fresh)
    BY <2>1, InputKept, Zenon DEF ConInv
  <2>4. OutputSide'
    BY <2>1, OutputKept, Zenon DEF ConInv
  <2> QED
    BY <2>1, <2>2, <2>3, <2>4, StreamKept, Zenon DEF ConInv
<1>2. ASSUME NEW t \in Thread, Con!Step(t)
      PROVE  ConInv'
  BY <1>2, WakeStep, GetAcquireStep, GetWaitStep, GetReleaseStep, PutAcquireStep,
     PutDeviceStep, PutReleaseStep, Zenon DEF Con!Step
<1>3. ASSUME NEW t \in Thread, NEW c \in Call, Con!CallConsole(t, c)
      PROVE  ConInv'
  BY <1>3, CallStep, Zenon
<1> QED
  BY <1>1, <1>2, <1>3, ReadIntStep, WriteIntStep, Zenon DEF Con!Next

\* The console, for any number of threads, calls and any input: the interrupt of the
\* input device finds the buffer empty, PutChar finds the output device at rest
\* (assertions of machine/console.cc), and the readers together see the input, each
\* character once and in order.
THEOREM ConsoleSafe ==
  ASSUME Typed
  PROVE  Con!Spec => [](Con!BufferFree /\ Con!PutIdle /\ Con!InOrder)
<1>1. Con!Init => ConInv
  BY ConInit, Zenon
<1>2. ConInv /\ [Con!Next]_(Con!vars) => ConInv'
  BY ConNext, Zenon
<1>3. ConInv => Con!BufferFree /\ Con!PutIdle /\ Con!InOrder
  <2> SUFFICES ASSUME ConInv
               PROVE  Con!BufferFree /\ Con!PutIdle /\ Con!InOrder
    BY Zenon
  <2>1. Con!InOrder
    BY Zenon DEF ConInv, Stream
  <2>2. inInt => Len(delivered) # Handed - 1
    BY DEF ConInv, Stream, ConTypes, Handed
  <2>3. Con!BufferFree
    BY <2>1, <2>2, Zenon DEF Con!InOrder, Handed, Con!BufferFree
  <2>4. Con!PutIdle
    BY DeviceAtRest, Zenon DEF Con!PutIdle
  <2> QED
    BY <2>1, <2>3, <2>4, Zenon
<1> QED
  BY <1>1, <1>2, <1>3, PTL DEF Con!Spec
=============================================================================
