--------------------------- MODULE MCComponents ---------------------------
(***************************************************************************)
(* The components without liveness properties, one after the other: each   *)
(* behaviour picks a subject, and only the subject moves.  The others stay *)
(* in one of their initial states.                                         *)
(***************************************************************************)
EXTENDS AddrSpace, TLC

VARIABLES subject,
  machine, bm, pcb, freePages, pages, avail, waiting, pc, name, id, kids,
  m, which, steps,
  reg, saved, current, inSpace, doing, asleep, power, userSteps, view,
  coff, noff, memory, phase,
  tool, host, coffBytes, noffBytes, header, headerPhase,
  file, table, result, up, calls,
  disk, queue, op, before, ops, stopped,
  from, to, old, openf, index, fd, openFile, seekPosition, deleted, printed, copyPhase,
  sorted, heap, first, last, numInList, expected,
  buckets, numBuckets, numItems, iter, seen,
  map, marked, test, script, q, failed,
  class, top, stack, stackHeap, stackFirst, stackLast, client, given, count, popped,
  line, argv, i, bootPhase, flags, built, enabled, caught, done, left,
  deleter, misused

spaceVars == vars
procVars == <<machine, bm, pcb, freePages, pages, avail, waiting, pc, name, id, kids>>
cpuVars == <<m, which, steps>>
userVars == <<reg, saved, current, inSpace, doing, asleep, power, userSteps, view>>
loadVars == <<coff, noff, memory, phase>>
headerVars == <<tool, host, coffBytes, noffBytes, header, headerPhase>>
fileVars == <<file, table, result, up, calls>>
fsVars == <<disk, queue, op, before, ops, stopped>>
copyVars == <<from, to, old, openf, index, fd, openFile, seekPosition, deleted, printed, copyPhase>>
listVars == <<sorted, heap, first, last, numInList, expected>>
hashVars == <<buckets, numBuckets, numItems, iter, seen>>
bitVars == <<map, marked>>
testVars == <<test, script, q, failed>>
stackVars == <<class, top, stack, stackHeap, stackFirst, stackLast, client, given, count, popped>>
bootVars == <<line, argv, i, bootPhase, flags, built, enabled, caught, done, left, deleter, misused>>
allVars == <<subject, spaceVars, procVars, cpuVars, userVars, loadVars, headerVars, fileVars, fsVars,
             copyVars, listVars, hashVars, bitVars, testVars, stackVars, bootVars>>

CONSTANTS p1, p2, p3, NoFile, NoHandle, Hole, Closed, Undefined

----------------------------------------------------------------------------
(* Programs that join, or do not join, whom they like: two frames behind a *)
(* bitmap of four, one page a program.                                     *)
Prc == INSTANCE ProcTable
       WITH MaxProcess <- 3, Prog <- {"shell", "a"}, MainProg <- "shell",
            Pages <- ("shell" :> 1) @@ ("a" :> 1), BitmapSize <- 4, NumPhysPages <- 2,
            ExitCode <- {7}, MaxNumWait <- 1, Disciplined <- FALSE

(* Words of 8 bits, pages of one word: one page is read only, one invalid  *)
(* and one mapped to a frame that does not exist.  The code has every      *)
(* primary op code, every function code and every branch on the sign.      *)
PageEntry(f, v, r) == [physicalPage |-> f, valid |-> v, readOnly |-> r]
CpuPageTable ==
  (0 :> PageEntry(1, TRUE, FALSE)) @@ (1 :> PageEntry(0, TRUE, FALSE))
  @@ (2 :> PageEntry(2, TRUE, TRUE)) @@ (3 :> PageEntry(3, FALSE, FALSE))
  @@ (4 :> PageEntry(9, TRUE, FALSE))
CpuMemByte(a) == (3 * a + (a \div 4) + 1) % 4
Encoded(o, rs, rt, rd, k, funct) ==
  [op |-> o, rs |-> rs, rt |-> rt, rd |-> rd, shamt |-> k, funct |-> funct,
   imm |-> k, target |-> k]
CpuCode ==
  {Encoded(o, 1, 2, 0, k, 0) : o \in 2..63, k \in {2, 15}}
  \cup {Encoded(0, 1, 2, rd, 1, f) : rd \in {0, 1}, f \in 0..63}
  \cup {Encoded(1, rs, rt, 0, 1, 0) : rs \in {1, 31}, rt \in {0, 1, 5, 16, 17}}
CpuRegs(a, b) == (0 :> 0) @@ (1 :> a) @@ (2 :> b) @@ (31 :> 8)

Cpu == INSTANCE Mips
       WITH ByteBits <- 2, JBits <- 6, GPR <- {0, 1, 2, 31}, PageSize <- 4, NumPhysPages <- 4,
            PageTable <- CpuPageTable, Code <- CpuCode, MemByte <- CpuMemByte, MaxSteps <- 2,
            InitRegs <- {CpuRegs(a, b) : a, b \in {1, 127, 128, 255}}

(* Two processes and a kernel thread; calls that sleep, that end a process *)
(* and that the handler does not know.                                     *)
Usr == INSTANCE UserState
       WITH Process <- {p1, p2}, KernelThread <- {p3}, Main <- p1, Pid <- (p1 :> 0) @@ (p2 :> 1),
            Calls <- {"Join", "PrintNum", "Exit", "Remove"}, WordSize <- 2, Code <- {0, 12},
            StackTop <- 5, MaxSteps <- 3, space <- inSpace, machine <- power, steps <- userSteps

(* Sections that end inside a page, at its end and just behind it.         *)
LoadFrame(p) == 19 - p
Ldr == INSTANCE Loader
       WITH PageSize <- 3, HeaderSize <- 2, StackPages <- 1, TextSizes <- {1, 2, 3, 4, 6, 7},
            DataSizes <- {0, 1, 2, 3, 4, 7}, BssSizes <- {0, 1}, Frame <- LoadFrame

(* Bytes of two bits; sizes whose bytes differ, and the magic number.      *)
Hdr == INSTANCE ByteOrder
       WITH ByteBase <- 4, NOFFMAGIC <- 27, MIPSELMAGIC <- 6, OMAGIC <- 9, Shorts <- {6, 9},
            Sizes <- {0, 1, 27, 228}, CoffWords <- {1, 2},
            coff <- coffBytes, noff <- noffBytes, phase <- headerPhase

(* Two files, of which one exists; a name copied without its end may read  *)
(* as the other.  Two buffers, with a zero byte inside and at the end; the *)
(* sizes are one that has no buffer, one that UNIX refuses, none and two.  *)
(* Four calls, of which the second process makes the first two at most.    *)
NameReads(n) == IF n = "f" THEN {"f", "fg"} ELSE {n}
Fls == INSTANCE FileTable
       WITH Proc <- {p1, p2}, Name <- {"f", "fg", "", "stdin", "stdout"}, Stdin <- "stdin",
            Stdout <- "stdout", NoName <- "", NumSlots <- 4, Byte <- {0, 2}, Nul <- 0,
            Existing <- ("f" :> <<2, 2>>) @@ ("fg" :> NoFile) @@ ("" :> NoFile),
            Buffers <- {<<2, 0>>, <<0, 2>>}, Sizes <- {-2, -1, 0, 2}, Positions <- {-1, 3},
            Reads <- NameReads, MaxLen <- 3, MaxCalls <- (p1 :> 4) @@ (p2 :> 2)

(* Twelve sectors, so that both the disk and the directory run full.       *)
Fsy == INSTANCE FileSystem
       WITH NumSectors <- 12, SectorSize <- 2, NumDirEntries <- 4, Straddler <- 3,
            Name <- {"a", "b", "c", "stdin", "stdout"}, Stdin <- "stdin", Stdout <- "stdout",
            NoName <- "", FileSizes <- {0, 3, 4}, Garbage <- 0,
            Texts <- {<<1>>, <<1, 2>>, <<1, 2, 1>>}, MaxOps <- 4

(* Texts of up to three pieces, of which the longest does not fit.         *)
Cpy == INSTANCE Transfer
       WITH TransferSize <- 2, Texts <- UNION {[1..n -> {1, 2}] : n \in 0..5}, Room <- 4,
            Old <- <<7, 7>>, before <- old, phase <- copyPhase

(* Items with equal keys; four elements at most.                           *)
ItemKey(x) == x \div 10
Lst == INSTANCE LinkedList
       WITH Items <- {11, 12, 21, 22, 31}, Key <- ItemKey, Addr <- 1..4, NULL <- 0

(* Keys that share buckets before and after the table grows, twice.        *)
Hsh == INSTANCE HashTable
       WITH Keys <- {0, 1, 2, 3, 4, 5, 6, 8}, InitialBuckets <- 2, ResizeRatio <- 2,
            IncreaseSizeBy <- 2

(* Three words, of which the last is not full.                             *)
Bit == INSTANCE WordBitmap WITH BitsInWord <- 3, NumBits <- 7

(* The self tests of the library, on the lists, tables and bitmaps above.  *)
Lib == INSTANCE LibTest
       WITH BitsInWord <- 16, NumBits <- 40, HighBit <- 31, Addr <- 1..4, NULL <- 0

Stk == INSTANCE Stacks
       WITH Size <- 3, Addr <- 1..4, NULL <- 0, Values <- {1, 2},
            heap <- stackHeap, first <- stackFirst, last <- stackLast

(* Options of main, of the kernel, of both and of neither, two at a time,  *)
(* with the file system that is not a stub.                                *)
Options == {"-K", "-x", "-rs", "-u", "-cp", "-f", "-q", "-N"}
Bot == INSTANCE Boot
       WITH Stub <- FALSE, Lines <- UNION {[1..n -> Options] : n \in 0..2}, phase <- bootPhase

----------------------------------------------------------------------------
Subjects == {"spaces", "processes", "cpu", "registers", "loader", "headers", "files", "filesys",
             "copy", "list", "hash", "bitmap", "tests", "stacks", "boot"}

\* An idle component is in one of its initial states.
MCInit ==
  /\ subject \in Subjects
  /\ Init /\ Prc!Init /\ Usr!Init /\ Fls!Init /\ Fsy!Init
  /\ Cpu!Init /\ (subject # "cpu" => m.reg = CpuRegs(1, 1))
  /\ Ldr!Init /\ (subject # "loader" => coff = Ldr!Linked(1, 0, 0, 0, 0))
  /\ Hdr!Init /\ (subject # "headers" => ~tool /\ ~host /\ coffBytes = Hdr!Coff(6, 6, <<0>>))
  /\ Cpy!Init /\ (subject # "copy" => from = NoFile /\ to = NoFile /\ openf[0] = Cpy!NULL /\ copyPhase = "copy")
  /\ IF subject = "tests"
     THEN Lib!Init
     ELSE /\ Hsh!Init /\ Bit!Init /\ Lst!Init /\ (subject # "list" => sorted)
          /\ test = "" /\ script = <<>> /\ q = <<>> /\ failed = FALSE
  /\ Stk!Init /\ (subject # "stacks" => class = "ArrayStack" /\ client = "any")
  /\ Bot!Init /\ (subject # "boot" => line = <<>>)

\* Only the variables of s may change.
Only(s) ==
  /\ UNCHANGED subject
  /\ IF s = "spaces" THEN TRUE ELSE UNCHANGED spaceVars
  /\ IF s = "processes" THEN TRUE ELSE UNCHANGED procVars
  /\ IF s = "cpu" THEN TRUE ELSE UNCHANGED cpuVars
  /\ IF s = "registers" THEN TRUE ELSE UNCHANGED userVars
  /\ IF s = "loader" THEN TRUE ELSE UNCHANGED loadVars
  /\ IF s = "headers" THEN TRUE ELSE UNCHANGED headerVars
  /\ IF s = "files" THEN TRUE ELSE UNCHANGED fileVars
  /\ IF s = "filesys" THEN TRUE ELSE UNCHANGED fsVars
  /\ IF s = "copy" THEN TRUE ELSE UNCHANGED copyVars
  /\ IF s \in {"list", "tests"} THEN TRUE ELSE UNCHANGED listVars
  /\ IF s \in {"hash", "tests"} THEN TRUE ELSE UNCHANGED hashVars
  /\ IF s \in {"bitmap", "tests"} THEN TRUE ELSE UNCHANGED bitVars
  /\ IF s = "tests" THEN TRUE ELSE UNCHANGED testVars
  /\ IF s = "stacks" THEN TRUE ELSE UNCHANGED stackVars
  /\ IF s = "boot" THEN TRUE ELSE UNCHANGED bootVars

MCNext ==
  \/ subject = "spaces" /\ Next /\ Only("spaces")
  \/ subject = "processes" /\ Prc!Next /\ Only("processes")
  \/ subject = "cpu" /\ Cpu!Next /\ Only("cpu")
  \/ subject = "registers" /\ Usr!Next /\ Only("registers")
  \/ subject = "loader" /\ Ldr!Next /\ Only("loader")
  \/ subject = "headers" /\ Hdr!Next /\ Only("headers")
  \/ subject = "files" /\ Fls!Next /\ Only("files")
  \/ subject = "filesys" /\ Fsy!Next /\ Only("filesys")
  \/ subject = "copy" /\ Cpy!Next /\ Only("copy")
  \/ subject = "list" /\ Lst!Next /\ Only("list")
  \/ subject = "hash" /\ Hsh!Next /\ Only("hash")
  \/ subject = "bitmap" /\ Bit!Next /\ Only("bitmap")
  \/ subject = "tests" /\ Lib!Next /\ Only("tests")
  \/ subject = "stacks" /\ Stk!Next /\ Only("stacks")
  \/ subject = "boot" /\ Bot!Next /\ Only("boot")

MCSpec == MCInit /\ [][MCNext]_allVars

----------------------------------------------------------------------------
(* The properties of the components, each for its own subject; FramesOwned *)
(* and Isolation are those of AddrSpace.                                   *)

\* PTable: its bitmap marks exactly the slots with a PCB, the frames in use are
\* those of the address spaces and numwait is never negative, also when programs
\* join whom they like, twice, or not at all.
TablesMatch ==
  subject = "processes" => Prc!TypeOK /\ Prc!SlotsMatch /\ Prc!FramesAccounted

\* Machine::OneInstruction over every short program: LWL, LWR, SWL and SWR move a
\* word at any alignment, also across an interrupt and a pending load; MULT and
\* MULTU leave the double-length product; ADD, ADDI and SUB trap exactly when the
\* result does not fit; register 0 stays zero and values keep their width; and a
\* page that was changed is writable and marked used and dirty.
InstructionsExact ==
  subject = "cpu" =>
    /\ Cpu!TypeOK /\ Cpu!R0Zero
    /\ Cpu!UnalignedLoad /\ Cpu!UnalignedStore
    /\ Cpu!Product /\ Cpu!OverflowExact
    /\ Cpu!ChangesAreMarked

\* An instruction that raises an exception has changed nothing that matters, so
\* that it can be run again.
Restartable == Cpu!Restartable

\* A user program finds its registers as it left them, whatever calls it made and
\* slept in and whoever ran meanwhile.
RegistersKept == subject = "registers" => Usr!RegistersKept

\* coff2noff and AddrSpace::Load give a program with one data segment its linked
\* image and write to its own frames only; the header says the same on hosts of
\* either byte order.
ImageLoaded ==
  /\ subject = "loader" => Ldr!ImageLoaded /\ Ldr!InsideFrames
  /\ subject = "headers" => Hdr!HeaderPortable

\* For sizes of any sign, a file call does what userprog/syscall.h promises (module
\* Files) or departs from it in one of the ways that FileTable names; the kernel
\* and UNIX agree on the position of every open file, up to the one byte of a size
\* -1; a process has a file open at most once; and ids 0 and 1 never mean anything
\* but the console.
FilesExact ==
  /\ [][subject = "files" => Fls!F!Next \/ Fls!Departs]_(Fls!F!vars)
  /\ [](subject = "files" => Fls!OffsetsAgree /\ Fls!OpenOnce /\ Fls!ConsoleStays)

\* Between operations the free map marks exactly the sectors that the headers and
\* files of the directory use, each once.
Consistent == subject = "filesys" => Fsy!Consistent

\* An operation, also one that stops halfway, leaves the other files alone, and a
\* directory entry leads to a header at every moment; Copy and Print of main.cc
\* change no file that was there and use no open file that was deleted.
OthersKept ==
  /\ subject = "filesys" => Fsy!OthersKept /\ Fsy!HeadersFirst
  /\ subject = "copy" => Cpy!TransferSafe

\* OpenFile::WriteAt changes the bytes it names and no others.
WriteExact == subject = "filesys" => Fsy!WriteExact

\* Whatever the sequence of calls, lists hold what was put in and not taken out,
\* in order; a hash table grows in time, and its iterator gives every item once;
\* the words of a Bitmap represent the marked bits; both stacks are stacks; and
\* the SanityChecks and self tests of the library pass.
ContainersExact ==
  /\ subject = "list" => Lst!HoldsExpected /\ Lst!SanityCheck
  /\ subject = "hash" => Hsh!SanityCheck /\ Hsh!LoadBound /\ Hsh!IteratesAll
  /\ subject = "bitmap" => Bit!Represents
  /\ subject = "tests" => Lib!SelfTestsPass
  /\ subject = "stacks" => Stk!LastInFirstOut

\* No constructor, handler or destructor uses a part of the kernel that does not
\* exist, unless a ctl-C comes while Halt is deleting it; and the two scans of the
\* command line recognise what was given.
BuiltBeforeUsed == subject = "boot" => Bot!BuiltBeforeUsed /\ Bot!OptionsRead
=============================================================================
