-------------------------------- MODULE Boot --------------------------------
(***************************************************************************)
(* From the command line to the end of the machine: main (threads/main.cc) *)
(* and the constructor of Kernel scan the same arguments, each for its own *)
(* options; Kernel::Initialize builds the parts of the kernel, of which    *)
(* some use others at once; main does what was asked for, in a fixed       *)
(* order; Halt, or ctl-C, deletes the kernel, part by part.                *)
(*                                                                         *)
(* Words are the options, as the code spells them, and operands.  What a   *)
(* test or a program does is in other modules: here it returns or not.     *)
(***************************************************************************)
EXTENDS Integers, SequencesExt, FiniteSets

CONSTANTS Stub,        \* FILESYS_STUB
          Lines        \* the command lines, as sequences of options

\* The options of main and those of the kernel, with their numbers of operands.
\* Both know -u.
MainOptions ==
  [o \in {"-d", "-x", "-z", "-K", "-C", "-N", "-u"}
         \cup (IF Stub THEN {} ELSE {"-cp", "-p", "-r", "-l", "-D"}) |->
     IF o \in {"-d", "-x", "-p", "-r"} THEN 1 ELSE IF o = "-cp" THEN 2 ELSE 0]
KernelOptions ==
  [o \in {"-rs", "-s", "-ci", "-co", "-n", "-m", "-u"} \cup (IF Stub THEN {} ELSE {"-f"}) |->
     IF o \in {"-rs", "-ci", "-co", "-n", "-m"} THEN 1 ELSE 0]

Operand == "word"
Operands(o) ==
  IF o \in DOMAIN MainOptions THEN MainOptions[o]
  ELSE IF o \in DOMAIN KernelOptions THEN KernelOptions[o] ELSE 0
Words(line) == FlattenSeq([k \in DOMAIN line |-> <<line[k]>> \o [j \in 1..Operands(line[k]) |-> Operand]])

\* The parts, in the order of Initialize.
Parts ==
  <<"currentThread", "stats", "interrupt", "scheduler", "alarm", "machine", "synchConsoleIn",
    "synchConsoleOut", "synchDisk", "gPhysPageBitMap", "addrLock", "pTab", "semTab",
    "fileSystem", "postOfficeIn", "postOfficeOut">>

\* The parts the constructor of a part uses: the timer, the console and the
\* network schedule their first poll, at a time of the statistics; the post
\* office forks its worker; the FileSystem that is not a stub waits for the disk
\* (Idle then serves the interrupts of the parts that exist).
Uses(part) ==
  CASE part \in {"alarm", "synchConsoleIn"} -> {"interrupt", "stats"}
    [] part = "postOfficeIn" -> {"interrupt", "stats", "scheduler", "currentThread"}
    [] part = "fileSystem" /\ ~Stub ->
         {"synchDisk", "interrupt", "stats", "scheduler", "currentThread"}
    [] OTHER -> {}

\* Mutant: a part is deleted in two places.
DeletedAgain ==
  <<"stats", "interrupt", "scheduler", "alarm", "machine", "synchConsoleIn", "synchConsoleOut",
    "synchDisk", "fileSystem", "synchDisk", "postOfficeIn", "postOfficeOut">>

\* Those that ~Kernel deletes, in its order.
Deleted ==
  <<"stats", "interrupt", "scheduler", "alarm", "machine", "synchConsoleIn", "synchConsoleOut",
    "synchDisk", "fileSystem", "postOfficeIn", "postOfficeOut">>

\* The parts that the destructor of a part uses.  They free what the part owns and
\* close files and sockets of UNIX: none goes through the kernel to another part.
\* ~Interrupt drops the pending interrupts and does not call them.
Frees(part) == {part}

VARIABLES
  line,      \* the options that were given
  argv, i,   \* their words, perhaps without the last, and the index of a scan
  phase,     \* "main", "kernel", "build", "work", "user", "end", "exited", "aborted"
  flags,     \* the options that were recognised
  built,     \* the parts that exist
  enabled,   \* interrupts are on
  caught,    \* ctl-C calls Cleanup
  done,      \* what main has done, in order
  left,      \* what ~Kernel has yet to delete
  deleter,   \* those who have called it: Halt, Cleanup
  misused    \* a part was used that does not exist

vars == <<line, argv, i, phase, flags, built, enabled, caught, done, left, deleter, misused>>

Init ==
  /\ line \in Lines
  /\ \/ argv = Words(line)
     \/ Words(line) # <<>> /\ Last(Words(line)) = Operand /\ argv = Front(Words(line))
  /\ i = 1
  /\ phase = "main"
  /\ flags = {}
  /\ built = <<>>
  /\ enabled = FALSE
  /\ caught = FALSE
  /\ done = <<>>
  /\ left = <<>>
  /\ deleter = {}
  /\ misused = FALSE

\* One round of a scan: an option of ours is noted, with its operands, which must
\* be there; any other word is passed over.
Scan(options) ==
  LET o == argv[i] IN
  IF o \in DOMAIN options
  THEN IF i + options[o] > Len(argv)
       THEN phase' = "aborted" /\ UNCHANGED <<i, flags>>
       ELSE i' = i + 1 + options[o] /\ flags' = flags \cup {o} /\ UNCHANGED phase
  ELSE i' = i + 1 /\ UNCHANGED <<flags, phase>>

\* main's loop over argv, and then new Kernel.
ScanMain ==
  /\ phase = "main"
  /\ IF i <= Len(argv) THEN Scan(MainOptions) ELSE phase' = "kernel" /\ i' = 1 /\ UNCHANGED flags
  /\ UNCHANGED <<line, argv, built, enabled, caught, done, left, deleter, misused>>

\* Kernel::Kernel, and then Initialize.
ScanKernel ==
  /\ phase = "kernel"
  /\ IF i <= Len(argv) THEN Scan(KernelOptions) ELSE phase' = "build" /\ UNCHANGED <<i, flags>>
  /\ UNCHANGED <<line, argv, built, enabled, caught, done, left, deleter, misused>>

\* Kernel::Initialize makes the next part,
Build ==
  /\ phase = "build"
  /\ Len(built) < Len(Parts)
  /\ LET part == Parts[Len(built) + 1] IN
       /\ built' = Append(built, part)
       /\ misused' = (misused \/ ~(Uses(part) \subseteq Range(built)))
  /\ UNCHANGED <<line, argv, i, phase, flags, enabled, caught, done, left, deleter>>

\* Mutant: interrupts are on when the parts that use them exist.
EnableEarly ==
  /\ phase = "build"
  /\ "scheduler" \in Range(built)
  /\ enabled' = TRUE
  /\ phase' = IF Len(built) = Len(Parts) THEN "work" ELSE phase
  /\ caught' = (Len(built) = Len(Parts))
  /\ UNCHANGED <<line, argv, i, flags, built, done, left, deleter, misused>>

\* and at last enables interrupts; main sets the handler of ctl-C.
Enable ==
  /\ phase = "build"
  /\ Len(built) = Len(Parts)
  /\ enabled' = TRUE
  /\ caught' = TRUE
  /\ phase' = "work"
  /\ UNCHANGED <<line, argv, i, flags, built, done, left, deleter, misused>>

\* A timer interrupt, and the switch to another thread: the postal worker.
\* Handler and worker use every part that may be.
Tick ==
  /\ enabled
  /\ phase \in {"build", "work", "user"}
  /\ misused' = (misused \/ Range(built) # Range(Parts))
  /\ UNCHANGED <<line, argv, i, phase, flags, built, enabled, caught, done, left, deleter>>

\* What main does for its options, in this order.
Work == <<"-K", "-C", "-N", "-r", "-cp", "-D", "-l", "-p", "-x">>
LeftToDo == SelectSeq(Work, LAMBDA o : o \in flags /\ o \notin Range(done))

\* ThreadSelfTest, ConsoleTest, NetworkTest, Remove, Copy, Print, List return;
Do ==
  /\ phase = "work"
  /\ LeftToDo # <<>>
  /\ Head(LeftToDo) # "-x"
  /\ done' = Append(done, Head(LeftToDo))
  /\ UNCHANGED <<line, argv, i, phase, flags, built, enabled, caught, left, deleter, misused>>

\* a user program is loaded and does not return to main, or cannot be loaded.
RunUserProgram(loaded) ==
  /\ phase = "work"
  /\ LeftToDo = <<"-x">>
  /\ done' = Append(done, "-x")
  /\ phase' = IF loaded THEN "user" ELSE "work"
  /\ UNCHANGED <<line, argv, i, flags, built, enabled, caught, left, deleter, misused>>

\* delete kernel: ~Kernel begins, wherever it may be already.
BeginDelete(who) == phase' = "end" /\ left' = Deleted /\ deleter' = deleter \cup {who}

\* Interrupt::Halt prints the statistics and deletes the kernel: main calls it at
\* the end, or a program does.
Halt ==
  /\ phase = "user" \/ (phase = "work" /\ LeftToDo = <<>>)
  /\ BeginDelete("Halt")
  /\ misused' = (misused \/ "stats" \notin Range(built))
  /\ UNCHANGED <<line, argv, i, flags, built, enabled, caught, done>>

\* Cleanup, on ctl-C, also while Halt is deleting the kernel.  Before the handler
\* is set the signal ends the process; while it runs, UNIX holds the signal back.
Cleanup ==
  /\ phase \notin {"exited", "aborted"}
  /\ "Cleanup" \notin deleter
  /\ IF caught THEN BeginDelete("Cleanup")
     ELSE phase' = "exited" /\ UNCHANGED <<left, deleter>>
  /\ UNCHANGED <<line, argv, i, flags, built, enabled, caught, done, misused>>

\* ~Kernel deletes the next part.  Simulated time stands still: no Tick.
Delete ==
  /\ phase = "end"
  /\ left # <<>>
  /\ misused' = (misused \/ ~(Frees(Head(left)) \subseteq Range(built)))
  /\ built' = SelectSeq(built, LAMBDA p : p # Head(left))
  /\ left' = Tail(left)
  /\ UNCHANGED <<line, argv, i, phase, flags, enabled, caught, done, deleter>>

\* Its last step is Exit(0).
Exit ==
  /\ phase = "end"
  /\ left = <<>>
  /\ phase' = "exited"
  /\ UNCHANGED <<line, argv, i, flags, built, enabled, caught, done, left, deleter, misused>>

Next ==
  \/ ScanMain \/ ScanKernel \/ Build \/ Enable \/ Tick \/ Do \/ Halt \/ Cleanup
  \/ Delete \/ Exit
  \/ \E loaded \in BOOLEAN : RunUserProgram(loaded)

Spec == Init /\ [][Next]_vars

----------------------------------------------------------------------------
\* No constructor, handler, thread or destructor uses a part of the kernel that
\* does not exist, whenever timer interrupts and ctl-C come, with one exception: a
\* ctl-C while Halt is deleting the kernel deletes it from the start again.  And a
\* kernel that exits by itself has deleted each part that ~Kernel names.
BuiltBeforeUsed ==
  /\ misused => deleter = {"Halt", "Cleanup"}
  /\ phase = "exited" /\ caught => Range(built) \cap Range(Deleted) = {}

\* Between them the two scans recognise the options that were given and nothing
\* else, although each passes over the options of the other, and refuse a line
\* that lacks an operand; and main has then done what the options ask for, in its
\* own order and not in theirs.
OptionsRead ==
  /\ phase \in {"build", "work", "user", "end"} =>
       /\ argv = Words(line)
       /\ flags = {o \in Range(line) : o \in DOMAIN MainOptions \cup DOMAIN KernelOptions}
  /\ phase = "aborted" => argv # Words(line)
  /\ phase = "user" => done = SelectSeq(Work, LAMBDA o : o \in Range(line))
=============================================================================
