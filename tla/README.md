# A TLA+ model of the NachOS kernel

This directory specifies the operating system of this repository
(`project/nachos/NachOS-4.0`) in TLA+: the kernel, its simulated machine and
devices, the file system, the libraries, the tool that converts executables and
the user programs that exercise it all. TLC checks the specifications on small
instances, TLAPS proves part of them for every instance. Paths below are
relative to `project/nachos/NachOS-4.0/code`.

The build defines `FILESYS_STUB`, `RDATA` and `SIM_FIX` and has no TLB. The file
system on the simulated disk, which `FILESYS_STUB` leaves out of the build, is
modelled all the same, and the text below says where it is meant.

## The system and its modules

| module | what it models | where |
|---|---|---|
| `Threads` (promise: `CountingSemaphore`) | thread creation, Fork, Yield, Sleep, Finish, ready list, deferred deletion, Idle, semaphores | `threads/thread.cc`, `scheduler.cc`, `synch.cc` |
| `SynchList` (promise: `BlockingQueue`) | Lock, Condition, synchronised lists | `threads/synch.cc`, `synchlist.cc` |
| `ProcTable` | Exec, Join, Exit, Halt, the table of PCBs, the start of a process | `threads/ptable.cc`, `pcb.cc`, `userprog/ksyscall.h` |
| `SemTable` (promise: `NamedSemaphores`) | CreateSemaphore, Wait, Signal | `threads/stable.cc` |
| `FileTable` (promise: `Files`) | CreateFile, Open, Close, Read, Write, Seek of a process over UNIX files | `threads/pcb.cc`, `filesys/filesys.h`, `openfile.h` |
| `AddrSpace` | frames, page tables, translation, switch, release | `userprog/addrspace.cc`, `machine/translate.cc` |
| `Loader`, `ByteOrder` | coff2noff, then Load's copying of segments; the headers on hosts of either byte order | `../coff2noff`, `userprog/addrspace.cc` |
| `UserState` | user registers across system calls, exceptions and switches | `userprog/exception.cc`, `threads/thread.cc`, `scheduler.cc` |
| `Mips` | the processor: every instruction, delay slots, traps, page table | `machine/mipssim.cc`, `translate.cc` |
| `Interrupts` | simulated time, pending interrupts, timer, alarm, machine status | `machine/interrupt.cc`, `timer.cc`, `threads/alarm.cc` |
| `Console` | both console devices, SynchConsole, the console calls | `machine/console.cc`, `userprog/synchconsole.cc`, `ksyscall.h` |
| `SynchDisk` | the disk with its latency, and SynchDisk | `machine/disk.cc`, `filesys/synchdisk.cc` |
| `PostOffice` | network devices, postal worker, mailboxes, several machines | `machine/network.cc`, `network/post.cc` |
| `FileSystem` | Create, Remove, Open, ReadAt, WriteAt on the simulated disk, with crashes | `filesys/*.cc` |
| `Transfer` | Copy and Print of main | `threads/main.cc`, `filesys/filesys.cc` |
| `Boot` | command line, construction and deletion of the kernel, ctl-C | `threads/main.cc`, `kernel.cc` |
| `LinkedList`, `HashTable`, `WordBitmap`, `LibTest` | the library's containers and its self tests | `lib/` |
| `Stacks` | the array and list stacks of the C++ examples | `../c++example` |
| `KernelTests` | `Kernel::ThreadSelfTest` | `threads/thread.cc`, `synch.cc`, `synchlist.cc` |
| `Faucets` | the faucet programs main_1, pipe and student_1 | `test/` |

**How the parts meet.** A system call runs in the thread of its process
(`UserState`). It reaches the tables of processes, semaphores and files
(`ProcTable`, `SemTable`, `FileTable`) or a device (`Console`), and these block
the thread in semaphores. A component that uses another is built on what the
other is shown to promise. `ProcTable` runs on `CountingSemaphore`, which
`Threads` implements. The mailboxes of `PostOffice` are the queue `SynchList`
implements. `Faucets` uses counting semaphores as `NamedSemaphores` has them.
`LibTest` runs on the operations of the container modules. The kernel's queues
are sequences, which `LinkedList` represents.

**Where a thread can be preempted.** The machine is a simulated uniprocessor.
Time passes, and a time slice can end, only in `Interrupt::OneTick`. That is
called when interrupts are turned back on (the end of `P`, `V`, `Fork` and the
beginning of a thread) and after each user instruction. Kernel code between two
such points is atomic, and an action is the code between two of them. `Threads`
cuts once more at SWITCH. In `FileSystem` an action ends at each sector written,
since the machine may stop there.

A definition whose comment begins with "Mutant" is a plausible mistake in the
definition that follows it. It is not part of the specification, and shows that
a property depends on that definition.

### Notes on single modules

* `Threads`: `DeviceV` is a `V` from an interrupt handler. It may also come while
  the machine idles, and may wake the idling thread itself.
* `ProcTable`: a pid stands for its thread, as removal and `Finish` are one step.
  `machine = "corrupt"` is whatever follows the use of a null or deleted object,
  and ends the behaviour. `Disciplined` says whether programs join each child
  exactly once before they exit; `kids` is a history variable for it. In a child
  the comparison with the current thread's name is nondeterministic, since the
  code reads a deleted buffer. The processID of the main thread is never
  assigned in the code and is taken to be 0, as the code relies on.
* `UserState`: of the registers it keeps those the handler names. `view` is a
  history variable: what each program's registers would be if it ran alone.
* `Mips`: a state is a record and an instruction a function on records. A byte
  has 2 bits in the instance, so a word has 8 and the carries, sign bits and byte
  lanes stay. Division of the smallest number by -1 traps in the host and is
  left out.
* `Console`: ints of 3 bits and 2 digits, so overflow and the smallest number
  occur. EOF is the `char` -1, which an input byte may equal.
* `FileTable`: `up` falls when an assertion of `lib/sysdep.cc` fails or `new` throws.
  UNIX refuses a count of -1, and may refuse to create, open or write a file; it
  neither writes a part nor runs out of descriptors.
* `SynchDisk` and `Interrupts`: time is in ticks; what a property needs is the
  time still to go, so the clock itself is bounded or left out.
* `FileSystem`: the directory is a file of two sectors, and one entry straddles
  them. A name stands for its first `FileNameMaxLen` characters.
* `Transfer`: `FileSystem::Open` returns a slot of `openf` chosen by a counter,
  as in the code. See the run `copy`.
* `Boot`: what a test or a program does is in other modules; here it returns or
  does not.
* `Faucets`: file calls between two semaphore calls are one step, which the
  property `Exclusive` justifies. A text is the sequence of its numerals, a
  numeral the sequence of its digits.

## Runs

Four runs check what holds. Each has several subjects: a behaviour picks one in
its initial state, and only that one moves. The others stay in an initial state,
so that the instance is the sum of its subjects and not their product.

**`kernel`** (`MCThreads`, subjects threads and post; deadlock is checked, except
that clients of the post office end). Three threads, a mutex and a device
semaphore with values up to 2; two machines, of which one may halt, and a network
that loses packets.

* `OnePlace`, `CleanSwitch`: a thread is in exactly one place, and deferred
  deletion never meets a second finished thread or one in use.
* `NoLostWakeup`, `ImplementsSemaphore`: no sleeper stays beside an unclaimed
  unit, and the semaphores are counting semaphores.
* `ReadyRuns`, `FinishedReclaimed`, `UnitsAreTaken`: ready threads run, finished
  ones are deleted, units are taken.
* `SentInOrder`: the mails of one sender to one box arrive in order and once.
* `MailEnds`: Send returns, and NetworkTest ends if nothing is lost.

**`components`** (`MCComponents`, 15 subjects). Deadlock is not checked: programs
that join as they like may wait for each other for ever, and scripts end.

* `FramesOwned`, `Isolation`: three processes of up to 2 pages. A frame in use
  belongs to one page of one process, and a program reads what it stored.
* `TablesMatch`: slots, PCBs and frames agree for programs that join at will.
* `InstructionsExact`, `Restartable`: every op code, two instructions deep from 16
  register settings. Unaligned loads and stores move a word at any alignment,
  products and overflow are right, and an instruction that traps can be run again.
* `RegistersKept`: two processes and a kernel thread, calls that sleep, end a
  process or are unknown.
* `ImageLoaded`: sections that end inside a page, at its end and behind it;
  programs with one data segment get their linked image, on either byte order.
* `FilesExact`: two processes, four slots, up to four calls (of which the second
  process makes the first two at most), sizes of either sign. A call does what
  `userprog/syscall.h` promises (`Files`), or departs from it in a way that
  `FileTable!Departs` names and in no other. The kernel's position of a file is
  that of UNIX, or one less after a size of -1.
* `Consistent`, `OthersKept`, `WriteExact`: four operations on a disk of twelve
  sectors with a crash at any sector write. The free map matches the headers
  between operations, an operation that stops halfway leaves the other files
  alone, and a write changes the bytes it names. Copy and Print change no other
  file and use no open file that was deleted.
* `ContainersExact`: lists of up to 4 elements, tables that grow twice, a bitmap
  of three words, both stacks, and the self tests of `libtest.cc` in full.
* `BuiltBeforeUsed`: every command line of up to two options, ctl-C at any moment,
  also between two deletions of `~Kernel`. No part of the kernel is used before it
  is built or after it is deleted, with one exception that the property names: a
  ctl-C while `Halt` deletes the kernel deletes it again from the start. A
  kernel that exits through `~Kernel` has deleted all that this names.

**`devices`** (`MCDevices`, subjects synchronised list, console, disk,
interrupts). Deadlock is not checked, as all threads may wait in `RemoveFront`.

* `NoLostSignal`, `ImplementsQueue`: three threads; the list is a FIFO queue.
* `AssertionsHold`: the assertions of `Lock::Release`, both consoles, the disk,
  Idle and YieldOnReturn.
* `InOrder`, `NumbersExact`: two readers see the input once and in order; what
  ReadNum reads and PrintNum prints is right. For the smallest number, which has no
  negative, the property says what PrintNum prints instead: a minus sign and, for
  each digit, the character that lies as far below '0' as the digit lies above it.
* `OwnCompletion`, `LatencyExact`: a disk call returns after its own interrupt,
  which comes when the sector has passed the head.
* `NothingOverdue`, `StatusIsMine`: no interrupt that is due is left pending, and
  the shared status is that of the running thread.
* `CallsReturn`: every call returns, except a read under which the input ended.

**`programs`** (`MCPrograms`, subjects processes, semaphores, faucets, tests).
Deadlock is checked for processes; elsewhere all may be in Wait, and programs end.
Three slots for processes that join each child once, programs of which two
together fill the bitmap and one is too large for memory.

* `NoCorruption`, `Rendezvous`, `KeptUntilJoined`: no deleted PCB is used; Join
  reads the code of its own child, which stays until then.
* `TableImplements`: three processes, three names for two slots.
* `Exclusive`, `AnswersRight`: two lines of two students and one of three; no two
  programs are inside one file, no two students hold one faucet, and every
  student is given its answer.
* `TestsSound`: the self tests delete nothing a helper still uses.
* `ProgramsEnd`: Join and the Exit it waits for get through their rendezvous,
  main_1 and the self tests end.

Eight runs show where the code departs from what its comments say.

| run | property violated | what happens |
|---|---|---|
| `addrspace_frames` | `FramesExist` | the bitmap has 256 bits and memory 128 pages: frames that do not exist are given out |
| `processes_rejoin` | `NoneWaitingAtDelete` | a parent that joins a child twice may wait in a semaphore that is deleted |
| `processes_orphan` | `OnlyParentJoins` | a process can join an orphan of an earlier process with its pid |
| `processes_name` | `RefusedWithReason` | Exec by a child may be refused for no reason, its name being a deleted buffer |
| `semaphores_negative` | `WaitsUntilPositive` | Wait on a semaphore created with a negative value does not wait |
| `loader_layout` | `LoadedWhereLinked` | a program with both `.data` and `.rdata` finds neither where it was linked |
| `faucets` | `ReturnedIsFree` | a short request written over a longer one leaves its last digit, and a faucet stays taken |
| `copy` | `CopyExact` | `FileSystem::Open` returns a slot it never filled; Copy writes nothing (without `FILESYS_STUB`) |

More disagreements were met and have no run of their own:

* `numwait` stays above zero when a child exits before its parent joins.
* `Wait` and `Signal` return 1 where `ksyscall.h` promises the id.
* `WriteNum` of `test/fileutils.h` is wrong for a number with a zero followed by
  another digit.
* coff2noff's test that sections are contiguous is inverted, and its test of the
  output file looks at the input file.
* `network.h` and `post.h` call the chance to deliver a packet the chance to lose
  it. SendToSocket drops a packet after ten tries where its comment says it
  terminates.
* The usage line of main has `-nf` where the code reads `-f`.
* `Close` returns 0 where `syscall.h` says 1.
* `Read` returns the number of bytes it read and copies out only those up to the
  first zero byte. `Write` of a text with a zero byte inside writes uninitialised
  bytes behind it, where `syscall.h` says "size" bytes from "buffer".
* `Read` returns -2 at the end of a file and for a size of 0 where `syscall.h` says
  the number of bytes, and `Write` of nothing returns -1.
* A `Read` or `Write` of size -1 leaves the kernel's position one below that of UNIX
  (`openfile.h` adds the -1 it got). A `Seek` that then fails takes UNIX back by one,
  and any `Seek` ends the kernel if the position was 0. A smaller size ends the
  kernel at once, in `new char[size + 1]`.
* `PrintNum` of the smallest integer prints characters that are not digits, where
  the comment of `ksyscall.h` has the absolute value.
* ctl-C while `Halt` deletes the kernel deletes it twice.

**Bounds.** `MaxValue`, `MaxLen`, `MaxNumWait`, `MaxSteps`, `MaxCalls`, `MaxOps`
and `MaxTicks` cap counters in guards. Three slots let a parent, a child and a
grandchild coexist and a pid be reused. Three threads let one consumer wait, be
signalled and be overtaken by another. Four operations on files let one be
created, written, removed and its sectors or slot be reused. Two instructions
make a delay slot and a delayed load meet every other instruction; the longer
sequences the unaligned accesses need are run inside the property.

**Fairness.** `Threads` assumes that a thread that was switched in goes on, that
the loop of `Sleep` does, and that slices keep coming: the timer reschedules
itself and is never disabled while threads exist. Nothing is assumed about
devices there. `ProcTable` assumes weak fairness of each process's kernel steps,
which is what `ReadyRuns` and `UnitsAreTaken` give. `Console`, `SynchDisk` and
`PostOffice` assume it of the kernel and the devices, whose interrupts are
scheduled at a finite time. `Interrupts` assumes strong fairness of `OneTick`:
a handler in progress disables it for a while, but every user instruction and
every return to interrupts enabled makes a tick, so a thread that runs again and
again ticks again and again. In `Faucets` and `KernelTests`
something happens whenever something can. Nothing is assumed about system calls:
a program need not make one. Weak fairness does not promise a `P` under
contention its unit, since a newcomer may take it, and no property claims it.

## Proofs

Eight modules hold theorems and their lemmas. A component's inductive invariant
is proved first, one step per action, and the properties are derived from it.
A module may hold a second component's proofs as an `INSTANCE`; a section of
the module then says so.

**`ThreadsProofs`**: for any threads and semaphores, `TypeOK`, `OnePlace`,
`CleanSwitch`, `NoLostWakeup` and that `Threads` implements `CountingSemaphore`.
The invariant `Structure` is `TypeOK`, `OnePlace`, `CleanSwitch` and
`ControlState`. `ControlState` ties where a thread is in the code to its status;
without it a switch could resume a thread that is queued elsewhere.
`NoLostWakeup` is inductive relative to `Structure`, and the refinement needs
`Structure` alone.

**`SynchListProofs`**: for any finite set of threads and any items,
`HolderReleases` (the assertion of `Lock::Release`), `NoLostSignal` and that
`SynchList` implements `BlockingQueue`. The invariant `Structure` says that the
lock excludes, where a thread may wait, and that a thread is on the condition's
queue at most once. Each `Wait` therefore gets one signal, and a waiter's
semaphore stays at 0 or 1. `NoLostSignal` compares the items with the consumers
coming for them. Its proof is an induction over steps on the sizes of these
sets.

The same module has two more components.

* `KernelTests`, for any number of rounds: `TestsSound`. The invariant `TestInv`
  says where the ball of each ping-pong is: with main, in `ping`, with the helper
  or in `pong`, and how many rounds each side has left. Only then can it be said
  that the helper is past its last use when main deletes.
* `SemTable`, for any processes, names and slots: `TypeOK` and `OneSemPerName`
  (no name has two slots, so every `Wait` and `Signal` reaches the semaphore that
  was created). With initial values that are not negative, `SemTable` implements
  `NamedSemaphores`. The run `semaphores_negative` shows why that hypothesis is
  needed.

**`ProcTableProofs`**: for any table size, programs, page counts and exit codes, `NoCorruption`, `Rendezvous`, `SlotsMatch` and
`KeptUntilJoined`. The hypothesis is `Disciplined`: programs join each child
exactly once before they exit. It cannot be dropped, as the runs
`processes_rejoin` and `processes_orphan` show. The invariant `Structure`
follows a child from `ExecCreate` to `ExitRelease`. A child that was not joined
has no unit in its `exitsem`. A joined one is past its last use of anything of
its parent's. `joinsem` has a unit only after the child has set its exit code.

**`FileTableProofs`**: for any processes, files, buffers, sizes of either sign and
table size of at least 2, `OffsetsAgree`, `ConsoleStays` and `OpenOnce`
(`FilesSafe`), and `ImplementsFiles` (`FilesRefined`): each call is a step of
`Files`, which is what `syscall.h` promises, or one of four departures. `Close`
returns 0, a `Read` is cut at a zero byte, a `Write` is garbled behind one, and a
`Seek` that fails after a size of -1 moves back by one. The invariant adds that
UNIX has the file of every handle. The position that `Files` sees is that of UNIX.
`Read` and `Write` begin with `GetCurrentPos`, so the slip of a size -1 is gone
before the next one, and the kernel's position is never more than one off. A text
without a zero byte before its last is copied whole in both directions, which is
why only the two departures about zero bytes are needed. A `Read` or `Write` of no
bytes, which returns a negative code, counts as a call that fails. With sizes that are not
negative, `OffsetsAgree` is equality and the last departure is empty.

**`FileSystemProofs`**: for a disk of any size with room for the system's
sectors, any directory and any files, `Consistent`, `OthersKept`, `HeadersFirst`
and `WriteExact` (`FileSystemSafe`), with a crash after any sector write. The
state of the disk between two writes satisfies no simple predicate, so the
invariant `FsInv` looks back. There is a disk `d` that was good, a list `w` of
the writes of one operation and a number `k` of them done, and the disk is `d`
after these. `Good(d)` says that files own sectors apart from each other and
from the system's, that names differ, and that the free map is exact.
`Safe(d, w, n)` says that any number of the writes leaves the files other than
`n` and all headers in place, and that all of them leave a good disk. `CreateSafe`,
`RemoveSafe` and `WriteSafe` prove it of each operation. Two points took
strengthening. An entry lies across the two sectors of the directory, so a crash
between them leaves a mixed directory (`DirMixed`). And `Remove` leaves the name
in its entry, so a live file with that name must come before it, as `Add` takes
the first free entry.

**`PostOfficeProofs`**: for any machines, clients, boxes and scripts, `OneSend`,
`SignalMatches` and `SentInOrder` (`PostSafe`), with packets lost and machines
halting. The invariant says who holds `sendLock`, that a packet on its way out
or the signal for it has a client waiting, that a signal to the worker stands
for one packet in the device, and that every mail under way is of a call its
client has passed. The last is what makes the next mail sent the latest.

**`DeviceProofs`**: two devices.

* `Interrupts`, for any threads, delays and tick lengths: `NothingOverdue`,
  `TimerPending`, `StatusIsMine`, `YieldsThreads` and `SleepersAwaited` (a thread
  waits for a device exactly while one interrupt of that device is pending). The
  list of pending interrupts needs lemmas of its own: `Schedule` inserts into a
  sorted list, so the result is sorted and has one more entry. They rest on two
  facts: a nonempty set of naturals has a least element, and an index set closed
  downwards is an initial segment. The invariant `TimeStructure` adds that a
  thread preempted in `OneTick` remembers its own mode in `oldStatus`.
* `SynchDisk`, for any threads, disk size and latencies: `OneRequest` (the
  assertion of `Disk`) and `OwnCompletion`. `DiskStructure` says that a thread
  waiting for the drive has an interrupt or a signal coming, never both.

**`AddrSpaceProofs`**: for any processes, frames and page counts, `TypeOK`,
`FramesOwned`, `OwnTable` and `Isolation`. The invariant adds that a space's
page table and its stored values have the same length, that spaces not loaded
have empty page tables, and that only the current thread can have just freed
its space.

The same module has two more components.

* `UserState`: `RegistersKept` for any processes, kernel threads, calls and
  instructions (`KeepsRegisters`). The invariant adds that a process that has
  begun has an address space, without which a switch would not save its
  registers, and that a program inside a call was not in a delay slot, so that
  the return may take pc + 4 for the next instruction.
* `Console`: `BufferFree`, `PutIdle` and `InOrder` for any threads, calls and
  input (`ConsoleSafe`). The invariant has a side for each device: one thread at
  a time holds its lock, and an interrupt is pending only while there is no
  signal. A poll of the input is pending only when all that was handed over has
  been delivered; that keeps the order, also past the end of the input.

**Assumptions.** `ThreadsAssumption`, `SynchListAssumption`,
`ProcTableAssumption` and `AddrSpaceAssumption` are named in the modules, and TLC
evaluates them. The other components have their hypothesis in the proof module
(`Setting`, `SemSetting`, `Typed`), and the instances TLC checks satisfy it. For
`Interrupts` it says that ticks are natural numbers and that nothing is scheduled
for now, which `Interrupt::Schedule` asserts. For `FileSystem` it says that the
disk has more than four sectors and that an entry lies across the two sectors of
the directory. For `PostOffice` it says that a client answers only after it has
received. For the others it gives the types of the constants, and that the
model's NULLs are nothing else.

Some theorems name a property that a run checks as part of a conjunction.
`AssertionsHold` has `HolderReleases`, `OneRequest`, `TimerPending` and
`YieldsThreads`. `TablesMatch` has `SlotsMatch`, there for programs that join at
will. `TableImplements` has `ImplementsNamed` and `OneSemPerName`, `FilesExact`
has what `FileTableProofs` proves. `SentInOrder`, `InOrder`, `TestsSound`,
`Consistent`, `OthersKept`, `WriteExact` and `RegistersKept` of the runs are the
properties of that name of one subject.

**What stays with TLC.**

* Liveness and fairness: `ReadyRuns`, `FinishedReclaimed`, `UnitsAreTaken`,
  `MailEnds`, `ProgramsEnd`, `CallsReturn`. The prover does not reach them.
* What recursive or bitwise definitions compute: `Mips`, `Loader`, `ByteOrder`,
  `WordBitmap`, `LinkedList`, `Faucets`, and the numbers of `Console`
  (`NumbersExact`). What they compute takes an induction over data.
* `LatencyExact`, whose formula divides and takes remainders by constants. That
  is not linear arithmetic, and the provers do not decide it.
* `FramesAccounted` of `ProcTable`, a sum over a set by a fold, whose value takes
  an induction the prover cannot instantiate.
* `HashTable`, `Transfer`, `Boot`, `Stacks` and `LibTest`, which have no proofs.

## Not modelled

* The register switch (`threads/switch.S`), assembly for five hosts: it is one
  step of `Threads` and `UserState`.
* The TLB, the debugger and the printing of instructions; statistics and debug
  flags, which are only printed.
* The parts of `lib/sysdep.cc` that no component's behaviour rests on: memory
  with guard pages, random numbers, exit. `CheckOverflow` of stacks only asserts.
* `Condition::Broadcast`, which has no caller, and `Apply` of the lists.
* The earlier user programs `main.c`, `student.c`, `ping.c`, `pong.c` and the
  shell: they make the calls of `ProcTable` and `SemTable` in simpler patterns.
* `stack.cc` and `templatestack.cc` of the C++ examples, the same array stack as
  in `inheritstack.cc`.
