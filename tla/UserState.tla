----------------------------- MODULE UserState -----------------------------
(***************************************************************************)
(* The registers of user programs: one set in the machine, a copy in each  *)
(* thread, exchanged by Scheduler::Run; the programs, which enter the      *)
(* kernel through ExceptionHandler (userprog/exception.cc); and the        *)
(* handler, which sleeps in the middle of a call and stores the result and *)
(* the new program counter when other programs have used the registers.    *)
(*                                                                         *)
(* Of the NumTotalRegs registers the model keeps those that                *)
(* ExceptionHandler and InitRegisters name.  What a call does apart from   *)
(* them is in modules ProcTable, SemTable, FileTable and Console.          *)
(***************************************************************************)
EXTENDS Integers

CONSTANTS Process,       \* threads that run a user program
          KernelThread,  \* threads without one, such as the postal worker
          Main,          \* the process that runs first
          Pid,           \* Pid[p]: Thread::processID
          Calls,         \* the calls and exceptions of the programs
          WordSize,      \* the number of values of a register
          Code,          \* the addresses of instructions
          StackTop,      \* numPages * PageSize - 16
          MaxSteps       \* bound on instructions and calls

Thread == Process \cup KernelThread
Word == 0..(WordSize - 1)

\* The calls that sleep, or may be switched out, before they return; those of
\* them that store no result; those that end the machine; an unknown number.
Results == {"ReadNum", "ReadChar", "RandomNum", "CreateFile", "Open", "Close", "Exec", "Join",
            "CreateSemaphore", "Wait", "Signal", "Read", "Write", "Seek"}
NoResults == {"PrintNum", "PrintChar", "ReadString", "PrintString"}
NotImplemented == {"Create", "ThreadFork", "ThreadYield", "ExecV", "ThreadExit", "ThreadJoin",
                   "Remove"}
Exceptions == {"PageFault", "ReadOnly", "BusError", "AddressError", "Overflow", "IllegalInstr",
               "NumExceptionTypes"}

VARIABLES
  reg,       \* Machine::registers
  saved,     \* saved[t]: Thread::userRegisters
  current,   \* kernel->currentThread
  space,     \* the threads with an address space
  doing,     \* doing[t]: "new", "user", the call it is in, "finished"
  asleep,    \* the threads that wait for an event
  machine,   \* "on", "halted" or "aborted"
  steps,
  view       \* history: the registers as the program of t must see them

vars == <<reg, saved, current, space, doing, asleep, machine, steps, view>>

ZeroRegisters == [r2 |-> 0, r4 |-> 0, r5 |-> 0, sp |-> 0, prevPC |-> 0, pc |-> 0, nextPC |-> 0]

\* AddrSpace::InitRegisters.
InitRegisters == [ZeroRegisters EXCEPT !.nextPC = 4, !.sp = StackTop]

\* Mutant: the next program counter is left alone.
IncreasePCOnly(r) == [r EXCEPT !.prevPC = r.pc, !.pc = r.pc + 4]

IncreasePC(r) == [r EXCEPT !.prevPC = r.pc, !.pc = r.pc + 4, !.nextPC = r.pc + 8]

SysAdd(op1, op2) == (op1 + op2) % WordSize

Init ==
  /\ reg = ZeroRegisters
  /\ saved = [t \in Thread |-> ZeroRegisters]
  /\ current = Main
  /\ space = {}
  /\ doing = [t \in Thread |-> IF t \in Process THEN "new" ELSE "kernel"]
  /\ asleep = {}
  /\ machine = "on"
  /\ steps = 0
  /\ view = [t \in Thread |-> ZeroRegisters]

Runs(t) == machine = "on" /\ current = t /\ t \notin asleep
Does(t, w) == doing' = [doing EXCEPT ![t] = w]
Sees(t, r) == view' = [view EXCEPT ![t] = r]
Counted == steps < MaxSteps /\ steps' = steps + 1

\* AddrSpace::Execute.
Execute(t) ==
  /\ Runs(t)
  /\ doing[t] = "new"
  /\ space' = space \cup {t}
  /\ reg' = InitRegisters
  /\ Sees(t, InitRegisters)
  /\ Does(t, "user")
  /\ UNCHANGED <<saved, current, asleep, machine, steps>>

\* Machine::OneInstruction: some registers get values, and control goes on at
\* once or, after the delay slot, somewhere else.
Step(r, x, target) ==
  [r EXCEPT !.r2 = x, !.r4 = x, !.r5 = x, !.prevPC = r.pc, !.pc = r.nextPC, !.nextPC = target]
Instruction(t, x, target) ==
  /\ Runs(t)
  /\ doing[t] = "user"
  /\ target \in {reg.nextPC + 4} \cup Code
  /\ Counted
  /\ reg' = Step(reg, x, target)
  /\ Sees(t, Step(view[t], x, target))
  /\ UNCHANGED <<saved, current, space, doing, asleep, machine>>

\* Machine::RaiseException: programs make no system call in a delay slot.
Raises(t) == Runs(t) /\ doing[t] = "user" /\ reg.nextPC = reg.pc + 4 /\ Counted

\* What the program expects of a call: it goes on behind it, with result v.
Behind(r, v) == [r EXCEPT !.r2 = v, !.prevPC = r.pc, !.pc = r.nextPC, !.nextPC = r.nextPC + 4]

\* SC_Add and SC_GetPID are over before anything else can run.
Add(t) ==
  /\ Raises(t)
  /\ reg' = IncreasePC([reg EXCEPT !.r2 = SysAdd(reg.r4, reg.r5)])
  /\ Sees(t, Behind(view[t], (view[t].r4 + view[t].r5) % WordSize))
  /\ UNCHANGED <<saved, current, space, doing, asleep, machine>>

GetPID(t) ==
  /\ Raises(t)
  /\ reg' = IncreasePC([reg EXCEPT !.r2 = Pid[current]])
  /\ Sees(t, Behind(view[t], Pid[t]))
  /\ UNCHANGED <<saved, current, space, doing, asleep, machine>>

\* The other calls; c stays in doing[t] until it returns.
ExceptionHandler(t, c) ==
  /\ Raises(t)
  /\ c \in Results \cup NoResults \cup {"Exit"}
  /\ Does(t, c)
  /\ UNCHANGED <<reg, saved, current, space, asleep, machine, view>>

\* SC_Halt, a call without implementation, an exception: the machine halts.
SysHalt(t, c) ==
  /\ Raises(t)
  /\ c \in {"Halt"} \cup NotImplemented \cup Exceptions
  /\ machine' = "halted"
  /\ UNCHANGED <<reg, saved, current, space, doing, asleep, view>>

\* A number that is none of these reaches ASSERTNOTREACHED.
Unexpected(t) ==
  /\ Raises(t)
  /\ machine' = "aborted"
  /\ UNCHANGED <<reg, saved, current, space, doing, asleep, view>>

\* A call stores its result, if it has one, and the new program counter.
Return(t, v) ==
  /\ Runs(t)
  /\ doing[t] \in Results \cup NoResults
  /\ doing[t] \in NoResults => v = view[t].r2
  /\ reg' = IncreasePC(IF doing[t] \in Results THEN [reg EXCEPT !.r2 = v] ELSE reg)
  /\ Sees(t, Behind(view[t], v))
  /\ Does(t, "user")
  /\ UNCHANGED <<saved, current, space, asleep, machine, steps>>

\* SysExit does not return: FreeSpace, and Finish, whose Sleep is for ever.
SysExit(t) ==
  /\ Runs(t)
  /\ doing[t] = "Exit"
  /\ Does(t, "finished")
  /\ asleep' = asleep \cup {t}
  /\ UNCHANGED <<reg, saved, current, space, machine, steps, view>>

\* A call waits for an event,
Sleep(t) ==
  /\ Runs(t)
  /\ doing[t] \in Results \cup NoResults \cup {"Exit", "kernel"}
  /\ asleep' = asleep \cup {t}
  /\ UNCHANGED <<reg, saved, current, space, doing, machine, steps, view>>

\* which an interrupt or another thread reports.
Wake(t) ==
  /\ machine = "on"
  /\ t \in asleep
  /\ doing[t] # "finished"
  /\ asleep' = asleep \ {t}
  /\ UNCHANGED <<reg, saved, current, space, doing, machine, steps, view>>

\* Thread::SaveUserState and Thread::RestoreUserState.
SaveUserState(t) == saved' = [saved EXCEPT ![t] = reg]
RestoreUserState(t) == reg' = saved[t]

\* Mutant: the registers are saved only if the next thread needs them too.
RunLazy(u) ==
  /\ machine = "on"
  /\ u \notin asleep \cup {current}
  /\ current' = u
  /\ IF {current, u} \subseteq space THEN SaveUserState(current) ELSE UNCHANGED saved
  /\ IF u \in space THEN RestoreUserState(u) ELSE UNCHANGED reg
  /\ UNCHANGED <<space, doing, asleep, machine, steps, view>>

\* Scheduler::Run, for a thread that sleeps, yields, or is made to yield by the
\* timer: it saves the registers of a thread with a program, and when that
\* thread runs again it restores them.
Run(u) ==
  /\ machine = "on"
  /\ u \notin asleep \cup {current}
  /\ current' = u
  /\ IF current \in space THEN SaveUserState(current) ELSE UNCHANGED saved
  /\ IF u \in space THEN RestoreUserState(u) ELSE UNCHANGED reg
  /\ UNCHANGED <<space, doing, asleep, machine, steps, view>>

Next ==
  \/ \E t \in Process :
       \/ Execute(t)
       \/ \E x \in Word, target \in Code \cup {reg.nextPC + 4} : Instruction(t, x, target)
       \/ Add(t) \/ GetPID(t) \/ Unexpected(t) \/ SysExit(t)
       \/ \E c \in Calls : ExceptionHandler(t, c) \/ SysHalt(t, c)
       \/ \E v \in Word : Return(t, v)
  \/ \E t \in Thread : Sleep(t) \/ Wake(t) \/ Run(t)

Spec == Init /\ [][Next]_vars

----------------------------------------------------------------------------
\* A program finds its registers as it left them, and behind a system call the
\* result of its own call and the next instruction, whatever ran while it was
\* switched out or asleep in the kernel.
RegistersKept ==
  \A t \in space : view[t] = IF current = t THEN reg ELSE saved[t]
=============================================================================
