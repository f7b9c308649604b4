----------------------------- MODULE MCDevices -----------------------------
(***************************************************************************)
(* The components of one machine whose threads wait for one another or for *)
(* a device, one after the other: each behaviour picks a subject, and only *)
(* the subject moves, under the fairness of its own module.                *)
(***************************************************************************)
EXTENDS SynchList

VARIABLES subject,
  rest, incoming, inInt, putBusy, cAvail, cWaiting, cPc, call, loc, calls, input, delivered,
  totalTicks, lastSector, bufferInit, active, due, dAvail, dWaiting, dPc, last,
  pending, status, inHandler, yieldOnReturn, current, mode, parked, oldStatus

listVars == vars
conVars == <<rest, incoming, inInt, putBusy, cAvail, cWaiting, cPc, call, loc, calls, input,
             delivered>>
diskVars == <<totalTicks, lastSector, bufferInit, active, due, dAvail, dWaiting, dPc, last>>
intVars == <<pending, status, inHandler, yieldOnReturn, current, mode, parked, oldStatus>>
allVars == <<subject, listVars, conVars, diskVars, intVars>>

CONSTANTS t1, t2

----------------------------------------------------------------------------
(* Two digits and ints of three bits; the characters are numbered as in    *)
(* Console: 3 is the sign, 4 and 5 are blanks, 6 is '\001', -1 the end.    *)
ConInputs == {<<5, 3, 1, 0, 5, 1, 4>>, <<3, 4, -1, 1, 4>>, <<1, 6, 4>>}
ConCall ==
  {<<"ReadNum", 0>>, <<"ReadChar", 0>>, <<"ReadString", 2>>, <<"Read", 2>>,
   <<"PrintString", <<1, -2, 1>> >>, <<"Write", <<1>> >>}
  \cup {<<"PrintNum", n>> : n \in {-4, -3, 0, 2}}

Con == INSTANCE Console
       WITH Thread <- {t1, t2}, Base <- 2, IntBits <- 3, MaxCalls <- 2,
            Inputs <- ConInputs, Call <- ConCall,
            avail <- cAvail, waiting <- cWaiting, pc <- cPc

Dsk == INSTANCE SynchDisk
       WITH Thread <- {t1, t2}, SectorsPerTrack <- 3, NumTracks <- 2, SeekTime <- 3,
            RotationTime <- 2, MaxTicks <- 12,
            avail <- dAvail, waiting <- dWaiting, pc <- dPc

Itr == INSTANCE Interrupts
       WITH Thread <- {t1, t2}, Main <- t1, SystemTick <- 2, UserTick <- 1,
            TimerDelays <- {1, 3, 4}, PollTime <- 3, IoTimes <- {2, 5}

----------------------------------------------------------------------------
\* An idle component stays in one of its initial states.
MCInit ==
  /\ subject \in {"synchlist", "console", "disk", "interrupts"}
  /\ Init /\ Dsk!Init
  /\ Con!Init /\ (subject # "console" => input = <<1, 6, 4>>)
  /\ Itr!Init /\ (subject # "interrupts" => Head(pending).left = 1)

ListMove(A) ==
  subject = "synchlist" /\ A /\ UNCHANGED <<subject, conVars, diskVars, intVars>>
ConMove(A) ==
  subject = "console" /\ A /\ UNCHANGED <<subject, listVars, diskVars, intVars>>
DiskMove(A) ==
  subject = "disk" /\ A /\ UNCHANGED <<subject, listVars, conVars, intVars>>
IntMove(A) ==
  subject = "interrupts" /\ A /\ UNCHANGED <<subject, listVars, conVars, diskVars>>

MCNext == ListMove(Next) \/ ConMove(Con!Next) \/ DiskMove(Dsk!Next) \/ IntMove(Itr!Next)

MCSpec ==
  /\ MCInit
  /\ [][MCNext]_allVars
  /\ WF_allVars(ConMove(Con!Progress) \/ DiskMove(Dsk!Progress) \/ IntMove(Itr!Kernel))
  /\ SF_allVars(IntMove(Itr!OneTick))

----------------------------------------------------------------------------
(* The properties of the components, each for its own subject.             *)

\* Every assertion of this code holds: the thread that releases the lock of a
\* synchronised list holds it; ConsoleInput::CallBack finds no character in its
\* buffer; ConsoleOutput::PutChar and the requests of Disk find no operation under
\* way; Idle finds an interrupt, since the timer is pending exactly once; and only
\* a handler that interrupted a thread asks for a yield.
AssertionsHold ==
  /\ subject = "synchlist" => TypeOK /\ HolderReleases
  /\ subject = "console" => Con!TypeOK /\ Con!BufferFree /\ Con!PutIdle
  /\ subject = "disk" => Dsk!OneRequest
  /\ subject = "interrupts" => Itr!TimerPending /\ Itr!YieldsThreads

\* The readers together see the input once and in order.
InOrder == subject = "console" => Con!InOrder

\* SysReadNum returns the number its characters stand for, and what SysPrintNum
\* printed reads back as the same number; only of the least int the digits come
\* out negated.
NumbersExact == subject = "console" => Con!ReadNumRight /\ Con!PrintNumReads

\* A SynchDisk call returns after its own interrupt.
OwnCompletion == subject = "disk" => Dsk!OwnCompletion

\* Disk::ComputeLatency is the time until the sector has passed the head.
LatencyExact == subject = "disk" => Dsk!LatencyExact

\* CheckIfDue leaves no interrupt that is due, looking at the front only.
NothingOverdue == subject = "interrupts" => Itr!NothingOverdue

\* The shared status is that of the running thread.
StatusIsMine == subject = "interrupts" => Itr!StatusIsMine

\* Every print call and every disk request returns; a read call returns unless the
\* input has ended under it; a thread that waits for a device is woken.
CallsReturn ==
  /\ subject = "console" => Con!PrintReturns /\ Con!ReadReturns
  /\ subject = "disk" => Dsk!RequestReturns
  /\ subject = "interrupts" => Itr!Answered
=============================================================================
