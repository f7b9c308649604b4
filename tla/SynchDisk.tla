----------------------------- MODULE SynchDisk -----------------------------
(***************************************************************************)
(* The disk (machine/disk.cc) and its synchronous face                     *)
(* (filesys/synchdisk.cc): one request at a time, an interrupt when the    *)
(* head and the platter of the simulated drive would be done.              *)
(***************************************************************************)
EXTENDS Integers, FiniteSets

CONSTANTS Thread,           \* the threads that do disk I/O
          SectorsPerTrack, NumTracks,
          SeekTime,         \* ticks to move the head by one track
          RotationTime,     \* ticks for one sector to pass the head
          MaxTicks          \* bound: requests are made up to this time

NumSectors == SectorsPerTrack * NumTracks
Sector == 0..(NumSectors - 1)

VARIABLES
  totalTicks,  \* kernel->stats->totalTicks
  lastSector, bufferInit, active,  \* of class Disk
  due,         \* when the pending DiskInt is scheduled
  avail,       \* SynchDisk::lock and SynchDisk::semaphore
  waiting,
  pc,
  last         \* history: the request under way, its time and its latency

vars == <<totalTicks, lastSector, bufferInit, active, due, avail, waiting, pc, last>>

S == INSTANCE CountingSemaphore
     WITH Sem <- {"lock", "semaphore"},
          InitialValue <- [s \in {"lock", "semaphore"} |-> IF s = "lock" THEN 1 ELSE 0]

NoRequest == [at |-> 0, sector |-> 0, from |-> 0, writing |-> FALSE,
              buffered |-> 0, latency |-> 0]

Disk ==
  /\ lastSector = 0
  /\ bufferInit = 0
  /\ active = FALSE
  /\ due = 0

\* SynchDisk::SynchDisk.
Init ==
  /\ totalTicks = 0
  /\ Disk
  /\ S!Init
  /\ pc = [t \in Thread |-> "user"]
  /\ last = NoRequest

----------------------------------------------------------------------------
Abs(x) == IF x < 0 THEN -x ELSE x
Track(s) == s \div SectorsPerTrack

\* Disk::TimeToSeek: <<seek, rotation>>.
TimeToSeek(new) ==
  LET seek == Abs(Track(new) - Track(lastSector)) * SeekTime
      over == (totalTicks + seek) % RotationTime
  IN  <<seek, IF over > 0 THEN RotationTime - over ELSE 0>>

ModuloDiff(to, from) ==
  (((to % SectorsPerTrack) - (from % SectorsPerTrack)) + SectorsPerTrack)
    % SectorsPerTrack

\* Mutant: a sector the head is about to reach counts as buffered.
LatencyEager(new, writing) ==
  LET tts == TimeToSeek(new)
      timeAfter == totalTicks + tts[1] + tts[2]
  IN  IF /\ ~writing
         /\ tts[1] = 0
         /\ (timeAfter - bufferInit) \div RotationTime
              >= ModuloDiff(new, bufferInit \div RotationTime)
      THEN RotationTime
      ELSE tts[1] + tts[2] + RotationTime
           + ModuloDiff(new, timeAfter \div RotationTime) * RotationTime

ComputeLatency(new, writing) ==
  LET tts == TimeToSeek(new)
      timeAfter == totalTicks + tts[1] + tts[2]
  IN  IF /\ ~writing
         /\ tts[1] = 0
         /\ (timeAfter - bufferInit) \div RotationTime
              > ModuloDiff(new, bufferInit \div RotationTime)
      THEN RotationTime
      ELSE tts[1] + tts[2] + RotationTime
           + ModuloDiff(new, timeAfter \div RotationTime) * RotationTime

UpdateLast(new) ==
  LET tts == TimeToSeek(new)
  IN  /\ bufferInit' = IF tts[1] # 0 THEN totalTicks + tts[1] + tts[2] ELSE bufferInit
      /\ lastSector' = new

----------------------------------------------------------------------------
At(t, l) == pc[t] = l /\ ~S!IsWaiting(t)
Goto(t, l) == pc' = [pc EXCEPT ![t] = l]
P(t, s, l) == (S!Take(t, s) \/ S!Wait(t, s)) /\ Goto(t, l)
drive == <<totalTicks, lastSector, bufferInit, active, due, last>>

Wake(t, s) == S!Grant(t, s) /\ UNCHANGED <<drive, pc>>

\* Mutant: no lock around a request.
AcquireNothing(t) ==
  /\ At(t, "user")
  /\ totalTicks < MaxTicks
  /\ Goto(t, "request")
  /\ UNCHANGED <<drive, avail, waiting>>

\* ReadSector or WriteSector: lock->Acquire.
Acquire(t) ==
  /\ At(t, "user")
  /\ totalTicks < MaxTicks
  /\ P(t, "lock", "request")
  /\ UNCHANGED drive

\* Disk::ReadRequest or WriteRequest (its assertion is OneRequest), and the P.
Request(t, new, writing) ==
  /\ At(t, "request")
  /\ last' = [at |-> totalTicks, sector |-> new, from |-> lastSector,
              writing |-> writing, buffered |-> bufferInit,
              latency |-> ComputeLatency(new, writing)]
  /\ active' = TRUE
  /\ UpdateLast(new)
  /\ due' = totalTicks + ComputeLatency(new, writing)
  /\ P(t, "semaphore", "served")
  /\ UNCHANGED totalTicks

ReadSector(t, new) == Request(t, new, FALSE)
WriteSector(t, new) == Request(t, new, TRUE)

\* Mutant: the lock is kept.
ReleaseNothing(t) ==
  /\ At(t, "served")
  /\ Goto(t, "user")
  /\ last' = NoRequest
  /\ UNCHANGED <<totalTicks, lastSector, bufferInit, active, due, avail, waiting>>

\* lock->Release, and the call returns.
Release(t) ==
  /\ At(t, "served")
  /\ S!Release("lock")
  /\ Goto(t, "user")
  /\ last' = NoRequest
  /\ UNCHANGED <<totalTicks, lastSector, bufferInit, active, due>>

\* SynchDisk::CallBack.
CallBack == S!Release("semaphore")

\* Mutant: the drive still counts as active when it signals.
DiskIntBusy ==
  /\ active
  /\ totalTicks >= due
  /\ CallBack
  /\ active' = TRUE
  /\ due' = MaxTicks + totalTicks
  /\ UNCHANGED <<totalTicks, lastSector, bufferInit, pc, last>>

\* Disk::CallBack.
DiskInt ==
  /\ active
  /\ totalTicks >= due
  /\ active' = FALSE
  /\ due' = 0
  /\ CallBack
  /\ UNCHANGED <<totalTicks, lastSector, bufferInit, pc, last>>

\* Time passes; an interrupt that is due comes first (Interrupts!NothingOverdue).
Tick ==
  /\ IF active THEN totalTicks < due ELSE totalTicks < MaxTicks
  /\ totalTicks' = totalTicks + 1
  /\ UNCHANGED <<lastSector, bufferInit, active, due, avail, waiting, pc, last>>

Step(t) ==
  \/ \E s \in {"lock", "semaphore"} : Wake(t, s)
  \/ \E new \in Sector : ReadSector(t, new) \/ WriteSector(t, new)
  \/ Release(t)

Next == \/ \E t \in Thread : Step(t) \/ Acquire(t)
        \/ DiskInt \/ Tick

\* Threads run, time goes on, and a due interrupt is taken.
Progress == (\E t \in Thread : Step(t)) \/ DiskInt \/ Tick
Fairness == WF_vars(Progress)
Spec == Init /\ [][Next]_vars
FairSpec == Spec /\ Fairness

----------------------------------------------------------------------------
\* The assertion of ReadRequest and WriteRequest: no thread reaches the drive
\* while a request is under way, whoever waits for the lock.
OneRequest == \A t \in Thread : At(t, "request") => ~active

\* A call returns after its own interrupt, not after an earlier one: when a
\* thread has passed the semaphore the drive is at rest and no signal is left.
OwnCompletion ==
  \A t \in Thread : At(t, "served") => ~active /\ avail["semaphore"] = 0

\* The drive as a thing in time: sector s passes the head from x on.
Passes(s, x) == x % RotationTime = 0
                /\ (x \div RotationTime) % SectorsPerTrack = s % SectorsPerTrack

\* ComputeLatency is the time until the sector has passed the head completely,
\* the seek first; or one transfer time if it is read and has come by since the
\* head is on its track.
LatencyExact ==
  LET seek == Abs(Track(last.sector) - Track(last.from)) * SeekTime
      inBuffer == /\ ~last.writing
                  /\ seek = 0
                  /\ \E x \in last.buffered..(last.at - 1) : Passes(last.sector, x)
      end == last.at + last.latency
  IN  last.latency > 0 =>
        IF inBuffer THEN last.latency = RotationTime
        ELSE /\ end - RotationTime >= last.at + seek
             /\ Passes(last.sector, end - RotationTime)
             /\ \A x \in (last.at + seek)..(end - RotationTime - 1) :
                  ~Passes(last.sector, x)

\* Every request is answered.
RequestReturns == \A t \in Thread : pc[t] = "request" ~> pc[t] = "user"
=============================================================================
