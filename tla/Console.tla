------------------------------ MODULE Console ------------------------------
(***************************************************************************)
(* The console: the devices of machine/console.cc with their call-backs,   *)
(* SynchConsoleInput and SynchConsoleOutput (userprog/synchconsole.cc),    *)
(* and the system calls that read and print through them                   *)
(* (userprog/ksyscall.h, and PCB::Read and PCB::Write on ids 0 and 1).     *)
(*                                                                         *)
(* A character is an integer: the digits are 0..Base-1, the others lie     *)
(* above, so that '0' + r is r and a wrong digit is a character of no      *)
(* meaning.  EOF is the char -1; the byte 0xFF of an input reads the same. *)
(***************************************************************************)
EXTENDS Integers, Sequences

CONSTANTS Thread,    \* the processes that make console calls
          Inputs,    \* the inputs a user may type, each a sequence
          Call,      \* the calls, as <<operation, argument>>
          Base,      \* 10
          IntBits,   \* 32
          MaxCalls   \* bound: calls made

Minus == Base + 1
Space == Base + 2
Newline == Base + 3
Ctrl == Base + 4      \* '\001'
EOF == -1
Nul == -2             \* '\0', which ends a string

Wrap(x) == ((x + 2^(IntBits - 1)) % 2^IntBits) - 2^(IntBits - 1)
MinInt == -(2^(IntBits - 1))
isDigit(c) == c \in 0..(Base - 1)

VARIABLES
  rest,      \* the input the host has not yet handed over
  incoming,  \* ConsoleInput::incoming
  inInt,     \* a ConsoleReadInt is pending
  putBusy,   \* ConsoleOutput::putBusy; a ConsoleWriteInt is pending
  avail,     \* the semaphores of the two synchronous consoles
  waiting,
  pc,        \* where each thread is
  call,      \* its system call
  loc,       \* the local variables of the call
  calls,
  input,     \* history: the whole input
  delivered  \* history: what GetChar has returned, in order

vars == <<rest, incoming, inInt, putBusy, avail, waiting, pc, call, loc, calls,
          input, delivered>>

KSem == {"inLock", "inWait", "outLock", "outWait"}

S == INSTANCE CountingSemaphore
     WITH Sem <- KSem,
          InitialValue <- [s \in KSem |-> IF s \in {"inLock", "outLock"} THEN 1 ELSE 0]

NoLoc == [phase |-> "skip", num |-> 0, isSign |-> FALSE, isInteger |-> TRUE,
          buffer |-> <<>>, got |-> <<>>, todo |-> <<>>]

TypeOK ==
  /\ incoming \in Int
  /\ {inInt, putBusy} \subseteq BOOLEAN
  /\ avail \in [KSem -> 0..1]
  /\ pc \in [Thread -> {"user", "get", "locked", "char", "put", "printing",
                         "printed", "done"}]
  /\ \A t \in Thread : loc[t].num \in MinInt..(-MinInt - 1)
  /\ calls \in 0..MaxCalls

\* The devices' constructors: the first poll is scheduled at once.
ConsoleInput == rest = input /\ incoming = EOF /\ inInt = TRUE
ConsoleOutput == putBusy = FALSE

Init ==
  /\ input \in Inputs
  /\ ConsoleInput /\ ConsoleOutput
  /\ S!Init
  /\ pc = [t \in Thread |-> "user"]
  /\ call = [t \in Thread |-> <<"none", 0>>]
  /\ loc = [t \in Thread |-> NoLoc]
  /\ calls = 0
  /\ delivered = <<>>

At(t, l) == pc[t] = l /\ ~S!IsWaiting(t)
Goto(t, l) == pc' = [pc EXCEPT ![t] = l]
P(t, s, l) == (S!Take(t, s) \/ S!Wait(t, s)) /\ Goto(t, l)
device == <<rest, incoming, inInt, putBusy>>

Wake(t, s) ==
  S!Grant(t, s) /\ UNCHANGED <<device, pc, call, loc, calls, input, delivered>>

----------------------------------------------------------------------------
(* The system calls: what they print, and what they do with a character.   *)

\* The loop of SysPrintNum: C's % keeps the sign, so op1 < 0 (only the least
\* int, whose negation is itself) gives digits that are no digits.
Digits[op1 \in Int] ==
  LET q == IF op1 < 0 THEN -((-op1) \div Base) ELSE op1 \div Base
  IN  IF op1 = 0 THEN <<>> ELSE Append(Digits[q], op1 - q * Base)

\* Mutant: no case of its own for zero.
PrintNumNoZero(op1) ==
  IF op1 < 0 THEN <<Minus>> \o Digits[Wrap(-op1)] ELSE Digits[op1]

SysPrintNum(op1) ==
  IF op1 = 0 THEN <<0>>
  ELSE IF op1 < 0 THEN <<Minus>> \o Digits[Wrap(-op1)] ELSE Digits[op1]

\* The characters before the first one at which the loop stops.
Until(s, stops) ==
  LET k == CHOOSE i \in 0..Len(s) :
             /\ \A j \in 1..i : s[j] \notin stops
             /\ i < Len(s) => s[i + 1] \in stops
  IN  SubSeq(s, 1, k)

\* What each printing call puts out.  PCB::Write ends the line itself.
Output(c) ==
  CASE c[1] = "PrintChar" -> <<c[2]>>
    [] c[1] = "PrintNum" -> SysPrintNum(c[2])
    [] c[1] = "PrintString" -> Until(c[2], {Nul})
    [] c[1] = "Write" -> Append(Until(c[2], {Nul, Newline}), Newline)

Blank(c) == c \in {Space, Newline}

\* Mutant: a number wider than an int.
DigitWide(l, c) ==
  [l EXCEPT !.phase = "body", !.isInteger = @ /\ isDigit(c),
            !.num = IF isDigit(c) THEN @ * Base + c ELSE @]

Digit(l, c) ==
  [l EXCEPT !.phase = "body", !.isInteger = @ /\ isDigit(c),
            !.num = IF isDigit(c) THEN Wrap(@ * Base + c) ELSE @]

\* Mutant: the sign is forgotten.
EndedPositive(l) == [l EXCEPT !.phase = "end", !.num = IF l.isInteger THEN @ ELSE 0]

Ended(l) ==
  [l EXCEPT !.phase = "end",
            !.num = IF ~l.isInteger THEN 0 ELSE IF l.isSign THEN Wrap(-@) ELSE @]

\* SysReadNum after one more character: skip blanks, an optional sign, the
\* body up to the next blank.
FeedNum(l, c) ==
  CASE l.phase = "skip" -> IF Blank(c) THEN l
                           ELSE IF c = Minus
                                THEN [l EXCEPT !.phase = "sign", !.isSign = TRUE]
                           ELSE Digit(l, c)
    [] l.phase = "sign" -> IF Blank(c) THEN [l EXCEPT !.phase = "end", !.num = 0]
                           ELSE Digit(l, c)
    [] l.phase = "body" -> IF Blank(c) THEN Ended(l) ELSE Digit(l, c)

\* SysReadString, and readString in PCB::Read, which does not stop at '\001'.
FeedString(l, c, len, stops) ==
  IF c = EOF THEN l
  ELSE IF c \in stops THEN [l EXCEPT !.phase = "end"]
  ELSE [l EXCEPT !.buffer = Append(@, c),
                 !.phase = IF Len(l.buffer) + 1 = len THEN "end" ELSE @]

Feed(c, l, ch) ==
  LET g == [l EXCEPT !.got = Append(@, ch)]
  IN  CASE c[1] = "ReadNum" -> FeedNum(g, ch)
        [] c[1] = "ReadString" -> FeedString(g, ch, c[2], {Ctrl, Newline})
        [] c[1] = "Read" -> FeedString(g, ch, c[2], {Newline})
        [] c[1] = "ReadChar" -> [g EXCEPT !.phase = "end"]

----------------------------------------------------------------------------
Prints(c) == c[1] \in {"PrintChar", "PrintNum", "PrintString", "Write"}

\* A system call comes in.  A string of no characters is not printed, a buffer
\* of no length is not read into.
CallConsole(t, c) ==
  /\ At(t, "user") \/ At(t, "done")
  /\ calls < MaxCalls
  /\ calls' = calls + 1
  /\ call' = [call EXCEPT ![t] = c]
  /\ IF Prints(c)
     THEN /\ loc' = [loc EXCEPT ![t] = [NoLoc EXCEPT !.todo = Output(c)]]
          /\ Goto(t, IF Output(c) = <<>> THEN "done" ELSE "put")
     ELSE /\ loc' = [loc EXCEPT ![t] = NoLoc]
          /\ Goto(t, IF c[1] \in {"Read", "ReadString"} /\ c[2] = 0
                     THEN "done" ELSE "get")
  /\ UNCHANGED <<device, avail, waiting, input, delivered>>

\* SynchConsoleInput::GetChar: lock->Acquire, then waitFor->P.
GetAcquire(t) ==
  /\ At(t, "get")
  /\ P(t, "inLock", "locked")
  /\ UNCHANGED <<device, call, loc, calls, input, delivered>>

GetWait(t) ==
  /\ At(t, "locked")
  /\ P(t, "inWait", "char")
  /\ UNCHANGED <<device, call, loc, calls, input, delivered>>

\* Mutant: ConsoleInput::GetChar that leaves the character in the buffer.
DeviceGetKept ==
  /\ inInt' = (inInt \/ incoming # EOF)
  /\ UNCHANGED <<incoming, rest, putBusy>>

\* ConsoleInput::GetChar: the next poll is scheduled unless this was EOF.
DeviceGet ==
  /\ inInt' = (inInt \/ incoming # EOF)
  /\ incoming' = EOF
  /\ UNCHANGED <<rest, putBusy>>

\* The device's GetChar, lock->Release, and the call's use of the character.
GetRelease(t) ==
  /\ At(t, "char")
  /\ DeviceGet
  /\ delivered' = Append(delivered, incoming)
  /\ loc' = [loc EXCEPT ![t] = Feed(call[t], @, incoming)]
  /\ S!Release("inLock")
  /\ Goto(t, IF Feed(call[t], loc[t], incoming).phase = "end" THEN "done" ELSE "get")
  /\ UNCHANGED <<call, calls, input>>

\* Mutant: SynchConsoleOutput::PutChar without its lock.
PutAcquireUnlocked(t) ==
  /\ At(t, "put")
  /\ Goto(t, "printing")
  /\ UNCHANGED <<device, avail, waiting, call, loc, calls, input, delivered>>

\* SynchConsoleOutput::PutChar: lock->Acquire.
PutAcquire(t) ==
  /\ At(t, "put")
  /\ P(t, "outLock", "printing")
  /\ UNCHANGED <<device, call, loc, calls, input, delivered>>

\* ConsoleOutput::PutChar (its assertion is PutIdle), then waitFor->P.
PutDevice(t) ==
  /\ At(t, "printing")
  /\ putBusy' = TRUE
  /\ P(t, "outWait", "printed")
  /\ UNCHANGED <<rest, incoming, inInt, call, loc, calls, input, delivered>>

\* lock->Release, and on to the next character of the call.
PutRelease(t) ==
  /\ At(t, "printed")
  /\ S!Release("outLock")
  /\ loc' = [loc EXCEPT ![t].todo = Tail(@), ![t].got = Append(@, Head(loc[t].todo))]
  /\ Goto(t, IF Len(loc[t].todo) = 1 THEN "done" ELSE "put")
  /\ UNCHANGED <<device, call, calls, input, delivered>>

\* SynchConsoleInput::CallBack and SynchConsoleOutput::CallBack.
InputCallBack == S!Release("inWait")
OutputCallBack == S!Release("outWait")

\* Mutant: no signal at end of input.
ReadIntSilent ==
  /\ inInt
  /\ inInt' = FALSE
  /\ IF rest = <<>> THEN UNCHANGED <<rest, incoming, avail, waiting>>
     ELSE rest' = Tail(rest) /\ incoming' = Head(rest) /\ InputCallBack
  /\ UNCHANGED <<putBusy, pc, call, loc, calls, input, delivered>>

\* ConsoleInput::CallBack once PollFile finds something (before, it only polls
\* again): a character, or the end of the input, after which nothing is
\* scheduled.
ReadInt ==
  /\ inInt
  /\ inInt' = FALSE
  /\ rest' = IF rest = <<>> THEN rest ELSE Tail(rest)
  /\ incoming' = IF rest = <<>> THEN incoming ELSE Head(rest)
  /\ InputCallBack
  /\ UNCHANGED <<putBusy, pc, call, loc, calls, input, delivered>>

\* Mutant: the waiting thread is not signalled.
WriteIntSilent ==
  /\ putBusy
  /\ putBusy' = FALSE
  /\ UNCHANGED <<rest, incoming, inInt, avail, waiting, pc, call, loc, calls, input,
                 delivered>>

\* ConsoleOutput::CallBack.
WriteInt ==
  /\ putBusy
  /\ putBusy' = FALSE
  /\ OutputCallBack
  /\ UNCHANGED <<rest, incoming, inInt, pc, call, loc, calls, input, delivered>>

Step(t) ==
  \/ \E s \in KSem : Wake(t, s)
  \/ GetAcquire(t) \/ GetWait(t) \/ GetRelease(t)
  \/ PutAcquire(t) \/ PutDevice(t) \/ PutRelease(t)

Next == \/ \E t \in Thread : Step(t) \/ \E c \in Call : CallConsole(t, c)
        \/ ReadInt \/ WriteInt

\* Threads run (Threads!ReadyRuns) and pending interrupts are taken.  For the
\* input this says that the user goes on typing or ends the input.
Progress == (\E t \in Thread : Step(t)) \/ ReadInt \/ WriteInt
Fairness == WF_vars(Progress)

Spec == Init /\ [][Next]_vars
FairSpec == Spec /\ Fairness

----------------------------------------------------------------------------
\* ConsoleInput::CallBack's assertion: when the interrupt comes, the buffer is
\* empty, so no character is overwritten before a reader took it.
BufferFree == inInt => incoming = EOF

\* ConsoleOutput::PutChar's assertion: the lock and the call-back keep a second
\* character away from a busy device.
PutIdle == \A t \in Thread : At(t, "printing") => ~putBusy

\* The readers together see the input, each character once and in order, however
\* their calls interleave: of the characters that the host has handed over all but
\* perhaps the last, which the device holds, were delivered; an EOF is the last
\* thing that is delivered, where the input ends or at a byte that reads as EOF.
InOrder ==
  LET read == Len(input) - Len(rest)
      seen == Len(delivered)
  IN  /\ rest = SubSeq(input, read + 1, Len(input))
      /\ IF seen = read - 1 THEN incoming = input[read] ELSE seen >= read /\ incoming = EOF
      /\ \A i \in 1..seen : delivered[i] = IF i > read THEN EOF ELSE input[i]
      /\ \A i \in 1..(seen - 1) : delivered[i] # EOF

\* The number a run of characters stands for: blanks, an optional sign, digits
\* and a blank, modulo the size of an int; anything else stands for 0.
Numeral(s) ==
  LET n[k \in 0..Len(s)] == IF k = 0 THEN 0 ELSE n[k - 1] * Base + s[k]
  IN  n[Len(s)]
Meant(s) ==
  LET body == SelectSeq(s, LAMBDA c : ~Blank(c))
      neg == body # <<>> /\ body[1] = Minus
      ds == IF neg THEN Tail(body) ELSE body
  IN  IF ds = <<>> \/ \E i \in DOMAIN ds : ~isDigit(ds[i]) THEN 0
      ELSE Wrap(IF neg THEN -Numeral(ds) ELSE Numeral(ds))

\* ReadNum returns the number its characters stand for and has taken no
\* character after the blank that ends it.
ReadNumRight ==
  \A t \in Thread :
    At(t, "done") /\ call[t][1] = "ReadNum" =>
      /\ loc[t].num = Meant(loc[t].got)
      /\ Blank(loc[t].got[Len(loc[t].got)])
      /\ \E i \in 1..Len(loc[t].got) : ~Blank(loc[t].got[i])

\* What PrintNum has printed reads back as the same number, for every int but the
\* least.  That one SysPrintNum gets wrong, as its negation is itself: the sign
\* comes out right, and every digit d as the character d places before '0'.
PrintNumReads ==
  \A t \in Thread :
    At(t, "done") /\ call[t][1] = "PrintNum" =>
      LET out == loc[t].got
          negated == [k \in 1..(Len(out) - 1) |-> -out[k + 1]]
      IN  IF call[t][2] # MinInt
          THEN out # <<>> /\ Meant(out) = call[t][2]
          ELSE /\ out[1] = Minus
               /\ \A k \in DOMAIN negated : isDigit(negated[k])
               /\ -Numeral(negated) = MinInt

\* A print call returns: the device signals every character it was given.
PrintReturns ==
  \A t \in Thread : pc[t] \in {"put", "printing", "printed"} ~> pc[t] = "done"

\* Nothing more comes from the console after a reader was given an EOF: no
\* interrupt is pending and no signal is left.
Dry == ~inInt /\ avail["inWait"] = 0 /\ incoming = EOF
       /\ \E k \in DOMAIN delivered : delivered[k] = EOF

\* A read call returns or the input has dried up under it; and once it has, a
\* read call waits for ever (no poll is scheduled after an EOF).
ReadReturns ==
  \A t \in Thread :
    /\ pc[t] \in {"get", "locked", "char"} ~> (pc[t] = "done" \/ Dry)
    /\ [](Dry => [](pc[t] \in {"get", "locked"} => [](pc[t] # "done")))
=============================================================================
