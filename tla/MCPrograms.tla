---------------------------- MODULE MCPrograms ----------------------------
(***************************************************************************)
(* The components through which programs wait for one another, one after   *)
(* the other: the process table with programs that join each child exactly *)
(* once, the table of named semaphores, the faucet programs that use both, *)
(* and the kernel's own self tests.  Each behaviour picks a subject, and   *)
(* only the subject moves, under the fairness of its own module.           *)
(***************************************************************************)
EXTENDS ProcTable, Sequences, TLC

VARIABLES subject,
  mSemBitMap, semTable, value, queue, ret,
  file, fAvail, fWaiting, fPc, tests, a, i, answer, me, taken,
  at, left, testValue, list, locked, item, echoed, deleted

procVars == vars
semVars == <<mSemBitMap, semTable, value, queue, ret>>
faucetVars == <<file, fAvail, fWaiting, fPc, tests, a, i, answer, me, taken>>
testVars == <<at, left, testValue, list, locked, item, echoed, deleted>>
allVars == <<subject, procVars, semVars, faucetVars, testVars>>

CONSTANTS p1, p2, p3, x, y, z, NoSem, main, pipe

----------------------------------------------------------------------------
(* As in the kernel, the bitmap has twice the bits of the physical pages.  *)
(* The shell and two copies of "big" do not fit, and "huge" never does.    *)
MCPages == ("shell" :> 1) @@ ("big" :> 2) @@ ("huge" :> 3)

Smt == INSTANCE SemTable
       WITH Process <- {p1, p2, p3}, Name <- {x, y, z}, MaxSemaphore <- 2,
            InitialValue <- {0, 1}, MaxValue <- 2

(* Two tests of two students each, and one test of three, for two faucets: *)
(* each line holds the amounts of its students, of one digit to base 4.    *)
FaucetInputs ==
  { << <<<<1>>, <<2>>>>, <<<<3>>, <<1>>>> >>, << <<<<3>>, <<1>>, <<2>>>> >> }

Fct == INSTANCE Faucets
       WITH Main <- main, Pipe <- pipe, MaxStudents <- 3, Base <- 4, Inputs <- FaucetInputs,
            avail <- fAvail, waiting <- fWaiting, pc <- fPc

Tst == INSTANCE KernelTests WITH Loops <- 2, Rounds <- 3, Val <- 9, value <- testValue

----------------------------------------------------------------------------
\* An idle component stays in one of its initial states.
MCInit ==
  /\ subject \in {"processes", "semaphores", "faucets", "tests"}
  /\ Init /\ Smt!Init /\ Tst!Init
  /\ Fct!Init /\ (subject # "faucets" => Len(tests) = 1)

ProcMove(A) ==
  subject = "processes" /\ A /\ UNCHANGED <<subject, semVars, faucetVars, testVars>>
SemMove(A) ==
  subject = "semaphores" /\ A /\ UNCHANGED <<subject, procVars, faucetVars, testVars>>
FaucetMove(A) ==
  subject = "faucets" /\ A /\ UNCHANGED <<subject, procVars, semVars, testVars>>
TestMove(A) ==
  subject = "tests" /\ A /\ UNCHANGED <<subject, procVars, semVars, faucetVars>>

\* Programs on user semaphores may wait for ever, and the faucets and the tests come
\* to an end; the kernel with disciplined processes always has a step to take.
MayStop == subject # "processes" /\ UNCHANGED allVars

MCNext ==
  \/ ProcMove(Next) \/ SemMove(Smt!Next) \/ FaucetMove(Fct!Next) \/ TestMove(Tst!Next)
  \/ MayStop

MCSpec ==
  /\ MCInit
  /\ [][MCNext]_allVars
  /\ \A p \in Pid : WF_allVars(ProcMove(KernelStep(p)))
  /\ WF_allVars(FaucetMove(Fct!Next) \/ TestMove(Tst!Next))

----------------------------------------------------------------------------
(* The properties of the process table are checked under their own names;  *)
(* those of the other components, each for its own subject, are these.     *)

\* The table of semaphores implements module NamedSemaphores, and no two of its
\* slots have one name.
TableImplements ==
  Smt!ImplementsNamed /\ [](subject = "semaphores" => Smt!TypeOK /\ Smt!OneSemPerName)

\* No two of main_1, pipe and the students are inside one file, and two students
\* that hold a faucet hold different ones.
Exclusive == subject = "faucets" => Fct!Exclusive /\ Fct!NoSharing

\* main_1 writes for each student the faucet it used; while every amount has one
\* digit, a faucet that pipe counts as taken is held by a student.
AnswersRight == subject = "faucets" => Fct!AnswersRight /\ Fct!ReturnedIsFree

\* The self tests delete no semaphore or list that a helper may still use, and
\* every value comes back as it was sent.
TestsSound == subject = "tests" => Tst!TestsSound

\* Join and the Exit it waits for complete; main_1 ends, with every student served
\* and joined; and the self tests end.
ProgramsEnd ==
  /\ JoinCompletes
  /\ subject = "faucets" => Fct!MainEnds
  /\ subject = "tests" => Tst!TestsEnd
=============================================================================
