------------------------------ MODULE Faucets ------------------------------
(***************************************************************************)
(* The user programs of the water faucet exercise: test/main_1.c starts    *)
(* the faucet server test/pipe.c and, for every line of input.txt, one     *)
(* test/student_1.c per number of the line; they talk through small files  *)
(* and semaphores.  test/fileutils.h reads and writes their numbers.       *)
(*                                                                         *)
(* A run of file calls between two semaphore calls is one step: Exclusive  *)
(* is what makes that sound.  A text is the sequence of its numerals, a    *)
(* numeral the sequence of its digits.  Semaphores, Exec and Join do what  *)
(* their specifications say (SemTable, ProcTable); no call of the kernel   *)
(* fails.                                                                  *)
(***************************************************************************)
EXTENDS Integers, Sequences, FiniteSets

CONSTANTS Main, Pipe,      \* the two processes that are not students
          MaxStudents,     \* bound: numbers on a line of input.txt
          Base,            \* the radix of the numerals (10 in the code)
          Inputs           \* the possible contents of input.txt, line by line

Student == 0..(MaxStudents - 1)
Proc == Student \cup {Main, Pipe}
Faucet == 0..1
SemName == {"open_water", "faucet", "file_mutex", "request_water", "pipe_mutex",
            "output_mutex"}

VARIABLES
  file,              \* the contents of the shared files
  avail, waiting,    \* the semaphores
  pc,
  tests, a, i,       \* main_1: the lines of input.txt left, a line, an index
  answer,            \* main_1: the faucet of each student
  me,                \* student_1: studentId, value and faucetId
  taken              \* pipe: faucet[]

vars == <<file, avail, waiting, pc, tests, a, i, answer, me, taken>>

S == INSTANCE CountingSemaphore
     WITH Thread <- Proc, Sem <- SemName,
          InitialValue <- [s \in SemName |->
                             CASE s = "faucet" -> 2
                               [] s \in {"open_water", "request_water"} -> 0
                               [] OTHER -> 1]

----------------------------------------------------------------------------
(* fileutils.h.                                                            *)

RECURSIVE countdigit(_), firstDigit(_), pow10(_), WriteDigits(_, _), Number(_)

countdigit(n) == IF n >= Base THEN 1 + countdigit(n \div Base) ELSE 1
firstDigit(n) == IF n >= Base THEN firstDigit(n \div Base) ELSE n
pow10(k) == IF k = 0 THEN 1 ELSE Base * pow10(k - 1)

\* The loop of WriteNum, with count - i digits to go.
WriteDigits(num, togo) ==
  IF togo = 0
  THEN <<>>
  ELSE <<firstDigit(num)>>
       \o WriteDigits(num - firstDigit(num) * pow10(togo - 1), togo - 1)

WriteNum(num) == WriteDigits(num, countdigit(num))

isDigit(c) == c \in 0..(Base - 1)

Number(digits) ==
  IF digits = <<>> THEN 0
  ELSE Number(SubSeq(digits, 1, Len(digits) - 1)) * Base + digits[Len(digits)]

\* ReadInt: a numeral with a character that is no digit counts as 0.
ReadInt(digits) ==
  IF \A k \in DOMAIN digits : isDigit(digits[k]) THEN Number(digits) ELSE 0

Pair(x, y) == <<WriteNum(x), WriteNum(y)>>

\* Two numerals written over a text without CreateFile: the first has the
\* length of the old first one, so the tail of the old second one stays.
Overwritten(old, new) ==
  <<new[1], new[2] \o SubSeq(old[2], Len(new[2]) + 1, Len(old[2]))>>

----------------------------------------------------------------------------
At(p, l) == pc[p] = l /\ ~S!IsWaiting(p)
Goto(p, l) == pc' = [pc EXCEPT ![p] = l]
WaitFor(p, s, l) == (S!Take(p, s) \/ S!Wait(p, s)) /\ Goto(p, l)
sems == <<avail, waiting>>
mains == <<tests, a, i, answer>>

Nobody == [id |-> 0, value |-> 0, faucet |-> 0]

Init ==
  /\ file = [f \in {"student", "request", "faucet", "result"} |-> <<>>]
  /\ S!Init
  /\ pc = [p \in Proc |-> CASE p = Main -> "test"
                            [] p = Pipe -> "ready"
                            [] OTHER -> "unborn"]
  /\ tests \in Inputs
  /\ a = <<>>
  /\ i = 0
  /\ answer = <<>>
  /\ me = [s \in Student |-> Nobody]
  /\ taken = [f \in Faucet |-> FALSE]

\* main_1: the numbers of the next line, and CreateFile("result.txt") in solve.
ReadLine ==
  /\ At(Main, "test")
  /\ a' = [k \in DOMAIN Head(tests) |-> ReadInt(Head(tests)[k])]
  /\ tests' = Tail(tests)
  /\ Goto(Main, "next")
  /\ file' = [file EXCEPT !["result"] = <<>>]
  /\ UNCHANGED <<sems, i, answer, me, taken>>

MainWait ==
  /\ At(Main, "next")
  /\ i < Len(a)
  /\ WaitFor(Main, "file_mutex", "exec")
  /\ UNCHANGED <<file, mains, me, taken>>

\* student.txt for student i, and Exec("student_1").
ExecStudent ==
  /\ At(Main, "exec")
  /\ file' = [file EXCEPT !["student"] = Pair(i, a[i + 1])]
  /\ pc' = [pc EXCEPT ![Main] = "next", ![i] = "start"]
  /\ i' = i + 1
  /\ UNCHANGED <<sems, tests, a, answer, me, taken>>

\* Every Join has returned; result.txt is read into answer.
Collect ==
  /\ At(Main, "next")
  /\ i = Len(a)
  /\ \A s \in 0..(i - 1) : pc[s] = "exited"
  /\ answer' = [k \in 1..i |->
       LET result == file["result"]
           mine(l) == ReadInt(result[l][1]) = k - 1
       IN  IF \E l \in 1..i : mine(l)
           THEN ReadInt(result[CHOOSE l \in 1..i : mine(l)][2]) ELSE 0]
  /\ Goto(Main, "report")
  /\ UNCHANGED <<file, sems, tests, a, i, me, taken>>

\* The answers are written, solve returns and the next test begins.
Report ==
  /\ At(Main, "report")
  /\ pc' = [p \in Proc |-> CASE p = Main -> IF tests = <<>> THEN "done" ELSE "test"
                             [] p = Pipe -> pc[Pipe]
                             [] OTHER -> "unborn"]
  /\ a' = <<>>
  /\ i' = 0
  /\ answer' = <<>>
  /\ me' = [s \in Student |-> Nobody]
  /\ UNCHANGED <<file, sems, tests, taken>>

----------------------------------------------------------------------------
(* student_1.c.                                                            *)

ReadStudent(s) ==
  /\ At(s, "start")
  /\ me' = [me EXCEPT ![s] = [id |-> ReadInt(file["student"][1]),
                              value |-> ReadInt(file["student"][2]), faucet |-> 0]]
  /\ Goto(s, "told")
  /\ UNCHANGED <<file, sems, mains, taken>>

\* Mutant: pipe_mutex is not taken to return the faucet.
StudentWaitLess(s) ==
  /\ \/ \E w \in {<<"thirsty", "faucet", "admitted">>,
                  <<"admitted", "pipe_mutex", "asking">>,
                  <<"waiting", "open_water", "served">>,
                  <<"noting", "output_mutex", "writing">>,
                  <<"thanks", "open_water", "returned">>} :
          At(s, w[1]) /\ WaitFor(s, w[2], w[3])
     \/ At(s, "drinking") /\ Goto(s, "returning") /\ UNCHANGED sems
  /\ UNCHANGED <<file, mains, me, taken>>

\* Its calls of Wait: where, for what, and what comes after it.
StudentWait(s) ==
  /\ \E w \in {<<"thirsty", "faucet", "admitted">>,
               <<"admitted", "pipe_mutex", "asking">>,
               <<"waiting", "open_water", "served">>,
               <<"noting", "output_mutex", "writing">>,
               <<"drinking", "pipe_mutex", "returning">>,
               <<"thanks", "open_water", "returned">>} :
       At(s, w[1]) /\ WaitFor(s, w[2], w[3])
  /\ UNCHANGED <<file, mains, me, taken>>

\* Its calls of Signal.
StudentSignal(s) ==
  /\ \E w \in {<<"told", "file_mutex", "thirsty">>,
               <<"asked", "request_water", "waiting">>,
               <<"holding", "pipe_mutex", "noting">>,
               <<"written", "output_mutex", "drinking">>,
               <<"back", "request_water", "thanks">>,
               <<"returned", "pipe_mutex", "leaving">>} :
       At(s, w[1]) /\ S!Release(w[2]) /\ Goto(s, w[3])
  /\ UNCHANGED <<file, mains, me, taken>>

AskFaucet(s) ==
  /\ At(s, "asking")
  /\ file' = [file EXCEPT !["request"] = Pair(0, me[s].value)]
  /\ Goto(s, "asked")
  /\ UNCHANGED <<sems, mains, me, taken>>

ReadFaucet(s) ==
  /\ At(s, "served")
  /\ me' = [me EXCEPT ![s].faucet = ReadInt(file["faucet"])]
  /\ Goto(s, "holding")
  /\ UNCHANGED <<file, sems, mains, taken>>

\* Mutant: the two numbers of the line are swapped.
NoteResultSwapped(s) ==
  /\ At(s, "writing")
  /\ file' = [file EXCEPT !["result"] = Append(@, Pair(me[s].faucet, me[s].id))]
  /\ Goto(s, "written")
  /\ UNCHANGED <<sems, mains, me, taken>>

\* Seek(Seek(-1)) and a line at the end of result.txt.
NoteResult(s) ==
  /\ At(s, "writing")
  /\ file' = [file EXCEPT !["result"] = Append(@, Pair(me[s].id, me[s].faucet))]
  /\ Goto(s, "written")
  /\ UNCHANGED <<sems, mains, me, taken>>

\* The request to return the faucet: no CreateFile here.
ReturnFaucet(s) ==
  /\ At(s, "returning")
  /\ file' = [file EXCEPT !["request"] = Overwritten(@, Pair(1, me[s].faucet - 1))]
  /\ Goto(s, "back")
  /\ UNCHANGED <<sems, mains, me, taken>>

StudentExit(s) ==
  /\ At(s, "leaving")
  /\ Goto(s, "exited")
  /\ UNCHANGED <<file, sems, mains, me, taken>>

----------------------------------------------------------------------------
(* pipe.c.                                                                 *)

PipeWait ==
  /\ At(Pipe, "ready")
  /\ WaitFor(Pipe, "request_water", "reading")
  /\ UNCHANGED <<file, mains, me, taken>>

\* Mutant: the search forgets that the faucet is now taken.
ServeUnmarked ==
  /\ At(Pipe, "reading")
  /\ ReadInt(file["request"][1]) = 0
  /\ LET free == {f \in Faucet : ~taken[f]}
         f == CHOOSE x \in free : \A y \in free : x <= y
     IN  /\ file' = [file EXCEPT !["faucet"] = WriteNum(f + 1)]
         /\ Goto(Pipe, "open")
  /\ UNCHANGED <<sems, mains, me, taken>>

\* A request for a faucet: the first free one; nothing happens when none is.
Serve ==
  /\ At(Pipe, "reading")
  /\ ReadInt(file["request"][1]) = 0
  /\ LET free == {f \in Faucet : ~taken[f]}
         f == CHOOSE x \in free : \A y \in free : x <= y
     IN  IF free = {}
         THEN Goto(Pipe, "ready") /\ UNCHANGED <<file, taken>>
         ELSE /\ taken' = [taken EXCEPT ![f] = TRUE]
              /\ file' = [file EXCEPT !["faucet"] = WriteNum(f + 1)]
              /\ Goto(Pipe, "open")
  /\ UNCHANGED <<sems, mains, me>>

\* Mutant: the faucets are numbered from 1 here too.
TakeBackNext ==
  /\ At(Pipe, "reading")
  /\ ReadInt(file["request"][1]) # 0
  /\ taken' = [f \in Faucet |-> taken[f] /\ f # ReadInt(file["request"][2]) - 1]
  /\ Goto(Pipe, "free")
  /\ UNCHANGED <<file, sems, mains, me>>

\* faucet[value] = false; a value outside the array hits something else.
TakeBack ==
  /\ At(Pipe, "reading")
  /\ ReadInt(file["request"][1]) # 0
  /\ taken' = [f \in Faucet |-> taken[f] /\ f # ReadInt(file["request"][2])]
  /\ Goto(Pipe, "free")
  /\ UNCHANGED <<file, sems, mains, me>>

PipeSignal ==
  /\ \E w \in {<<"free", "faucet", "open">>, <<"open", "open_water", "ready">>} :
       At(Pipe, w[1]) /\ S!Release(w[2]) /\ Goto(Pipe, w[3])
  /\ UNCHANGED <<file, mains, me, taken>>

Wake(p, s) ==
  /\ S!Grant(p, s)
  /\ UNCHANGED <<file, pc, mains, me, taken>>

Next ==
  \/ ReadLine \/ MainWait \/ ExecStudent \/ Collect \/ Report
  \/ \E s \in Student :
       \/ ReadStudent(s) \/ StudentWait(s) \/ StudentSignal(s) \/ AskFaucet(s)
       \/ ReadFaucet(s) \/ NoteResult(s) \/ ReturnFaucet(s) \/ StudentExit(s)
  \/ PipeWait \/ Serve \/ TakeBack \/ PipeSignal
  \/ \E p \in Proc, s \in SemName : Wake(p, s)

\* The programs end after finitely many steps, and the timer of the kernel
\* lets some ready process run as long as there is one.
Spec == Init /\ [][Next]_vars /\ WF_vars(Next)

----------------------------------------------------------------------------
Accessing(f) ==
  CASE f = "student" -> {p \in Proc : At(p, "exec") \/ At(p, "start")}
    [] f = "request" -> {p \in Proc : At(p, "asking") \/ At(p, "returning")
                                      \/ At(p, "reading")}
    [] f = "faucet"  -> {p \in Proc : At(p, "served") \/ At(p, "reading")}
    [] f = "result"  -> {p \in Proc : At(p, "writing")
                                      \/ (At(p, "next") /\ i = Len(a)
                                          /\ \A s \in 0..(i - 1) : pc[s] = "exited")}

\* Two processes are never inside their accesses to the same file, whatever
\* the interleaving of main_1, pipe and the students: the semaphores order
\* them, also where the one that waits is not the one that signals.
Exclusive ==
  \A f \in {"student", "request", "faucet", "result"} : Cardinality(Accessing(f)) <= 1

Drinking(s) == pc[s] \in {"holding", "noting", "writing", "written", "drinking",
                          "returning", "back", "thanks"}

\* Two students that hold a faucet hold different ones.
NoSharing ==
  \A s, t \in Student : s # t /\ Drinking(s) /\ Drinking(t) => me[s].faucet # me[t].faucet

\* A faucet that pipe counts as taken is held by a student, or on its way to
\* or from one; once it was returned it is free for the next request.
ReturnedIsFree ==
  \A f \in Faucet :
    taken[f] => \E s \in Student : \/ pc[s] \in {"waiting", "served"}
                                   \/ (Drinking(s) \/ pc[s] = "returned")
                                      /\ me[s].faucet = f + 1

\* The answer main_1 writes for a student is the faucet that student used.
AnswersRight ==
  pc[Main] = "report" => \A s \in 0..(i - 1) : answer[s + 1] = me[s].faucet

\* main_1 ends: every student got its faucet, gave it back and was joined.
MainEnds == <>(pc[Main] = "done")
=============================================================================
