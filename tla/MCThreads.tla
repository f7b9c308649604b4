----------------------------- MODULE MCThreads -----------------------------
(***************************************************************************)
(* Three threads of a kernel with a mutex and a semaphore a device         *)
(* signals, and the post office of two machines, whose threads wait for    *)
(* one another through the network.  Each behaviour picks a subject, and   *)
(* only the subject moves, under the fairness of its own module.           *)
(***************************************************************************)
EXTENDS Threads, TLC

VARIABLES subject,
  script, started, up, wire, inHdr, sendInt, pAvail, pWaiting, worker, boxes, pPc, step, mail, dropped

threadVars == vars
postVars == <<script, started, up, wire, inHdr, sendInt, pAvail, pWaiting, worker, boxes, pPc, step,
              mail, dropped>>
allVars == <<subject, threadVars, postVars>>

CONSTANTS t1, t2, t3, s1, s2, c0, c1, d0, NoMail

----------------------------------------------------------------------------
\* A mutex, and a semaphore a device signals.
MCInitialValue == s1 :> 1 @@ s2 :> 0

(* Kernel::NetworkTest on two machines, and two senders to one receiver.   *)
PostCall(op, to, box, reply) == [op |-> op, to |-> to, box |-> box, reply |-> reply]
Sends == <<PostCall("send", 1, 0, 0)>>
Tests(far) == <<PostCall("NetworkTest", far, 0, 0)>>
PostScripts ==
  {(c0 :> Tests(1)) @@ (c1 :> Tests(0)) @@ (d0 :> <<>>),
   (c0 :> Sends \o Sends) @@ (d0 :> Sends)
   @@ (c1 :> [k \in 1..3 |-> PostCall("receive", 1, 0, 0)])}

Pst == INSTANCE PostOffice
       WITH Host <- {0, 1}, Client <- {c0, c1, d0},
            HostOf <- (c0 :> 0) @@ (c1 :> 1) @@ (d0 :> 0),
            Scripts <- PostScripts, Box <- {0, 1}, Reliable <- FALSE, MayHalt <- {1},
            avail <- pAvail, waiting <- pWaiting, pc <- pPc

----------------------------------------------------------------------------
\* An idle component stays in one of its initial states.
MCInit ==
  /\ subject \in {"threads", "post"}
  /\ Init
  /\ Pst!Init /\ (subject # "post" => script[d0] = <<>>)

ThreadMove(A) == subject = "threads" /\ A /\ UNCHANGED <<subject, postVars>>
PostMove(A) == subject = "post" /\ A /\ UNCHANGED <<subject, threadVars>>

\* The clients of the post office come to an end or wait for ever; the threads of a
\* kernel always have a step to take.
MayStop == subject = "post" /\ UNCHANGED allVars

MCNext == ThreadMove(Next) \/ PostMove(Pst!Next) \/ MayStop

MCSpec ==
  /\ MCInit
  /\ [][MCNext]_allVars
  /\ WF_allVars(ThreadMove(SleepRun)) /\ WF_allVars(ThreadMove(IdleReturn))
  /\ \A t \in Thread : /\ WF_allVars(ThreadMove(Resume(t) \/ ResumeTake(t) \/ ResumeBlock(t)))
                       /\ WF_allVars(ThreadMove(Yield(t)))
  /\ WF_allVars(PostMove(Pst!Progress))

----------------------------------------------------------------------------
(* The properties of the threads are checked under their own names; those  *)
(* of the post office are these.                                           *)

\* The mails of one sender to one box arrive in order, none twice; the network is
\* given one packet at a time; and PostalDelivery finds a packet whenever it was
\* signalled.
SentInOrder == subject = "post" => Pst!SentInOrder /\ Pst!OneSend /\ Pst!SignalMatches

\* A Send returns, also when its packet is lost; and NetworkTest ends if none is lost.
MailEnds == subject = "post" => Pst!SendReturns /\ Pst!ClientsEnd
=============================================================================
