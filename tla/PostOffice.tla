---------------------------- MODULE PostOffice ----------------------------
(***************************************************************************)
(* Several Nachos machines on a network: NetworkInput and NetworkOutput    *)
(* (machine/network.cc) over UNIX sockets (lib/sysdep.cc), the post office *)
(* with its postal worker (network/post.cc), and clients that send to and  *)
(* receive from mailboxes, among them Kernel::NetworkTest.                 *)
(*                                                                         *)
(* A mailbox is a SynchList, used here as the queue it implements          *)
(* (SynchList!ImplementsQueue).  A packet is its two headers; the payload  *)
(* is named by the client and the step that sent it.                       *)
(***************************************************************************)
EXTENDS Integers, Sequences

CONSTANTS Host,        \* the machines
          Client,      \* the client threads
          HostOf,      \* HostOf[c]: the machine of client c
          Box,         \* the mailboxes of every machine
          Scripts,     \* what the clients may set out to do
          Reliable,    \* chanceToWork = 1
          MayHalt,     \* the machines that may halt at any time
          NoMail       \* no packet

\* A client's call: send to box at machine to, answers to box reply; answer
\* the mail received last; receive from box.
Call(op, to, box, reply) == [op |-> op, to |-> to, box |-> box, reply |-> reply]

\* Kernel::NetworkTest against the machine far.
NetworkTest(far) ==
  <<Call("send", far, 0, 1), Call("receive", far, 0, 0),
    Call("answer", far, 0, 0), Call("receive", far, 1, 0)>>

\* A script may be the name of this program.
Expanded(s) == IF Len(s) = 1 /\ s[1].op = "NetworkTest" THEN NetworkTest(s[1].to) ELSE s

VARIABLES
  script,    \* script[c]: the calls that c makes
  started,   \* the machines that were started
  up,        \* those that have not halted since: their sockets have a name
  wire,      \* wire[h]: what waits in the socket of h
  inHdr,     \* NetworkInput::inHdr with inbox; NoMail if its length is 0
  sendInt,   \* how many NetworkSendInts are pending
  avail,     \* the semaphores of each post office
  waiting,
  worker,    \* the postal worker: where it is, and the mail in its hands
  boxes,     \* boxes[h][b]
  pc,        \* where each client is
  step,      \* the call it is at
  mail,      \* the mail it received last
  dropped    \* history: a packet was lost

net == <<wire, inHdr, sendInt, dropped>>
vars == <<script, started, up, net, avail, waiting, worker, boxes, pc, step, mail>>

sendLock(h) == <<"sendLock", h>>
messageSent(h) == <<"messageSent", h>>
messageAvailable(h) == <<"messageAvailable", h>>
KSem == {sendLock(h) : h \in Host} \cup {messageSent(h) : h \in Host}
        \cup {messageAvailable(h) : h \in Host}
Worker(h) == <<"postal worker", h>>

S == INSTANCE CountingSemaphore
     WITH Thread <- Client \cup {Worker(h) : h \in Host}, Sem <- KSem,
          InitialValue <- [s \in KSem |-> IF s[1] = "sendLock" THEN 1 ELSE 0]

\* A socket and a mailbox are created empty.
OpenSocket == <<>>
MailBox == <<>>

\* NetworkOutput: chanceToWork is between 0 and 1; only 1 means that no packet
\* is lost by chance.
NetworkOutput ==
  /\ sendInt = [h \in Host |-> 0]
  /\ dropped = FALSE

\* NetworkInput: nothing is buffered.
NetworkInput ==
  /\ wire = [h \in Host |-> OpenSocket]
  /\ inHdr = [h \in Host |-> NoMail]

\* The post offices as their constructors leave them; no machine runs yet.
Init ==
  /\ script \in {[c \in Client |-> Expanded(s[c])] : s \in Scripts}
  /\ started = {}
  /\ up = {}
  /\ NetworkInput /\ NetworkOutput
  /\ S!Init
  /\ worker = [h \in Host |-> [at |-> "loop", mail |-> NoMail]]
  /\ boxes = [h \in Host |-> [b \in Box |-> MailBox]]
  /\ pc = [c \in Client |-> "user"]
  /\ step = [c \in Client |-> 1]
  /\ mail = [c \in Client |-> NoMail]

----------------------------------------------------------------------------
(* The sockets of the host.                                                *)

\* The name leads to the new socket, whatever it led to before.
AssignNameToSocket(h) == up' = up \cup {h}
DeAssignNameToSocket(h) == up' = up \ {h}

\* What was in the socket is gone with it.
CloseSocket(h) == wire' = [wire EXCEPT ![h] = <<>>]

PollFile(q) == q # <<>>
PollSocket(h) == PollFile(wire[h])

\* The packet goes to the socket that has the name of its receiver.  After ten
\* tries without such a socket it is dropped, and nobody is told.
SendToSocket(p) ==
  IF p.to \in up
  THEN wire' = [wire EXCEPT ![p.to] = Append(@, p)] /\ UNCHANGED dropped
  ELSE dropped' = TRUE /\ UNCHANGED wire

\* Taking the packet off the socket of h into inHdr and inbox.
ReadFromSocket(h) ==
  /\ inHdr' = [inHdr EXCEPT ![h] = Head(wire[h])]
  /\ wire' = [wire EXCEPT ![h] = Tail(@)]

----------------------------------------------------------------------------
(* The clients.                                                            *)

Now(c) == script[c][step[c]]
Ready(c) == HostOf[c] \in up /\ step[c] <= Len(script[c])
At(c, l) == Ready(c) /\ pc[c] = l /\ ~S!IsWaiting(c)
Goto(c, l) == pc' = [pc EXCEPT ![c] = l]

\* The call is over.
Return(c) == Goto(c, "user") /\ step' = [step EXCEPT ![c] = @ + 1]

\* What a send call puts on the network: PostOfficeOutput::Send fills in from.
Packet(c) ==
  LET k == Now(c)
  IN  [from |-> HostOf[c], id |-> <<c, step[c]>>, reply |-> k.reply,
       to |-> IF k.op = "answer" THEN mail[c].from ELSE k.to,
       box |-> IF k.op = "answer" THEN mail[c].reply ELSE k.box]

\* Mutant: Send without sendLock.
SendAcquireNothing(c) ==
  /\ At(c, "user")
  /\ Now(c).op \in {"send", "answer"}
  /\ Goto(c, "locked")
  /\ UNCHANGED <<script, started, up, net, avail, waiting, worker, boxes, step, mail>>

\* PostOfficeOutput::Send: sendLock->Acquire.
SendAcquire(c) ==
  /\ At(c, "user")
  /\ Now(c).op \in {"send", "answer"}
  /\ S!Take(c, sendLock(HostOf[c])) \/ S!Wait(c, sendLock(HostOf[c]))
  /\ Goto(c, "locked")
  /\ UNCHANGED <<script, started, up, net, worker, boxes, step, mail>>

\* NetworkOutput::Send: the interrupt is scheduled first.  The packet is lost
\* by chance, or sent.  Then messageSent->P.
SendPacket(c, lost) ==
  LET p == Packet(c)
      h == HostOf[c]
  IN  /\ At(c, "locked")
      /\ Reliable => ~lost
      /\ sendInt' = [sendInt EXCEPT ![h] = @ + 1]
      /\ IF lost THEN dropped' = TRUE /\ UNCHANGED wire ELSE SendToSocket(p)
      /\ S!Take(c, messageSent(h)) \/ S!Wait(c, messageSent(h))
      /\ Goto(c, "sent")
      /\ UNCHANGED <<script, started, up, inHdr, worker, boxes, step, mail>>

SendRelease(c) ==
  /\ At(c, "sent")
  /\ S!Release(sendLock(HostOf[c]))
  /\ Return(c)
  /\ UNCHANGED <<script, started, up, net, worker, boxes, mail>>

\* MailBox::Get waits while the box is empty.
Get(c, h, b) ==
  /\ boxes[h][b] # <<>>
  /\ mail' = [mail EXCEPT ![c] = Head(boxes[h][b])]
  /\ boxes' = [boxes EXCEPT ![h][b] = Tail(@)]

\* PostOfficeInput::Receive.
Receive(c) ==
  /\ At(c, "user")
  /\ Now(c).op = "receive"
  /\ Get(c, HostOf[c], Now(c).box)
  /\ Return(c)
  /\ UNCHANGED <<script, started, up, net, avail, waiting, worker>>

WakeClient(c, s) ==
  /\ HostOf[c] \in up
  /\ S!Grant(c, s)
  /\ UNCHANGED <<script, started, up, net, worker, boxes, pc, step, mail>>

----------------------------------------------------------------------------
(* The interrupts and the postal worker of machine h.                      *)

\* PostOfficeInput's constructor: NetworkInput gives its socket a name; the
\* device polls and the postal worker runs from now on.
StartMachine(h) ==
  /\ h \notin started
  /\ started' = started \cup {h}
  /\ AssignNameToSocket(h)
  /\ UNCHANGED <<script, net, avail, waiting, worker, boxes, pc, step, mail>>

\* PostOfficeOutput::CallBack and PostOfficeInput::CallBack.
SentCallBack(h) == S!Release(messageSent(h))
ArrivedCallBack(h) == S!Release(messageAvailable(h))

\* Mutant: the sender is not told.
NetworkSendIntSilent(h) ==
  /\ h \in up
  /\ sendInt[h] > 0
  /\ sendInt' = [sendInt EXCEPT ![h] = @ - 1]
  /\ UNCHANGED <<script, started, up, wire, inHdr, dropped, avail, waiting, worker, boxes, pc, step,
                 mail>>

\* NetworkOutput::CallBack.
NetworkSendInt(h) ==
  /\ h \in up
  /\ sendInt[h] > 0
  /\ sendInt' = [sendInt EXCEPT ![h] = @ - 1]
  /\ SentCallBack(h)
  /\ UNCHANGED <<script, started, up, wire, inHdr, dropped, worker, boxes, pc, step, mail>>

\* Mutant: a packet is read while another one is still buffered.
NetworkRecvIntOver(h) ==
  /\ h \in up
  /\ PollSocket(h)
  /\ ReadFromSocket(h)
  /\ ArrivedCallBack(h)
  /\ UNCHANGED <<script, started, up, sendInt, dropped, worker, boxes, pc, step, mail>>

\* NetworkInput::CallBack: it polls for ever; it reads a packet if there is
\* one and none is buffered, and tells the post office.
NetworkRecvInt(h) ==
  /\ h \in up
  /\ inHdr[h] = NoMail
  /\ PollSocket(h)
  /\ ReadFromSocket(h)
  /\ ArrivedCallBack(h)
  /\ UNCHANGED <<script, started, up, sendInt, dropped, worker, boxes, pc, step, mail>>

\* PostOfficeInput::PostalDelivery: messageAvailable->P, which may wait,
WorkerWait(h) ==
  /\ h \in up
  /\ worker[h].at = "loop"
  /\ \/ S!Take(Worker(h), messageAvailable(h))
     \/ S!Wait(Worker(h), messageAvailable(h))
  /\ worker' = [worker EXCEPT ![h].at = "receive"]
  /\ UNCHANGED <<script, started, up, net, boxes, pc, step, mail>>

WorkerWake(h) ==
  /\ h \in up
  /\ S!Grant(Worker(h), messageAvailable(h))
  /\ UNCHANGED <<script, started, up, net, worker, boxes, pc, step, mail>>

\* network->Receive, which empties the buffer of the device,
WorkerReceive(h) ==
  /\ h \in up
  /\ worker[h].at = "receive"
  /\ ~S!IsWaiting(Worker(h))
  /\ worker' = [worker EXCEPT ![h] = [at |-> "put", mail |-> inHdr[h]]]
  /\ inHdr' = [inHdr EXCEPT ![h] = NoMail]
  /\ UNCHANGED <<script, started, up, wire, sendInt, dropped, avail, waiting, boxes, pc, step, mail>>

\* Mutant: the mail goes in front of the box.
PutFirst(h, b, m) == boxes' = [boxes EXCEPT ![h][b] = <<m>> \o @]

\* MailBox::Put.
Put(h, b, m) == boxes' = [boxes EXCEPT ![h][b] = Append(@, m)]

\* Mutant: the mail goes to the box it came from.
WorkerPutFrom(h) ==
  /\ h \in up
  /\ worker[h].at = "put"
  /\ Put(h, worker[h].mail.reply, worker[h].mail)
  /\ worker' = [worker EXCEPT ![h] = [at |-> "loop", mail |-> NoMail]]
  /\ UNCHANGED <<script, started, up, net, avail, waiting, pc, step, mail>>

\* and Put into the box that the mail names.
WorkerPut(h) ==
  /\ h \in up
  /\ worker[h].at = "put"
  /\ Put(h, worker[h].mail.box, worker[h].mail)
  /\ worker' = [worker EXCEPT ![h] = [at |-> "loop", mail |-> NoMail]]
  /\ UNCHANGED <<script, started, up, net, avail, waiting, pc, step, mail>>

\* A machine halts: PostOfficeInput's destructor deletes the device.
HaltMachine(h) ==
  /\ h \in up \cap MayHalt
  /\ CloseSocket(h)
  /\ DeAssignNameToSocket(h)
  /\ UNCHANGED <<script, started, inHdr, sendInt, dropped, avail, waiting, worker, boxes, pc, step, mail>>

ClientStep(c) ==
  \/ SendAcquire(c) \/ (\E lost \in BOOLEAN : SendPacket(c, lost))
  \/ SendRelease(c) \/ Receive(c) \/ (\E s \in KSem : WakeClient(c, s))

HostStep(h) ==
  \/ NetworkSendInt(h) \/ NetworkRecvInt(h)
  \/ WorkerWait(h) \/ WorkerWake(h) \/ WorkerReceive(h) \/ WorkerPut(h)

Next == \/ \E c \in Client : ClientStep(c)
        \/ \E h \in Host : HostStep(h) \/ StartMachine(h) \/ HaltMachine(h)

\* The machines that run do not all stop while a thread can go on or an
\* interrupt is pending.
Progress == (\E c \in Client : ClientStep(c)) \/ (\E h \in Host : HostStep(h))
Fairness == WF_vars(Progress)

Spec == Init /\ [][Next]_vars
FairSpec == Spec /\ Fairness

----------------------------------------------------------------------------
\* The device is given one packet at a time.  The assertion on sendBusy cannot
\* see it, since nothing sets sendBusy: only sendLock keeps it so.
OneSend ==
  \A h \in up :
    /\ sendInt[h] <= 1
    /\ \A c \in Client : HostOf[c] = h /\ At(c, "locked") => sendInt[h] = 0

\* The worker finds a packet whenever it looks: each signal of the device
\* stands for one packet in its buffer, even if the next one comes while the
\* worker is delivering.
SignalMatches ==
  \A h \in up :
    avail[messageAvailable(h)]
      + (IF worker[h].at = "receive" /\ ~S!IsWaiting(Worker(h)) THEN 1 ELSE 0)
    = (IF inHdr[h] = NoMail THEN 0 ELSE 1)

\* The mail in box b of machine h and what is on its way to h, oldest first.
Pipeline(h, b) ==
  boxes[h][b]
  \o (IF worker[h].mail = NoMail THEN <<>> ELSE <<worker[h].mail>>)
  \o (IF inHdr[h] = NoMail THEN <<>> ELSE <<inHdr[h]>>) \o wire[h]

\* "in order but unreliably": the mails of one client to one box arrive in the
\* order in which they were sent, and none twice.
SentInOrder ==
  \A h \in up, b \in Box :
    LET q == Pipeline(h, b)
    IN  \A i, j \in DOMAIN q :
          i < j /\ q[i].box = b /\ q[j].box = b /\ q[i].id[1] = q[j].id[1]
          => q[i].id[2] < q[j].id[2]

\* A Send returns, also when the packet is lost.
SendReturns ==
  \A c \in Client :
    pc[c] \in {"locked", "sent"} ~> (pc[c] = "user" \/ HostOf[c] \notin up)

\* NetworkTest, and every client, comes to its end once all machines have
\* started, if no packet is lost: one lost packet and both sides may wait for
\* ever.
ClientsEnd ==
  (started = Host)
    ~> (dropped \/ up # Host \/ \A c \in Client : step[c] > Len(script[c]))
=============================================================================
