-------------------------- MODULE PostOfficeProofs --------------------------
(***************************************************************************)
(* Proofs about the post offices of any number of machines, with any       *)
(* clients, boxes and scripts, whatever the network loses and whichever    *)
(* machines halt: one packet at a time is given to the device, each signal *)
(* of the device stands for a packet, and mails arrive in the order sent.  *)
(***************************************************************************)
EXTENDS PostOffice, TLAPS

-----------------------------------------------------------------------------
(* The hypothesis and the invariant.                                       *)

Mail == [from : Host, id : Client \X Nat, reply : Box, to : Host, box : Box]
Calls == [op : {"send", "answer", "receive"}, to : Host, box : Box, reply : Box]

\* A client answers only what it has received.
WellFormed(s) ==
  /\ s \in Seq(Calls)
  /\ \A k \in 1..Len(s) : s[k].op = "answer" => \E j \in 1..(k - 1) : s[j].op = "receive"

Setting ==
  /\ HostOf \in [Client -> Host]
  /\ \A h \in Host : Worker(h) \notin Client
  /\ NoMail \notin Mail
  /\ \A s \in Scripts, c \in Client : WellFormed(Expanded(s[c]))

MailThread == Client \cup {Worker(h) : h \in Host}

Types ==
  /\ script \in [Client -> Seq(Calls)]
  /\ up \subseteq Host
  /\ wire \in [Host -> Seq(Mail)]
  /\ inHdr \in [Host -> Mail \cup {NoMail}]
  /\ sendInt \in [Host -> Nat]
  /\ avail \in [KSem -> Nat]
  /\ waiting \in [KSem -> SUBSET MailThread]
  /\ worker \in [Host -> [at : {"loop", "receive", "put"}, mail : Mail \cup {NoMail}]]
  /\ boxes \in [Host -> [Box -> Seq(Mail)]]
  /\ pc \in [Client -> {"user", "locked", "sent"}]
  /\ step \in [Client -> Nat \ {0}]
  /\ mail \in [Client -> Mail \cup {NoMail}]

\* A client inside Send is at a call that sends, and one that has received has
\* a mail to answer.
Scripted ==
  \A c \in Client :
    /\ WellFormed(script[c])
    /\ pc[c] # "user" => step[c] \in 1..Len(script[c]) /\ Now(c).op \in {"send", "answer"}
    /\ (\E k \in 1..Len(script[c]) : k < step[c] /\ script[c][k].op = "receive")
         => mail[c] # NoMail

\* Who waits where.
Waits ==
  /\ \A c \in Client, s \in KSem : c \in waiting[s] =>
       \/ s = sendLock(HostOf[c]) /\ pc[c] = "locked"
       \/ s = messageSent(HostOf[c]) /\ pc[c] = "sent"
  /\ \A h \in Host, s \in KSem : Worker(h) \in waiting[s] =>
       s = messageAvailable(h) /\ worker[h].at = "receive"

\* Client c is inside Send with the lock.
Holds(c) == pc[c] # "user" /\ c \notin waiting[sendLock(HostOf[c])]

\* The lock has one holder, and is free when it has none.
Locks ==
  /\ \A c \in Client : Holds(c) => avail[sendLock(HostOf[c])] = 0
  /\ \A c, d \in Client : Holds(c) /\ Holds(d) /\ HostOf[c] = HostOf[d] => c = d
  /\ \A h \in Host : avail[sendLock(h)] <= 1

\* A packet on its way out, or the signal that it is out, has a client waiting.
Sends ==
  \A h \in Host :
    sendInt[h] + avail[messageSent(h)] = IF waiting[messageSent(h)] = {} THEN 0 ELSE 1

\* The worker of machine h was signalled.
Looking(h) == worker[h].at = "receive" /\ ~S!IsWaiting(Worker(h))

\* SignalMatches on every machine, and the mail in the worker's hands.
Signals ==
  \A h \in Host :
    /\ avail[messageAvailable(h)]
         + (IF Looking(h) THEN 1 ELSE 0)
       = (IF inHdr[h] = NoMail THEN 0 ELSE 1)
    /\ worker[h].at = "put" <=> worker[h].mail # NoMail

\* x was sent before y, if they are of one client and to one box.
Before(x, y) == x.box = y.box /\ x.id[1] = y.id[1] => x.id[2] < y.id[2]

\* A box B, the worker's mail w, the device's packet r and the socket X hold
\* mails in the order in which they were sent.
Ordered(B, w, r, X) ==
  /\ \A i, j \in 1..Len(B) : i < j => Before(B[i], B[j])
  /\ \A i, j \in 1..Len(X) : i < j => Before(X[i], X[j])
  /\ \A i \in 1..Len(B), j \in 1..Len(X) : Before(B[i], X[j])
  /\ w # NoMail => /\ \A i \in 1..Len(B) : Before(B[i], w)
                   /\ \A j \in 1..Len(X) : Before(w, X[j])
  /\ r # NoMail => /\ \A i \in 1..Len(B) : Before(B[i], r)
                   /\ \A j \in 1..Len(X) : Before(r, X[j])
  /\ w # NoMail /\ r # NoMail => Before(w, r)

InOrder == \A h \in Host, b \in Box : Ordered(boxes[h][b], worker[h].mail, inHdr[h], wire[h])

\* Client and step named by a mail x that was sent are over, or at their end.
Past(x) == LET c == x.id[1] IN
           x.id[2] < step[c] \/ (x.id[2] = step[c] /\ pc[c] = "sent")

\* Past, for a mail of now and the clients after a step.
PastNext(x) == LET c == x.id[1] IN
               x.id[2] < step'[c] \/ (x.id[2] = step'[c] /\ pc'[c] = "sent")

AllPast ==
  \A h \in Host :
    /\ \A b \in Box : \A i \in 1..Len(boxes[h][b]) : Past(boxes[h][b][i])
    /\ worker[h].mail # NoMail => Past(worker[h].mail)
    /\ inHdr[h] # NoMail => Past(inHdr[h])
    /\ \A i \in 1..Len(wire[h]) : Past(wire[h][i])

Structure == Types /\ Scripted /\ Waits /\ Locks /\ Sends /\ Signals /\ InOrder /\ AllPast

\* A leaf is given half a minute.
USE SMTT(30)

-----------------------------------------------------------------------------
(* Mails in order.                                                         *)

\* MailBox::Get takes the oldest.
LEMMA OrderGet ==
  ASSUME NEW B \in Seq(Mail), NEW X \in Seq(Mail), NEW w, NEW r, Ordered(B, w, r, X),
         B # <<>>
  PROVE  Ordered(Tail(B), w, r, X)
<1>1. /\ Len(Tail(B)) = Len(B) - 1 /\ Len(B) \in Nat \ {0}
      /\ \A i \in 1..(Len(B) - 1) : Tail(B)[i] = B[i + 1]
  OBVIOUS
<1>2. \A i \in 1..Len(Tail(B)) : i + 1 \in 1..Len(B) /\ Tail(B)[i] = B[i + 1] /\ i \in Nat
  BY <1>1
<1>3. \A i, j \in 1..Len(Tail(B)) : i < j => i + 1 < j + 1
  BY <1>2
<1> DEFINE T == Tail(B)
<1> HIDE DEF T
<1> QED
  BY <1>2, <1>3, Zenon DEF Ordered

\* ReadFromSocket takes the oldest.
LEMMA OrderRead ==
  ASSUME NEW B \in Seq(Mail), NEW X \in Seq(Mail), NEW w, Ordered(B, w, NoMail, X),
         X # <<>>
  PROVE  Ordered(B, w, Head(X), Tail(X))
<1>1. /\ Len(Tail(X)) = Len(X) - 1 /\ Len(X) \in Nat \ {0}
      /\ \A i \in 1..(Len(X) - 1) : Tail(X)[i] = X[i + 1]
      /\ Head(X) = X[1]
  OBVIOUS
<1>2. /\ \A i \in 1..Len(Tail(X)) : i + 1 \in 1..Len(X) /\ Tail(X)[i] = X[i + 1] /\ 1 < i + 1
      /\ 1 \in 1..Len(X)
  BY <1>1
<1>3. \A i, j \in 1..Len(Tail(X)) : i < j => i + 1 < j + 1
  BY <1>1
<1> QED
  BY <1>1, <1>2, <1>3, Zenon DEF Ordered

\* The worker takes what the device has.
LEMMA OrderTake ==
  ASSUME NEW B, NEW X, NEW r, Ordered(B, NoMail, r, X)
  PROVE  Ordered(B, r, NoMail, X)
  BY Zenon DEF Ordered

\* MailBox::Put puts it behind the others.
LEMMA OrderPut ==
  ASSUME NEW B \in Seq(Mail), NEW X \in Seq(Mail), NEW w \in Mail, NEW r, w # NoMail,
         Ordered(B, w, r, X)
  PROVE  Ordered(Append(B, w), NoMail, r, X)
<1> DEFINE A == Append(B, w)
<1>1. /\ Len(A) = Len(B) + 1 /\ Len(B) \in Nat
      /\ \A i \in 1..Len(A) : A[i] = IF i = Len(B) + 1 THEN w ELSE B[i]
  OBVIOUS
<1> HIDE DEF A
<1>2. /\ \A i \in 1..Len(A) : \/ i \in 1..Len(B) /\ A[i] = B[i]
                              \/ i = Len(B) + 1 /\ A[i] = w
      /\ \A i, j \in 1..Len(A) : i < j => i \in 1..Len(B) /\ A[i] = B[i]
  BY <1>1
<1>3. Ordered(A, NoMail, r, X)
  BY <1>1, <1>2, Zenon DEF Ordered
<1> QED
  BY <1>3, Zenon DEF A

\* For the other boxes the mail is gone.
LEMMA OrderGone ==
  ASSUME NEW B, NEW X, NEW w, NEW r, Ordered(B, w, r, X)
  PROVE  Ordered(B, NoMail, r, X)
  BY Zenon DEF Ordered

\* SendToSocket puts a new packet behind all others.
LEMMA OrderSend ==
  ASSUME NEW B \in Seq(Mail), NEW X \in Seq(Mail), NEW w, NEW r, NEW p \in Mail,
         Ordered(B, w, r, X),
         \A i \in 1..Len(B) : Before(B[i], p),
         \A i \in 1..Len(X) : Before(X[i], p),
         w # NoMail => Before(w, p), r # NoMail => Before(r, p)
  PROVE  Ordered(B, w, r, Append(X, p))
<1> DEFINE A == Append(X, p)
<1>1. /\ Len(A) = Len(X) + 1 /\ Len(X) \in Nat
      /\ \A i \in 1..Len(A) : A[i] = IF i = Len(X) + 1 THEN p ELSE X[i]
  OBVIOUS
<1> HIDE DEF A
<1>2. /\ \A i \in 1..Len(A) : \/ i \in 1..Len(X) /\ A[i] = X[i]
                              \/ i = Len(X) + 1 /\ A[i] = p
      /\ \A i, j \in 1..Len(A) : i < j => i \in 1..Len(X) /\ A[i] = X[i]
  BY <1>1
<1>3. Ordered(B, w, r, A)
  BY <1>1, <1>2, Zenon DEF Ordered
<1> QED
  BY <1>3, Zenon DEF A

\* Nothing is left of a socket that was closed.
LEMMA OrderClose ==
  ASSUME NEW B, NEW X, NEW w, NEW r, Ordered(B, w, r, X)
  PROVE  Ordered(B, w, r, <<>>)
  BY DEF Ordered

Sorted(s) == \A i, j \in 1..Len(s) : i < j => Before(s[i], s[j])

\* Two sequences one behind the other.
LEMMA Joined ==
  ASSUME NEW s \in Seq(Mail), NEW t \in Seq(Mail), Sorted(s), Sorted(t),
         \A i \in 1..Len(s), j \in 1..Len(t) : Before(s[i], t[j])
  PROVE  /\ s \o t \in Seq(Mail) /\ Sorted(s \o t)
         /\ \A k \in 1..Len(s \o t) : \/ \E i \in 1..Len(s) : (s \o t)[k] = s[i]
                                      \/ \E j \in 1..Len(t) : (s \o t)[k] = t[j]
<1> DEFINE u == s \o t
<1>1. /\ u \in Seq(Mail)
      /\ Len(s) \in Nat /\ Len(t) \in Nat /\ Len(u) = Len(s) + Len(t)
      /\ \A k \in 1..Len(u) : u[k] = IF k <= Len(s) THEN s[k] ELSE t[k - Len(s)]
  OBVIOUS
<1> HIDE DEF u
<1>2. \A k \in 1..Len(u) : \/ k \in 1..Len(s) /\ u[k] = s[k]
                           \/ k > Len(s) /\ k - Len(s) \in 1..Len(t) /\ u[k] = t[k - Len(s)]
  BY <1>1
<1>3. Sorted(u)
  <2> SUFFICES ASSUME NEW i \in 1..Len(u), NEW j \in 1..Len(u), i < j
               PROVE  Before(u[i], u[j])
    BY Zenon DEF Sorted
  <2>1. CASE j \in 1..Len(s)
    BY <1>1, <1>2, <2>1 DEF Sorted
  <2>2. CASE i \in 1..Len(s) /\ j > Len(s)
    <3>1. u[i] = s[i] /\ j - Len(s) \in 1..Len(t) /\ u[j] = t[j - Len(s)]
      BY <1>1, <2>2
    <3> QED
      BY <2>2, <3>1, Zenon
  <2>3. CASE i > Len(s)
    <3>1. i - Len(s) \in 1..Len(t) /\ j - Len(s) \in 1..Len(t) /\ i - Len(s) < j - Len(s)
      BY <1>1, <2>3
    <3>2. u[i] = t[i - Len(s)] /\ u[j] = t[j - Len(s)]
      BY <1>1, <2>3
    <3> QED
      BY <3>1, <3>2, Zenon DEF Sorted
  <2> QED
    BY <1>1, <2>1, <2>2, <2>3
<1> QED
  BY <1>1, <1>2, <1>3, Zenon DEF u

\* One mail or none, as a sequence.
LEMMA OneOrNone ==
  ASSUME Setting, NEW m \in Mail \cup {NoMail}
  PROVE  LET q == IF m = NoMail THEN <<>> ELSE <<m>>
         IN  q \in Seq(Mail) /\ Sorted(q) /\ \A i \in 1..Len(q) : m # NoMail /\ q[i] = m
<1>1. CASE m = NoMail
  BY <1>1 DEF Sorted
<1>2. CASE m # NoMail
  <2>1. m \in Mail
    BY <1>2, Zenon
  <2>2. <<m>> \in Seq(Mail) /\ Len(<<m>>) = 1 /\ <<m>>[1] = m
    BY <2>1
  <2> HIDE DEF Mail
  <2>3. /\ \A i \in 1..Len(<<m>>) : <<m>>[i] = m
        /\ \A i, j \in 1..Len(<<m>>) : ~(i < j)
    BY <2>2
  <2> QED
    BY <1>2, <2>2, <2>3, Zenon DEF Sorted
<1> QED
  BY <1>1, <1>2, Zenon

\* Mails in order, all in one sequence.
LEMMA OrderIs ==
  ASSUME Setting, NEW B \in Seq(Mail), NEW X \in Seq(Mail),
         NEW w \in Mail \cup {NoMail}, NEW r \in Mail \cup {NoMail}, Ordered(B, w, r, X)
  PROVE  Sorted(B \o (IF w = NoMail THEN <<>> ELSE <<w>>)
                  \o (IF r = NoMail THEN <<>> ELSE <<r>>) \o X)
<1> DEFINE W == IF w = NoMail THEN <<>> ELSE <<w>>
           R == IF r = NoMail THEN <<>> ELSE <<r>>
           BW == B \o W
           BWR == BW \o R
<1>1. W \in Seq(Mail) /\ Sorted(W) /\ \A i \in 1..Len(W) : w # NoMail /\ W[i] = w
  BY OneOrNone, Zenon
<1>2. R \in Seq(Mail) /\ Sorted(R) /\ \A i \in 1..Len(R) : r # NoMail /\ R[i] = r
  BY OneOrNone, Zenon
<1> HIDE DEF W, R
<1>3. Sorted(B) /\ Sorted(X)
  BY Zenon DEF Ordered, Sorted
<1>4. /\ BW \in Seq(Mail) /\ Sorted(BW)
      /\ \A k \in 1..Len(BW) : \/ \E i \in 1..Len(B) : BW[k] = B[i]
                               \/ \E j \in 1..Len(W) : BW[k] = W[j]
  <2>1. \A i \in 1..Len(B), j \in 1..Len(W) : Before(B[i], W[j])
    BY <1>1, Zenon DEF Ordered
  <2> QED
    BY <1>1, <1>3, <2>1, Joined, Zenon
<1> HIDE DEF BW
<1>5. /\ BWR \in Seq(Mail) /\ Sorted(BWR)
      /\ \A k \in 1..Len(BWR) : \/ \E i \in 1..Len(BW) : BWR[k] = BW[i]
                                \/ \E j \in 1..Len(R) : BWR[k] = R[j]
  <2>1. \A i \in 1..Len(BW), j \in 1..Len(R) : Before(BW[i], R[j])
    <3> SUFFICES ASSUME NEW i \in 1..Len(BW), NEW j \in 1..Len(R)
                 PROVE  Before(BW[i], R[j])
      BY Zenon
    <3>1. R[j] = r /\ r # NoMail
      BY <1>2, Zenon
    <3>2. CASE \E k \in 1..Len(B) : BW[i] = B[k]
      BY <3>1, <3>2, Zenon DEF Ordered
    <3>3. CASE \E k \in 1..Len(W) : BW[i] = W[k]
      BY <1>1, <3>1, <3>3, Zenon DEF Ordered
    <3> QED
      BY <1>4, <3>2, <3>3, Zenon
  <2> QED
    BY <1>2, <1>4, <2>1, Joined, Zenon
<1> HIDE DEF BWR
<1>6. Sorted(BWR \o X)
  <2>1. \A i \in 1..Len(BWR), j \in 1..Len(X) : Before(BWR[i], X[j])
    <3> SUFFICES ASSUME NEW i \in 1..Len(BWR), NEW j \in 1..Len(X)
                 PROVE  Before(BWR[i], X[j])
      BY Zenon
    <3>1. CASE \E k \in 1..Len(R) : BWR[i] = R[k]
      BY <1>2, <3>1, Zenon DEF Ordered
    <3>2. CASE \E k \in 1..Len(BW) : BWR[i] = BW[k]
      <4>1. PICK k \in 1..Len(BW) : BWR[i] = BW[k]
        BY <3>2, Zenon
      <4>2. CASE \E l \in 1..Len(B) : BW[k] = B[l]
        BY <4>1, <4>2, Zenon DEF Ordered
      <4>3. CASE \E l \in 1..Len(W) : BW[k] = W[l]
        BY <1>1, <4>1, <4>3, Zenon DEF Ordered
      <4> QED
        BY <1>4, <4>2, <4>3, Zenon
    <3> QED
      BY <1>5, <3>1, <3>2, Zenon
  <2> QED
    BY <1>3, <1>5, <2>1, Joined, Zenon
<1> QED
  BY <1>6, Zenon DEF BWR, BW, W, R

\* Nobody else is sending when a client has the lock.
LEMMA NoneSending ==
  ASSUME Setting, Structure, NEW c \in Client, At(c, "locked")
  PROVE  waiting[messageSent(HostOf[c])] = {} /\ Holds(c)
<1> DEFINE h == HostOf[c]
<1>1. pc[c] = "locked" /\ \A s \in KSem : c \notin waiting[s]
  BY Zenon DEF At, S!IsWaiting
<1>2. h \in Host /\ sendLock(h) \in KSem /\ messageSent(h) \in KSem
  BY Zenon DEF KSem, Setting
<1>3. Holds(c)
  BY <1>1, <1>2, Zenon DEF Holds
<1>4. ASSUME NEW d \in waiting[messageSent(h)]
      PROVE  FALSE
  <2>1. d \in Client \cup {Worker(g) : g \in Host}
    BY <1>2, Zenon DEF Structure, Types, MailThread
  <2>2. d \in Client
    <3>1. \A g \in Host : messageSent(h) # messageAvailable(g)
      BY Zenon DEF messageSent, messageAvailable
    <3> QED
      BY <1>2, <1>4, <2>1, <3>1, Zenon DEF Structure, Waits
  <2>3. pc[d] = "sent" /\ HostOf[d] = h
    <3>1. \A g : messageSent(h) # sendLock(g) /\ (messageSent(h) = messageSent(g) => h = g)
      BY Zenon DEF messageSent, sendLock
    <3> QED
      BY <1>2, <1>4, <2>2, <3>1, Zenon DEF Structure, Waits
  <2>4. Holds(d)
    BY <1>2, <2>2, <2>3, Zenon DEF Structure, Waits, Holds, sendLock, messageSent
  <2> QED
    BY <1>1, <1>3, <2>2, <2>3, <2>4, Zenon DEF Structure, Locks
<1> QED
  BY <1>3, <1>4, Zenon

\* What the invariant is for.
LEMMA StructureGives ==
  ASSUME Setting, Structure
  PROVE  OneSend /\ SignalMatches /\ SentInOrder
<1>1. Types /\ up \subseteq Host
  BY Zenon DEF Structure, Types
<1>2. SignalMatches
  BY <1>1, Zenon DEF Structure, Signals, SignalMatches, Looking
<1>3. SentInOrder
  <2> SUFFICES ASSUME NEW h \in Host, NEW b \in Box,
                      NEW i \in DOMAIN Pipeline(h, b), NEW j \in DOMAIN Pipeline(h, b),
                      i < j, Pipeline(h, b)[i].box = b, Pipeline(h, b)[j].box = b,
                      Pipeline(h, b)[i].id[1] = Pipeline(h, b)[j].id[1]
               PROVE  Pipeline(h, b)[i].id[2] < Pipeline(h, b)[j].id[2]
    BY <1>1, Zenon DEF SentInOrder
  <2>1. /\ boxes[h][b] \in Seq(Mail) /\ wire[h] \in Seq(Mail)
        /\ worker[h].mail \in Mail \cup {NoMail} /\ inHdr[h] \in Mail \cup {NoMail}
    BY <1>1 DEF Types
  <2>2. Ordered(boxes[h][b], worker[h].mail, inHdr[h], wire[h])
    BY Zenon DEF Structure, InOrder
  <2>3. Sorted(Pipeline(h, b))
    BY <2>1, <2>2, OrderIs, Zenon DEF Pipeline
  <2>4. Pipeline(h, b) \in Seq(Mail)
    <3>1. \A m \in Mail \cup {NoMail} : (IF m = NoMail THEN <<>> ELSE <<m>>) \in Seq(Mail)
      BY OneOrNone, Zenon
    <3> DEFINE W == IF worker[h].mail = NoMail THEN <<>> ELSE <<worker[h].mail>>
               R == IF inHdr[h] = NoMail THEN <<>> ELSE <<inHdr[h]>>
    <3>2. W \in Seq(Mail) /\ R \in Seq(Mail)
      BY <2>1, <3>1, Zenon
    <3> HIDE DEF W, R, Mail
    <3>3. boxes[h][b] \o W \o R \o wire[h] \in Seq(Mail)
      BY <2>1, <3>2
    <3> QED
      BY <3>3, Zenon DEF Pipeline, W, R
  <2>5. DOMAIN Pipeline(h, b) = 1..Len(Pipeline(h, b))
    BY <2>4
  <2> HIDE DEF Pipeline
  <2> QED
    BY <2>3, <2>5, Zenon DEF Sorted, Before
<1>4. OneSend
  <2> SUFFICES ASSUME NEW h \in Host
               PROVE  /\ sendInt[h] <= 1
                      /\ \A c \in Client : HostOf[c] = h /\ At(c, "locked") => sendInt[h] = 0
    BY <1>1, Zenon DEF OneSend
  <2>1. sendInt[h] \in Nat /\ avail[messageSent(h)] \in Nat
    BY <1>1, Zenon DEF Types, KSem
  <2>2. sendInt[h] <= 1 /\ (waiting[messageSent(h)] = {} => sendInt[h] = 0)
    BY <2>1 DEF Structure, Sends
  <2>3. ASSUME NEW c \in Client, HostOf[c] = h, At(c, "locked")
        PROVE  waiting[messageSent(h)] = {}
    BY <2>3, NoneSending, Zenon
  <2> QED
    BY <2>2, <2>3, Zenon
<1> QED
  BY <1>2, <1>3, <1>4, Zenon

-----------------------------------------------------------------------------
(* The semaphores, point by point.                                         *)

\* The semaphores of the machines are all different.
LEMMA SemsDiffer ==
  ASSUME NEW h \in Host, NEW g \in Host
  PROVE  /\ sendLock(h) \in KSem /\ messageSent(h) \in KSem /\ messageAvailable(h) \in KSem
         /\ sendLock(h) # messageSent(g) /\ sendLock(h) # messageAvailable(g)
         /\ messageSent(h) # messageAvailable(g)
         /\ sendLock(h) = sendLock(g) => h = g
         /\ messageSent(h) = messageSent(g) => h = g
         /\ messageAvailable(h) = messageAvailable(g) => h = g
         /\ Worker(h) = Worker(g) => h = g
  BY Zenon DEF KSem, sendLock, messageSent, messageAvailable, Worker

\* P that returns at once.
LEMMA TakeIs ==
  ASSUME Types, NEW t \in MailThread, NEW s \in KSem, S!Take(t, s)
  PROVE  /\ \A r \in KSem : t \notin waiting[r]
         /\ avail[s] > 0 /\ avail' \in [KSem -> Nat]
         /\ \A r \in KSem : avail'[r] = IF r = s THEN avail[s] - 1 ELSE avail[r]
         /\ waiting' = waiting /\ waiting' \in [KSem -> SUBSET MailThread]
  BY DEF Types, S!Take, S!IsWaiting

\* P that waits.
LEMMA WaitIs ==
  ASSUME Types, NEW t \in MailThread, NEW s \in KSem, S!Wait(t, s)
  PROVE  /\ \A r \in KSem : t \notin waiting[r]
         /\ avail[s] = 0 /\ avail' = avail /\ avail' \in [KSem -> Nat]
         /\ waiting' \in [KSem -> SUBSET MailThread]
         /\ \A r \in KSem : waiting'[r] = IF r = s THEN waiting[s] \cup {t} ELSE waiting[r]
<1>1. /\ waiting' = [waiting EXCEPT ![s] = waiting[s] \cup {t}]
      /\ avail[s] = 0 /\ avail' = avail /\ \A r \in KSem : t \notin waiting[r]
  BY Zenon DEF S!Wait, S!IsWaiting
<1>2. waiting \in [KSem -> SUBSET MailThread] /\ waiting[s] \cup {t} \in SUBSET MailThread
  BY Zenon DEF Types
<1> DEFINE T == SUBSET MailThread
           e == waiting[s] \cup {t}
<1>3. waiting \in [KSem -> T] /\ e \in T /\ waiting' = [waiting EXCEPT ![s] = e]
  BY <1>1, <1>2, Zenon
<1> HIDE DEF T, e
<1>4. /\ waiting' \in [KSem -> T]
      /\ \A r \in KSem : waiting'[r] = IF r = s THEN e ELSE waiting[r]
  BY <1>3, Zenon
<1> QED
  BY <1>1, <1>4, Zenon DEF T, e, Types

\* What happens when a P that had to wait returns.
Granted(t, s) ==
  /\ t \in waiting[s]
  /\ avail[s] > 0 /\ avail' \in [KSem -> Nat]
  /\ \A r \in KSem : avail'[r] = IF r = s THEN avail[s] - 1 ELSE avail[r]
  /\ waiting' \in [KSem -> SUBSET MailThread]
  /\ \A r \in KSem : waiting'[r] = IF r = s THEN waiting[s] \ {t} ELSE waiting[r]

\* A P that had to wait returns.
LEMMA GrantIs ==
  ASSUME Types, NEW t \in MailThread, NEW s \in KSem, S!Grant(t, s)
  PROVE  Granted(t, s)
<1>1. /\ waiting' = [waiting EXCEPT ![s] = waiting[s] \ {t}]
      /\ avail[s] > 0 /\ avail' = [avail EXCEPT ![s] = avail[s] - 1] /\ t \in waiting[s]
  BY Zenon DEF S!Grant
<1>2. /\ avail' \in [KSem -> Nat]
      /\ \A r \in KSem : avail'[r] = IF r = s THEN avail[s] - 1 ELSE avail[r]
  BY <1>1 DEF Types
<1> DEFINE T == SUBSET MailThread
           e == waiting[s] \ {t}
<1>3. waiting \in [KSem -> T] /\ e \in T /\ waiting' = [waiting EXCEPT ![s] = e]
  BY <1>1, Zenon DEF Types
<1> HIDE DEF T, e
<1>4. /\ waiting' \in [KSem -> T]
      /\ \A r \in KSem : waiting'[r] = IF r = s THEN e ELSE waiting[r]
  BY <1>3, Zenon
<1> QED
  BY <1>1, <1>2, <1>4, Zenon DEF T, e, Granted

\* V.
LEMMA ReleaseIs ==
  ASSUME Types, NEW s \in KSem, S!Release(s)
  PROVE  /\ avail' \in [KSem -> Nat]
         /\ \A r \in KSem : avail'[r] = IF r = s THEN avail[s] + 1 ELSE avail[r]
         /\ waiting' = waiting /\ waiting' \in [KSem -> SUBSET MailThread]
  BY DEF Types, S!Release

-----------------------------------------------------------------------------
(* What a step leaves alone.                                               *)

\* The scripts.
LEMMA KeepScripted ==
  ASSUME Scripted, UNCHANGED <<script, pc, step, mail>>
  PROVE  Scripted'
  BY Zenon DEF Scripted, Now

\* The order of the mails.
LEMMA KeepOrder ==
  ASSUME InOrder, AllPast, \A h \in Host : worker'[h].mail = worker[h].mail,
         UNCHANGED <<boxes, inHdr, wire>>,
         \A x \in Mail : Past(x) => Past(x)', Types
  PROVE  InOrder' /\ AllPast'
<1>1. /\ \A h \in Host, b \in Box : boxes[h][b] \in Seq(Mail)
      /\ \A h \in Host : worker[h].mail # NoMail => worker[h].mail \in Mail
      /\ \A h \in Host : inHdr[h] # NoMail => inHdr[h] \in Mail
      /\ \A h \in Host : wire[h] \in Seq(Mail)
  BY Zenon DEF Types
<1>2. /\ \A h \in Host, b \in Box : \A i \in 1..Len(boxes[h][b]) : boxes[h][b][i] \in Mail
      /\ \A h \in Host : \A i \in 1..Len(wire[h]) : wire[h][i] \in Mail
  BY <1>1
<1>3. InOrder'
  BY Zenon DEF InOrder
<1>4. AllPast'
  BY <1>1, <1>2, Zenon DEF AllPast
<1> QED
  BY <1>3, <1>4, Zenon

\* The signals of the device.
LEMMA KeepSignals ==
  ASSUME Setting, Signals, Types, UNCHANGED <<worker, inHdr>>,
         \A h \in Host : avail'[messageAvailable(h)] = avail[messageAvailable(h)],
         \A h \in Host, s \in KSem : Worker(h) \in waiting'[s] <=> Worker(h) \in waiting[s]
  PROVE  Signals'
<1>1. \A h \in Host : Looking(h)' <=> Looking(h)
  BY Zenon DEF Looking, S!IsWaiting
<1> QED
  BY <1>1, Zenon DEF Signals

\* The lock and the device for sending.
LEMMA KeepLocks ==
  ASSUME Setting, Locks, Sends, UNCHANGED <<pc, sendInt>>,
         \A h \in Host : /\ avail'[sendLock(h)] = avail[sendLock(h)]
                         /\ avail'[messageSent(h)] = avail[messageSent(h)]
                         /\ waiting'[sendLock(h)] = waiting[sendLock(h)]
                         /\ waiting'[messageSent(h)] = waiting[messageSent(h)]
  PROVE  Locks' /\ Sends'
<1>1. \A c \in Client : HostOf[c] \in Host
  BY Zenon DEF Setting
<1>2. \A c \in Client : Holds(c)' <=> Holds(c)
  BY <1>1, Zenon DEF Holds
<1>3. Locks'
  BY <1>1, <1>2, Zenon DEF Locks
<1>4. Sends'
  BY Zenon DEF Sends
<1> QED
  BY <1>3, <1>4, Zenon

-----------------------------------------------------------------------------
(* Each step keeps the invariant.                                          *)

\* PostOfficeOutput::Send asks for the lock.
LEMMA SendAcquireStep ==
  ASSUME Setting, Structure, NEW c \in Client, SendAcquire(c)
  PROVE  Structure'
<1> DEFINE h == HostOf[c]
           l == sendLock(h)
<1>1. /\ Types /\ Scripted /\ Waits /\ Locks /\ Sends /\ Signals /\ InOrder /\ AllPast
      /\ h \in Host /\ c \in MailThread
  BY Zenon DEF Structure, Setting, MailThread
<1>2. /\ pc[c] = "user" /\ step[c] <= Len(script[c]) /\ Now(c).op \in {"send", "answer"}
      /\ \A s \in KSem : c \notin waiting[s]
      /\ S!Take(c, l) \/ S!Wait(c, l)
      /\ pc' = [pc EXCEPT ![c] = "locked"]
      /\ UNCHANGED <<script, started, up, net, worker, boxes, step, mail>>
  BY Zenon DEF SendAcquire, At, Ready, Goto, S!IsWaiting
<1>3. l \in KSem
  BY <1>1, SemsDiffer, Zenon
<1>4. /\ pc' \in [Client -> {"user", "locked", "sent"}]
      /\ \A d \in Client : pc'[d] = IF d = c THEN "locked" ELSE pc[d]
  BY <1>1, <1>2, Zenon DEF Types
<1>5. avail' \in [KSem -> Nat] /\ waiting' \in [KSem -> SUBSET MailThread]
  <2>1. CASE S!Take(c, l)
    BY <1>1, <1>3, <2>1, TakeIs, Zenon
  <2>2. CASE S!Wait(c, l)
    BY <1>1, <1>3, <2>2, WaitIs, Zenon
  <2> QED
    BY <1>2, <2>1, <2>2, Zenon
<1>6. Types'
  BY <1>1, <1>2, <1>4, <1>5, Zenon DEF Types, net
<1>7. Scripted'
  <2>1. step[c] \in 1..Len(script[c])
    BY <1>1, <1>2 DEF Types
  <2> QED
    BY <1>1, <1>2, <1>4, <2>1, Zenon DEF Scripted, Now
<1>8. InOrder' /\ AllPast'
  <2>1. \A x \in Mail : Past(x) => Past(x)'
    BY <1>2, <1>4, Zenon DEF Past, Mail
  <2> QED
    BY <1>1, <1>2, <2>1, KeepOrder, Zenon DEF net
<1>9. CASE S!Take(c, l)
  <2>1. /\ avail[l] > 0 /\ waiting' = waiting
        /\ \A r \in KSem : avail'[r] = IF r = l THEN avail[l] - 1 ELSE avail[r]
    BY <1>1, <1>3, <1>9, TakeIs, Zenon
  <2>2. avail[l] = 1
    BY <1>1, <1>3, <2>1 DEF Locks, Types
  <2>3. Waits'
    BY <1>1, <1>2, <1>4, <2>1, Zenon DEF Waits
  <2>4. \A d \in Client : d # c => (Holds(d)' <=> Holds(d))
    BY <1>4, <2>1, Zenon DEF Holds
  <2>5. \A d \in Client : Holds(d) => HostOf[d] # h
    BY <1>1, <2>2 DEF Locks
  <2>6. \A g \in Host : /\ avail'[sendLock(g)] = IF g = h THEN 0 ELSE avail[sendLock(g)]
                        /\ avail'[messageSent(g)] = avail[messageSent(g)]
                        /\ avail'[messageAvailable(g)] = avail[messageAvailable(g)]
    BY <1>1, <2>1, <2>2, SemsDiffer
  <2>7. Locks'
    <3>1. \A d \in Client : HostOf[d] \in Host
      BY Zenon DEF Setting
    <3>2. \A d \in Client : Holds(d)' => avail'[sendLock(HostOf[d])] = 0
      BY <1>1, <2>4, <2>6, <3>1, Zenon DEF Locks
    <3>3. \A d, e \in Client : Holds(d)' /\ Holds(e)' /\ HostOf[d] = HostOf[e] => d = e
      BY <1>1, <2>4, <2>5, Zenon DEF Locks
    <3>4. \A g \in Host : avail'[sendLock(g)] <= 1
      BY <1>1, <2>6 DEF Locks
    <3> QED
      BY <3>2, <3>3, <3>4, Zenon DEF Locks
  <2>8. Sends'
    BY <1>1, <1>2, <2>1, <2>6, Zenon DEF Sends, net
  <2>9. Signals'
    BY <1>1, <1>2, <2>1, <2>6, KeepSignals, Zenon DEF net
  <2> QED
    BY <1>6, <1>7, <1>8, <2>3, <2>7, <2>8, <2>9, Zenon DEF Structure
<1>10. CASE S!Wait(c, l)
  <2>1. /\ avail' = avail
        /\ \A r \in KSem : waiting'[r] = IF r = l THEN waiting[l] \cup {c} ELSE waiting[r]
    BY <1>1, <1>3, <1>10, WaitIs, Zenon
  <2>2. \A g \in Host : Worker(g) # c
    BY Zenon DEF Setting
  <2>3. /\ \A r \in KSem, d \in Client : d \in waiting'[r] <=> d \in waiting[r] \/ (r = l /\ d = c)
        /\ \A r \in KSem, g \in Host : Worker(g) \in waiting'[r] <=> Worker(g) \in waiting[r]
    BY <1>3, <2>1, <2>2, Zenon
  <2>4. Waits'
    BY <1>1, <1>2, <1>4, <2>3, Zenon DEF Waits
  <2>5. \A d \in Client : Holds(d)' <=> Holds(d)
    <3>1. \A d \in Client : sendLock(HostOf[d]) \in KSem
      BY SemsDiffer, Zenon DEF Setting
    <3> QED
      BY <1>2, <1>4, <2>3, <3>1, Zenon DEF Holds
  <2>6. Locks'
    BY <1>1, <2>1, <2>5, Zenon DEF Locks
  <2>7. Sends'
    <3>1. \A g \in Host : waiting'[messageSent(g)] = waiting[messageSent(g)]
      BY <1>1, <2>1, SemsDiffer, Zenon
    <3> QED
      BY <1>1, <1>2, <2>1, <3>1, Zenon DEF Sends, net
  <2>8. Signals'
    BY <1>1, <1>2, <2>1, <2>3, KeepSignals, Zenon DEF net
  <2> QED
    BY <1>6, <1>7, <1>8, <2>4, <2>6, <2>7, <2>8, Zenon DEF Structure
<1> QED
  BY <1>2, <1>9, <1>10, Zenon

\* What a client sends is a mail, younger than all that it sent before.
LEMMA PacketIs ==
  ASSUME Setting, Structure, NEW c \in Client, At(c, "locked")
  PROVE  /\ Packet(c) \in Mail /\ Packet(c).id = <<c, step[c]>>
         /\ \A x \in Mail : Past(x) => Before(x, Packet(c))
<1> DEFINE k == Now(c)
<1>1. /\ pc[c] = "locked" /\ HostOf[c] \in Host
      /\ step[c] \in 1..Len(script[c]) /\ k.op \in {"send", "answer"}
      /\ script[c] \in Seq(Calls) /\ mail[c] \in Mail \cup {NoMail} /\ step[c] \in Nat
  BY Zenon DEF At, Setting, Structure, Scripted, Types, WellFormed
<1>2. k \in Calls
  BY <1>1 DEF Now
<1>3. k.op = "answer" => mail[c] \in Mail
  <2> SUFFICES ASSUME k.op = "answer"
               PROVE  mail[c] # NoMail
    BY <1>1, Zenon
  <2>1. \E j \in 1..(step[c] - 1) : script[c][j].op = "receive"
    BY <1>1, Zenon DEF Structure, Scripted, WellFormed, Now
  <2>2. \E j \in 1..Len(script[c]) : j < step[c] /\ script[c][j].op = "receive"
    BY <1>1, <2>1
  <2> QED
    BY <2>2, Zenon DEF Structure, Scripted
<1> HIDE DEF k
<1>4. /\ (IF k.op = "answer" THEN mail[c].from ELSE k.to) \in Host
      /\ (IF k.op = "answer" THEN mail[c].reply ELSE k.box) \in Box
      /\ k.reply \in Box
  BY <1>2, <1>3, Zenon DEF Mail, Calls
<1>5. Packet(c) \in Mail /\ Packet(c).id = <<c, step[c]>>
  BY <1>1, <1>4, Zenon DEF Packet, Mail, k
<1>6. ASSUME NEW x \in Mail, Past(x)
      PROVE  Before(x, Packet(c))
  BY <1>1, <1>5, <1>6 DEF Past, Before
<1> QED
  BY <1>5, <1>6, Zenon

\* NetworkOutput::Send, and the wait for the interrupt.
LEMMA SendPacketStep ==
  ASSUME Setting, Structure, NEW c \in Client, NEW lost \in BOOLEAN, SendPacket(c, lost)
  PROVE  Structure'
<1> DEFINE h == HostOf[c]
           m == messageSent(h)
<1>1. /\ Types /\ Scripted /\ Waits /\ Locks /\ Sends /\ Signals /\ InOrder /\ AllPast
      /\ h \in Host /\ c \in MailThread
  BY Zenon DEF Structure, Setting, MailThread
<1>2. /\ At(c, "locked")
      /\ sendInt' = [sendInt EXCEPT ![h] = @ + 1]
      /\ \/ wire' = wire
         \/ /\ Packet(c).to \in up
            /\ wire' = [wire EXCEPT ![Packet(c).to] = Append(@, Packet(c))]
      /\ S!Take(c, m) \/ S!Wait(c, m)
      /\ pc' = [pc EXCEPT ![c] = "sent"]
      /\ UNCHANGED <<script, started, up, inHdr, worker, boxes, step, mail>>
  BY Zenon DEF SendPacket, SendToSocket, Goto
<1>3. m \in KSem /\ waiting[m] = {} /\ Holds(c) /\ pc[c] = "locked"
  BY <1>1, <1>2, NoneSending, SemsDiffer, Zenon DEF At
<1>4. sendInt[h] = 0 /\ avail[m] = 0
  <2>1. sendInt[h] \in Nat /\ avail[m] \in Nat /\ sendInt[h] + avail[m] = 0
    BY <1>1, <1>3, Zenon DEF Types, Sends
  <2> QED
    BY <2>1
<1>5. S!Wait(c, m)
  BY <1>2, <1>4 DEF S!Take
<1>6. /\ \A r \in KSem : c \notin waiting[r]
      /\ avail' = avail /\ avail' \in [KSem -> Nat]
      /\ waiting' \in [KSem -> SUBSET MailThread]
      /\ \A r \in KSem : waiting'[r] = IF r = m THEN waiting[m] \cup {c} ELSE waiting[r]
  <2> HIDE DEF m
  <2>1. m \in KSem
    BY <1>3, Zenon
  <2> QED
    BY <1>1, <1>5, <2>1, WaitIs, Zenon
<1>7. /\ pc' \in [Client -> {"user", "locked", "sent"}]
      /\ \A d \in Client : pc'[d] = IF d = c THEN "sent" ELSE pc[d]
      /\ sendInt' \in [Host -> Nat]
      /\ \A g \in Host : sendInt'[g] = IF g = h THEN 1 ELSE sendInt[g]
  BY <1>1, <1>2, <1>4 DEF Types
<1>8. PICK p \in Mail : /\ p = Packet(c) /\ p.id = <<c, step[c]>>
                       /\ \A x \in Mail : Past(x) => Before(x, p)
  BY <1>2, PacketIs, Zenon
<1> HIDE DEF m
<1>9. /\ wire' \in [Host -> Seq(Mail)]
      /\ \A g \in Host : wire'[g] = wire[g] \/ wire'[g] = Append(wire[g], p)
  <2>1. wire \in [Host -> Seq(Mail)] /\ \A g \in Host : Append(wire[g], p) \in Seq(Mail)
    BY <1>1, <1>8 DEF Types
  <2> DEFINE T == Seq(Mail)
  <2>2. wire \in [Host -> T] /\ \A g \in Host : Append(wire[g], p) \in T
    BY <2>1, Zenon
  <2> HIDE DEF T, Mail
  <2>3. \/ wire' = wire
        \/ p.to \in Host /\ wire' = [wire EXCEPT ![p.to] = Append(wire[p.to], p)]
    BY <1>1, <1>2, <1>8, Zenon DEF Types
  <2>4. CASE wire' = wire
    BY <2>2, <2>4, Zenon DEF T
  <2>5. CASE p.to \in Host /\ wire' = [wire EXCEPT ![p.to] = Append(wire[p.to], p)]
    <3> DEFINE a == p.to
               e == Append(wire[a], p)
    <3>1. a \in Host /\ e \in T /\ wire' = [wire EXCEPT ![a] = e]
      BY <2>2, <2>5, Zenon
    <3> HIDE DEF a, e
    <3>2. /\ wire' \in [Host -> T]
          /\ \A g \in Host : wire'[g] = IF g = a THEN e ELSE wire[g]
      BY <2>2, <3>1, Zenon
    <3> QED
      BY <3>2, Zenon DEF T, e
  <2> QED
    BY <2>3, <2>4, <2>5, Zenon
<1>10. Types'
  BY <1>1, <1>2, <1>6, <1>7, <1>9, Zenon DEF Types
<1>11. Scripted'
  BY <1>1, <1>2, <1>3, <1>7, Zenon DEF Scripted, Now
<1>12. \A g \in Host : Worker(g) # c
  BY Zenon DEF Setting
<1>13. /\ \A r \in KSem, d \in Client : d \in waiting'[r] <=> d \in waiting[r] \/ (r = m /\ d = c)
       /\ \A r \in KSem, g \in Host : Worker(g) \in waiting'[r] <=> Worker(g) \in waiting[r]
  BY <1>3, <1>6, <1>12, Zenon
<1>14. Waits'
  <2>1. \A r \in KSem : c \notin waiting[r]
    BY <1>6, Zenon
  <2> QED
    BY <1>1, <1>2, <1>7, <1>13, <2>1 DEF Waits, m
<1>15. Locks'
  <2>1. \A d \in Client : sendLock(HostOf[d]) \in KSem /\ sendLock(HostOf[d]) # m
    BY <1>1, SemsDiffer, Zenon DEF Setting, m
  <2>2. \A d \in Client : Holds(d)' <=> Holds(d)
    BY <1>3, <1>7, <1>13, <2>1, Zenon DEF Holds
  <2> QED
    BY <1>1, <1>6, <2>2, Zenon DEF Locks
<1>16. Sends'
  <2>1. \A g \in Host : waiting'[messageSent(g)] = IF g = h THEN {c} ELSE waiting[messageSent(g)]
    BY <1>1, <1>3, <1>6, SemsDiffer, Zenon DEF m
  <2>2. avail'[messageSent(h)] = 0
    BY <1>4, <1>6, Zenon DEF m
  <2> QED
    BY <1>1, <1>6, <1>7, <2>1, <2>2 DEF Sends
<1>17. Signals'
  BY <1>1, <1>2, <1>6, <1>13, KeepSignals, Zenon
<1>18. \A x \in Mail : Past(x) => PastNext(x)
  BY <1>2, <1>3, <1>7, Zenon DEF Past, PastNext, Mail
<1>19. PastNext(p)
  <2>1. p.id[1] = c /\ p.id[2] = step[c]
    BY <1>8
  <2>2. pc'[c] = "sent" /\ step' = step
    BY <1>2, <1>7, Zenon
  <2> QED
    BY <2>1, <2>2, Zenon DEF PastNext
<1>20. /\ \A g \in Host, b \in Box : boxes[g][b] \in Seq(Mail)
       /\ \A g \in Host : worker[g].mail # NoMail => worker[g].mail \in Mail
       /\ \A g \in Host : inHdr[g] # NoMail => inHdr[g] \in Mail
       /\ \A g \in Host : wire[g] \in Seq(Mail)
  BY <1>1, Zenon DEF Types
<1>21. /\ \A g \in Host, b \in Box : \A i \in 1..Len(boxes[g][b]) : boxes[g][b][i] \in Mail
       /\ \A g \in Host : \A i \in 1..Len(wire[g]) : wire[g][i] \in Mail
  BY <1>20
<1>22. AllPast'
  <2> SUFFICES ASSUME NEW g \in Host
               PROVE  \A i \in 1..Len(wire'[g]) : PastNext(wire'[g][i])
    <3>1. \A f \in Host :
            /\ \A b \in Box : \A i \in 1..Len(boxes[f][b]) : PastNext(boxes[f][b][i])
            /\ worker[f].mail # NoMail => PastNext(worker[f].mail)
            /\ inHdr[f] # NoMail => PastNext(inHdr[f])
      BY <1>1, <1>18, <1>20, <1>21, Zenon DEF AllPast
    <3>2. \A f \in Host :
            /\ \A b \in Box : \A i \in 1..Len(boxes'[f][b]) : PastNext(boxes'[f][b][i])
            /\ worker'[f].mail # NoMail => PastNext(worker'[f].mail)
            /\ inHdr'[f] # NoMail => PastNext(inHdr'[f])
      BY <1>2, <3>1, Zenon
    <3> QED
      BY <3>2, Zenon DEF AllPast, Past, PastNext
  <2>1. \A i \in 1..Len(wire[g]) : PastNext(wire[g][i])
    BY <1>1, <1>18, <1>21, Zenon DEF AllPast
  <2>2. CASE wire'[g] = wire[g]
    BY <2>1, <2>2, Zenon
  <2>3. CASE wire'[g] = Append(wire[g], p)
    <3> DEFINE A == Append(wire[g], p)
    <3>1. \A i \in 1..Len(A) : (i \in 1..Len(wire[g]) /\ A[i] = wire[g][i]) \/ A[i] = p
      BY <1>8, <1>20
    <3> HIDE DEF A
    <3>2. \A i \in 1..Len(A) : PastNext(A[i])
      BY <1>19, <2>1, <3>1, Zenon
    <3> QED
      BY <2>3, <3>2, Zenon DEF A
  <2> QED
    BY <1>9, <2>2, <2>3, Zenon
<1>23. InOrder'
  <2> SUFFICES ASSUME NEW g \in Host, NEW b \in Box
               PROVE  Ordered(boxes[g][b], worker[g].mail, inHdr[g], wire'[g])
    BY <1>2, Zenon DEF InOrder
  <2>1. Ordered(boxes[g][b], worker[g].mail, inHdr[g], wire[g])
    BY <1>1, Zenon DEF InOrder
  <2>2. CASE wire'[g] = wire[g]
    BY <2>1, <2>2, Zenon
  <2>3. CASE wire'[g] = Append(wire[g], p)
    <3>1. /\ \A i \in 1..Len(boxes[g][b]) : Before(boxes[g][b][i], p)
          /\ \A i \in 1..Len(wire[g]) : Before(wire[g][i], p)
          /\ worker[g].mail # NoMail => Before(worker[g].mail, p)
          /\ inHdr[g] # NoMail => Before(inHdr[g], p)
      BY <1>1, <1>8, <1>20, <1>21, Zenon DEF AllPast
    <3> QED
      BY <1>8, <1>20, <2>1, <2>3, <3>1, OrderSend, Zenon
  <2> QED
    BY <1>9, <2>2, <2>3, Zenon
<1> QED
  BY <1>10, <1>11, <1>14, <1>15, <1>16, <1>17, <1>22, <1>23, Zenon DEF Structure

\* The lock is given back.
LEMMA SendReleaseStep ==
  ASSUME Setting, Structure, NEW c \in Client, SendRelease(c)
  PROVE  Structure'
<1> DEFINE h == HostOf[c]
           l == sendLock(h)
<1>1. /\ Types /\ Scripted /\ Waits /\ Locks /\ Sends /\ Signals /\ InOrder /\ AllPast
      /\ h \in Host
  BY Zenon DEF Structure, Setting
<1>2. /\ pc[c] = "sent" /\ \A s \in KSem : c \notin waiting[s]
      /\ S!Release(l)
      /\ pc' = [pc EXCEPT ![c] = "user"] /\ step' = [step EXCEPT ![c] = @ + 1]
      /\ UNCHANGED <<script, started, up, net, worker, boxes, mail>>
  BY Zenon DEF SendRelease, At, Return, Goto, S!IsWaiting
<1>3. l \in KSem
  BY <1>1, SemsDiffer, Zenon
<1>4. /\ pc' \in [Client -> {"user", "locked", "sent"}]
      /\ \A d \in Client : pc'[d] = IF d = c THEN "user" ELSE pc[d]
      /\ step' \in [Client -> Nat \ {0}]
      /\ \A d \in Client : step'[d] = IF d = c THEN step[c] + 1 ELSE step[d]
  BY <1>1, <1>2 DEF Types
<1>5. /\ avail' \in [KSem -> Nat]
      /\ \A r \in KSem : avail'[r] = IF r = l THEN avail[l] + 1 ELSE avail[r]
      /\ waiting' = waiting /\ waiting' \in [KSem -> SUBSET MailThread]
  BY <1>1, <1>2, <1>3, ReleaseIs, Zenon
<1>6. Types'
  BY <1>1, <1>2, <1>4, <1>5, Zenon DEF Types, net
<1>7. Scripted'
  <2> SUFFICES ASSUME NEW d \in Client
               PROVE  /\ WellFormed(script[d])
                      /\ pc'[d] # "user" => /\ step'[d] \in 1..Len(script[d])
                                            /\ script[d][step'[d]].op \in {"send", "answer"}
                      /\ (\E k \in 1..Len(script[d]) :
                            k < step'[d] /\ script[d][k].op = "receive") => mail[d] # NoMail
    BY <1>2, Zenon DEF Scripted, Now
  <2>1. CASE d # c
    BY <1>1, <1>4, <2>1, Zenon DEF Scripted, Now
  <2>2. CASE d = c
    <3>1. script[c][step[c]].op # "receive" /\ step[c] \in Nat
      <4>1. Now(c).op \in {"send", "answer"}
        BY <1>1, <1>2, Zenon DEF Scripted
      <4>2. step[c] \in Nat
        BY <1>1, Zenon DEF Types
      <4> QED
        BY <4>1, <4>2, Zenon DEF Now
    <3>2. \A k \in 1..Len(script[c]) : k < step'[c] /\ script[c][k].op = "receive" => k < step[c]
      BY <1>4, <3>1
    <3> QED
      BY <1>1, <1>4, <2>2, <3>2, Zenon DEF Scripted
  <2> QED
    BY <2>1, <2>2, Zenon
<1>8. InOrder' /\ AllPast'
  <2>1. \A x \in Mail : Past(x) => Past(x)'
    BY <1>1, <1>2, <1>4 DEF Past, Mail, Types
  <2> QED
    BY <1>1, <1>2, <2>1, KeepOrder, Zenon DEF net
<1>9. Waits'
  BY <1>1, <1>2, <1>4, <1>5, Zenon DEF Waits
<1>10. \A g \in Host : /\ avail'[sendLock(g)] = IF g = h THEN avail[l] + 1 ELSE avail[sendLock(g)]
                       /\ avail'[messageSent(g)] = avail[messageSent(g)]
                       /\ avail'[messageAvailable(g)] = avail[messageAvailable(g)]
  BY <1>1, <1>5, SemsDiffer, Zenon
<1>11. Holds(c) /\ avail[l] = 0
  <2>1. Holds(c)
    BY <1>2, <1>3, Zenon DEF Holds
  <2> QED
    BY <1>1, <2>1, Zenon DEF Locks
<1>12. Locks'
  <2>1. ~Holds(c)' /\ \A d \in Client : d # c => (Holds(d)' <=> Holds(d))
    BY <1>4, <1>5, Zenon DEF Holds
  <2>2. \A d \in Client : HostOf[d] \in Host
    BY Zenon DEF Setting
  <2>3. \A d \in Client : Holds(d)' => avail'[sendLock(HostOf[d])] = 0
    <3>1. \A d \in Client : Holds(d)' => d # c /\ Holds(d) /\ HostOf[d] # h
      BY <1>1, <1>11, <2>1, Zenon DEF Locks
    <3> QED
      BY <1>1, <1>10, <2>2, <3>1, Zenon DEF Locks
  <2>4. \A d, e \in Client : Holds(d)' /\ Holds(e)' /\ HostOf[d] = HostOf[e] => d = e
    BY <1>1, <2>1, Zenon DEF Locks
  <2>5. \A g \in Host : avail'[sendLock(g)] <= 1
    BY <1>1, <1>10, <1>11 DEF Locks
  <2> QED
    BY <2>3, <2>4, <2>5, Zenon DEF Locks
<1>13. Sends'
  BY <1>1, <1>2, <1>5, <1>10, Zenon DEF Sends, net
<1>14. Signals'
  BY <1>1, <1>2, <1>5, <1>10, KeepSignals, Zenon DEF net
<1> QED
  BY <1>6, <1>7, <1>8, <1>9, <1>12, <1>13, <1>14, Zenon DEF Structure

\* The boxes after one of them was given a new content.
LEMMA BoxIs ==
  ASSUME Types, NEW h \in Host, NEW b \in Box, NEW e \in Seq(Mail),
         boxes' = [boxes EXCEPT ![h][b] = e]
  PROVE  /\ boxes' \in [Host -> [Box -> Seq(Mail)]]
         /\ \A g \in Host, d \in Box :
              boxes'[g][d] = IF g = h /\ d = b THEN e ELSE boxes[g][d]
<1> DEFINE T == Seq(Mail)
<1>1. boxes \in [Host -> [Box -> T]] /\ e \in T
  BY Zenon DEF Types
<1> HIDE DEF T
<1>2. /\ [boxes[h] EXCEPT ![b] = e] \in [Box -> T]
      /\ \A d \in Box : [boxes[h] EXCEPT ![b] = e][d] = IF d = b THEN e ELSE boxes[h][d]
  BY <1>1, Zenon
<1>3. boxes' = [boxes EXCEPT ![h] = [boxes[h] EXCEPT ![b] = e]]
  BY Zenon
<1>4. /\ boxes' \in [Host -> [Box -> T]]
      /\ \A g \in Host : boxes'[g] = IF g = h THEN [boxes[h] EXCEPT ![b] = e] ELSE boxes[g]
  BY <1>1, <1>2, <1>3, Zenon
<1> QED
  BY <1>2, <1>4, Zenon DEF T

\* AllPast, from its parts.
LEMMA AllPastNext ==
  ASSUME \A g \in Host :
           /\ \A b \in Box : \A i \in 1..Len(boxes'[g][b]) : PastNext(boxes'[g][b][i])
           /\ worker'[g].mail # NoMail => PastNext(worker'[g].mail)
           /\ inHdr'[g] # NoMail => PastNext(inHdr'[g])
           /\ \A i \in 1..Len(wire'[g]) : PastNext(wire'[g][i])
  PROVE  AllPast'
  BY Zenon DEF AllPast, Past, PastNext

\* PostOfficeInput::Receive.
LEMMA ReceiveStep ==
  ASSUME Setting, Structure, NEW c \in Client, Receive(c)
  PROVE  Structure'
<1> DEFINE h == HostOf[c]
           b == Now(c).box
<1>1. /\ Types /\ Scripted /\ Waits /\ Locks /\ Sends /\ Signals /\ InOrder /\ AllPast
      /\ h \in Host
  BY Zenon DEF Structure, Setting
<1>2. /\ pc[c] = "user" /\ step[c] <= Len(script[c])
      /\ boxes[h][b] # <<>>
      /\ mail' = [mail EXCEPT ![c] = Head(boxes[h][b])]
      /\ boxes' = [boxes EXCEPT ![h][b] = Tail(boxes[h][b])]
      /\ pc' = [pc EXCEPT ![c] = "user"] /\ step' = [step EXCEPT ![c] = @ + 1]
      /\ UNCHANGED <<script, started, up, net, avail, waiting, worker>>
  BY Zenon DEF Receive, Get, At, Ready, Return, Goto
<1>3. b \in Box
  <2>1. script[c] \in Seq(Calls) /\ step[c] \in 1..Len(script[c])
    BY <1>1, <1>2 DEF Types
  <2>2. Now(c) \in Calls
    BY <2>1 DEF Now
  <2> QED
    BY <2>2, Zenon DEF Calls
<1> HIDE DEF b
<1> DEFINE B == boxes[h][b]
<1>4. B \in Seq(Mail) /\ B # <<>>
  BY <1>1, <1>2, <1>3, Zenon DEF Types
<1>5. Head(B) \in Mail /\ Tail(B) \in Seq(Mail)
  BY <1>4
<1>6. /\ boxes' \in [Host -> [Box -> Seq(Mail)]]
      /\ \A g \in Host, d \in Box :
           boxes'[g][d] = IF g = h /\ d = b THEN Tail(B) ELSE boxes[g][d]
  <2> HIDE DEF h
  <2> QED
    BY <1>1, <1>2, <1>3, <1>5, BoxIs, Zenon
<1>7. /\ pc' = pc
      /\ mail' \in [Client -> Mail \cup {NoMail}]
      /\ \A d \in Client : mail'[d] = IF d = c THEN Head(B) ELSE mail[d]
      /\ step' \in [Client -> Nat \ {0}]
      /\ \A d \in Client : step'[d] = IF d = c THEN step[c] + 1 ELSE step[d]
  <2>1. pc' = pc
    BY <1>1, <1>2, Zenon DEF Types
  <2>2. /\ step' \in [Client -> Nat \ {0}]
        /\ \A d \in Client : step'[d] = IF d = c THEN step[c] + 1 ELSE step[d]
    BY <1>1, <1>2 DEF Types
  <2>3. Head(B) \in Mail \cup {NoMail} /\ mail \in [Client -> Mail \cup {NoMail}]
    BY <1>1, <1>5, Zenon DEF Types
  <2> DEFINE T == Mail \cup {NoMail}
             e == Head(B)
  <2>4. mail \in [Client -> T] /\ e \in T /\ mail' = [mail EXCEPT ![c] = e]
    BY <1>2, <2>3, Zenon
  <2> HIDE DEF T, e
  <2>5. /\ mail' \in [Client -> T]
        /\ \A d \in Client : mail'[d] = IF d = c THEN e ELSE mail[d]
    BY <2>4, Zenon
  <2> QED
    BY <2>1, <2>2, <2>5, Zenon DEF T, e
<1> HIDE DEF B
<1>8. Types'
  BY <1>1, <1>2, <1>6, <1>7, Zenon DEF Types, net
<1>9. Scripted'
  <2> SUFFICES ASSUME NEW d \in Client
               PROVE  /\ WellFormed(script[d])
                      /\ pc[d] # "user" => /\ step'[d] \in 1..Len(script[d])
                                           /\ script[d][step'[d]].op \in {"send", "answer"}
                      /\ (\E k \in 1..Len(script[d]) :
                            k < step'[d] /\ script[d][k].op = "receive") => mail'[d] # NoMail
    BY <1>2, <1>7, Zenon DEF Scripted, Now
  <2>1. CASE d # c
    BY <1>1, <1>7, <2>1, Zenon DEF Scripted, Now
  <2>2. CASE d = c
    <3>1. Head(B) # NoMail
      BY <1>5, Zenon DEF Setting
    <3> QED
      BY <1>1, <1>2, <1>7, <2>2, <3>1, Zenon DEF Scripted
  <2> QED
    BY <2>1, <2>2, Zenon
<1>10. Waits' /\ Locks' /\ Sends'
  BY <1>1, <1>2, <1>7, KeepLocks, Zenon DEF Waits, net
<1>11. Signals'
  BY <1>1, <1>2, KeepSignals, Zenon DEF net
<1>12. InOrder'
  <2>1. Ordered(Tail(B), worker[h].mail, inHdr[h], wire[h])
    <3>1. Ordered(B, worker[h].mail, inHdr[h], wire[h]) /\ wire[h] \in Seq(Mail)
      BY <1>1, <1>3, Zenon DEF InOrder, B, Types
    <3> QED
      BY <1>4, <3>1, OrderGet, Zenon
  <2> QED
    BY <1>1, <1>2, <1>6, <2>1, Zenon DEF InOrder, net
<1>13. AllPast'
  <2>1. \A x \in Mail : Past(x) => PastNext(x)
    <3>1. \A d \in Client : step[d] \in Nat /\ (step'[d] = step[d] \/ step'[d] = step[d] + 1)
      BY <1>1, <1>7, Zenon DEF Types
    <3>2. \A x \in Mail : x.id[1] \in Client /\ x.id[2] \in Nat
      BY Zenon DEF Mail
    <3>3. pc' = pc /\ \A d \in Client : pc[d] = "sent" => step'[d] = step[d]
      BY <1>2, <1>7, Zenon
    <3> HIDE DEF Mail
    <3> QED
      BY <3>1, <3>2, <3>3 DEF Past, PastNext
  <2>2. /\ \A g \in Host, d \in Box : boxes[g][d] \in Seq(Mail)
        /\ \A g \in Host : worker[g].mail # NoMail => worker[g].mail \in Mail
        /\ \A g \in Host : inHdr[g] # NoMail => inHdr[g] \in Mail
        /\ \A g \in Host : wire[g] \in Seq(Mail)
    BY <1>1, Zenon DEF Types
  <2>3. /\ \A g \in Host, d \in Box : \A i \in 1..Len(boxes[g][d]) : PastNext(boxes[g][d][i])
        /\ \A g \in Host : \A i \in 1..Len(wire[g]) : PastNext(wire[g][i])
    BY <1>1, <2>1, <2>2 DEF AllPast
  <2>4. \A i \in 1..Len(Tail(B)) : PastNext(Tail(B)[i])
    <3>1. \A i \in 1..Len(Tail(B)) : i + 1 \in 1..Len(B) /\ Tail(B)[i] = B[i + 1]
      BY <1>4
    <3>2. \A i \in 1..Len(B) : PastNext(B[i])
      BY <1>1, <1>3, <2>3, Zenon DEF B
    <3> QED
      BY <3>1, <3>2, Zenon
  <2>5. \A g \in Host : /\ worker'[g].mail # NoMail => PastNext(worker'[g].mail)
                        /\ inHdr'[g] # NoMail => PastNext(inHdr'[g])
                        /\ \A i \in 1..Len(wire'[g]) : PastNext(wire'[g][i])
    BY <1>1, <1>2, <2>1, <2>2, <2>3, Zenon DEF AllPast, net
  <2>6. ASSUME NEW g \in Host, NEW d \in Box
        PROVE  \A i \in 1..Len(boxes'[g][d]) : PastNext(boxes'[g][d][i])
    <3>1. CASE g = h /\ d = b
      <4>1. boxes'[g][d] = Tail(B)
        BY <1>6, <3>1, Zenon
      <4> QED
        BY <2>4, <4>1, Zenon
    <3>2. CASE ~(g = h /\ d = b)
      <4>1. boxes'[g][d] = boxes[g][d]
        BY <1>6, <3>2, Zenon
      <4> QED
        BY <2>3, <4>1, Zenon
    <3> QED
      BY <3>1, <3>2, Zenon
  <2> QED
    BY <2>5, <2>6, AllPastNext, Zenon
<1> QED
  BY <1>8, <1>9, <1>10, <1>11, <1>12, <1>13, Zenon DEF Structure

\* Who waits for messageSent has the lock.
LEMMA SentHolder ==
  ASSUME Setting, Structure, NEW h \in Host, NEW d \in waiting[messageSent(h)]
  PROVE  d \in Client /\ HostOf[d] = h /\ Holds(d)
<1>1. messageSent(h) \in KSem /\ sendLock(h) \in KSem
  BY SemsDiffer, Zenon
<1>2. d \in Client \cup {Worker(g) : g \in Host}
  BY <1>1, Zenon DEF Structure, Types, MailThread
<1>3. d \in Client
  <2>1. \A g \in Host : messageSent(h) # messageAvailable(g)
    BY Zenon DEF messageSent, messageAvailable
  <2> QED
    BY <1>1, <1>2, <2>1, Zenon DEF Structure, Waits
<1>4. pc[d] = "sent" /\ HostOf[d] = h
  <2>1. \A g : messageSent(h) # sendLock(g) /\ (messageSent(h) = messageSent(g) => h = g)
    BY Zenon DEF messageSent, sendLock
  <2> QED
    BY <1>1, <1>3, <2>1, Zenon DEF Structure, Waits
<1>5. Holds(d)
  BY <1>1, <1>3, <1>4, Zenon DEF Structure, Waits, Holds, sendLock, messageSent
<1> QED
  BY <1>3, <1>4, <1>5, Zenon

\* A client goes on inside Send.
LEMMA WakeClientStep ==
  ASSUME Setting, Structure, NEW c \in Client, NEW s \in KSem, WakeClient(c, s)
  PROVE  Structure'
<1> DEFINE h == HostOf[c]
<1>1. /\ Types /\ Scripted /\ Waits /\ Locks /\ Sends /\ Signals /\ InOrder /\ AllPast
      /\ h \in Host /\ c \in MailThread
  BY Zenon DEF Structure, Setting, MailThread
<1>2. /\ S!Grant(c, s)
      /\ UNCHANGED <<script, started, up, net, worker, boxes, pc, step, mail>>
  BY Zenon DEF WakeClient
<1>3. /\ c \in waiting[s]
      /\ avail[s] > 0 /\ avail' \in [KSem -> Nat]
      /\ \A r \in KSem : avail'[r] = IF r = s THEN avail[s] - 1 ELSE avail[r]
      /\ waiting' \in [KSem -> SUBSET MailThread]
      /\ \A r \in KSem : waiting'[r] = IF r = s THEN waiting[s] \ {c} ELSE waiting[r]
  <2>1. Types /\ c \in MailThread
    BY <1>1, Zenon
  <2>2. S!Grant(c, s)
    BY <1>2, Zenon
  <2>3. Granted(c, s)
    BY <2>1, <2>2, GrantIs, Zenon
  <2> QED
    BY <2>3, Zenon DEF Granted
<1>4. \/ s = sendLock(h) /\ pc[c] = "locked"
      \/ s = messageSent(h) /\ pc[c] = "sent"
  BY <1>1, <1>3, Zenon DEF Waits
<1>5. Types'
  BY <1>1, <1>2, <1>3, Zenon DEF Types, net
<1>6. Scripted'
  BY <1>1, <1>2, KeepScripted, Zenon
<1>7. InOrder' /\ AllPast'
  BY <1>1, <1>2, KeepOrder, Zenon DEF net, Past
<1>8. \A g \in Host : Worker(g) # c
  BY Zenon DEF Setting
<1>9. /\ \A r \in KSem, d \in Client : d \in waiting'[r] <=> d \in waiting[r] /\ ~(r = s /\ d = c)
      /\ \A r \in KSem, g \in Host : Worker(g) \in waiting'[r] <=> Worker(g) \in waiting[r]
  BY <1>3, <1>8, Zenon
<1>10. Waits'
  BY <1>1, <1>2, <1>9, Zenon DEF Waits
<1>11. Signals'
  <2>1. \A g \in Host : avail'[messageAvailable(g)] = avail[messageAvailable(g)]
    BY <1>1, <1>3, <1>4, SemsDiffer
  <2> QED
    BY <1>1, <1>2, <1>9, <2>1, KeepSignals, Zenon DEF net
<1>12. \A d \in Client : HostOf[d] \in Host /\ sendLock(HostOf[d]) \in KSem
  BY SemsDiffer, Zenon DEF Setting
<1>13. CASE s = sendLock(h)
  <2>1. avail[s] = 1 /\ pc[c] = "locked"
    <3>1. s # messageSent(h)
      BY <1>1, <1>13, SemsDiffer, Zenon
    <3>2. avail[s] \in Nat /\ avail[s] <= 1
      BY <1>1, <1>13, Zenon DEF Types, Locks
    <3> QED
      BY <1>3, <1>4, <3>1, <3>2
  <2>2. \A g \in Host : /\ avail'[sendLock(g)] = IF g = h THEN 0 ELSE avail[sendLock(g)]
                        /\ avail'[messageSent(g)] = avail[messageSent(g)]
                        /\ waiting'[messageSent(g)] = waiting[messageSent(g)]
    BY <1>1, <1>3, <1>13, <2>1, SemsDiffer
  <2>3. \A d \in Client : d # c => (Holds(d)' <=> Holds(d))
    BY <1>2, <1>9, <1>12, Zenon DEF Holds
  <2>4. \A d \in Client : Holds(d) => HostOf[d] # h
    BY <1>1, <1>13, <2>1 DEF Locks
  <2>5. Locks'
    <3>1. \A d \in Client : Holds(d)' => avail'[sendLock(HostOf[d])] = 0
      BY <1>1, <1>12, <2>2, <2>3, Zenon DEF Locks
    <3>2. \A d, e \in Client : Holds(d)' /\ Holds(e)' /\ HostOf[d] = HostOf[e] => d = e
      BY <1>1, <2>3, <2>4, Zenon DEF Locks
    <3>3. \A g \in Host : avail'[sendLock(g)] <= 1
      BY <1>1, <2>2 DEF Locks
    <3> QED
      BY <3>1, <3>2, <3>3, Zenon DEF Locks
  <2>6. Sends'
    BY <1>1, <1>2, <2>2, Zenon DEF Sends, net
  <2> QED
    BY <1>5, <1>6, <1>7, <1>10, <1>11, <2>5, <2>6, Zenon DEF Structure
<1>14. CASE s = messageSent(h)
  <2>1. sendInt[h] = 0 /\ avail[s] = 1
    <3>1. sendInt[h] \in Nat /\ avail[s] \in Nat /\ sendInt[h] + avail[s] = 1
      BY <1>1, <1>3, <1>14, Zenon DEF Types, Sends
    <3> QED
      BY <1>3, <3>1
  <2>2. waiting[s] = {c}
    <3>1. \A d \in waiting[s] : d \in Client /\ HostOf[d] = h /\ Holds(d)
      BY <1>1, <1>14, SentHolder, Zenon
    <3> QED
      BY <1>1, <1>3, <3>1, Zenon DEF Locks
  <2>3. \A g \in Host : /\ avail'[sendLock(g)] = avail[sendLock(g)]
                        /\ avail'[messageSent(g)] = IF g = h THEN 0 ELSE avail[messageSent(g)]
                        /\ waiting'[messageSent(g)] = IF g = h THEN {} ELSE waiting[messageSent(g)]
                        /\ waiting'[sendLock(g)] = waiting[sendLock(g)]
    BY <1>1, <1>3, <1>14, <2>1, <2>2, SemsDiffer
  <2>4. Locks'
    <3>1. \A d \in Client : Holds(d)' <=> Holds(d)
      BY <1>2, <1>12, <2>3, Zenon DEF Holds
    <3> QED
      BY <1>1, <1>12, <2>3, <3>1, Zenon DEF Locks
  <2>5. Sends'
    <3>1. sendInt' = sendInt
      BY <1>2, Zenon DEF net
    <3>2. ASSUME NEW g \in Host
          PROVE  sendInt'[g] + avail'[messageSent(g)]
                 = IF waiting'[messageSent(g)] = {} THEN 0 ELSE 1
      <4>1. sendInt[g] + avail[messageSent(g)]
            = IF waiting[messageSent(g)] = {} THEN 0 ELSE 1
        BY <1>1, Zenon DEF Sends
      <4>2. CASE g = h
        <5>1. sendInt'[g] = 0 /\ avail'[messageSent(g)] = 0 /\ waiting'[messageSent(g)] = {}
          BY <2>1, <2>3, <3>1, <4>2, Zenon
        <5> QED
          BY <5>1
      <4>3. CASE g # h
        BY <2>3, <3>1, <4>1, <4>3, Zenon
      <4> QED
        BY <4>2, <4>3, Zenon
    <3> QED
      BY <3>2, Zenon DEF Sends
  <2> QED
    BY <1>5, <1>6, <1>7, <1>10, <1>11, <2>4, <2>5, Zenon DEF Structure
<1> QED
  BY <1>4, <1>13, <1>14, Zenon

\* NetworkOutput::CallBack.
LEMMA NetworkSendIntStep ==
  ASSUME Setting, Structure, NEW h \in Host, NetworkSendInt(h)
  PROVE  Structure'
<1> DEFINE m == messageSent(h)
<1>1. Types /\ Scripted /\ Waits /\ Locks /\ Sends /\ Signals /\ InOrder /\ AllPast
  BY Zenon DEF Structure
<1>2. /\ sendInt[h] > 0 /\ sendInt' = [sendInt EXCEPT ![h] = @ - 1]
      /\ S!Release(m)
      /\ UNCHANGED <<script, started, up, wire, inHdr, dropped, worker, boxes, pc, step, mail>>
  BY Zenon DEF NetworkSendInt, SentCallBack
<1>3. m \in KSem
  BY SemsDiffer, Zenon
<1>4. /\ avail' \in [KSem -> Nat]
      /\ \A r \in KSem : avail'[r] = IF r = m THEN avail[m] + 1 ELSE avail[r]
      /\ waiting' = waiting /\ waiting' \in [KSem -> SUBSET MailThread]
  BY <1>1, <1>2, <1>3, ReleaseIs, Zenon
<1>5. /\ sendInt' \in [Host -> Nat]
      /\ \A g \in Host : sendInt'[g] = IF g = h THEN sendInt[h] - 1 ELSE sendInt[g]
  BY <1>1, <1>2 DEF Types
<1>6. Types'
  BY <1>1, <1>2, <1>4, <1>5, Zenon DEF Types
<1>7. Scripted'
  BY <1>1, <1>2, KeepScripted, Zenon
<1>8. InOrder' /\ AllPast'
  BY <1>1, <1>2, KeepOrder, Zenon DEF Past
<1>9. Waits'
  BY <1>1, <1>2, <1>4, Zenon DEF Waits
<1>10. \A g \in Host : /\ avail'[sendLock(g)] = avail[sendLock(g)]
                       /\ avail'[messageSent(g)] = IF g = h THEN avail[m] + 1
                                                   ELSE avail[messageSent(g)]
                       /\ avail'[messageAvailable(g)] = avail[messageAvailable(g)]
  BY <1>4, SemsDiffer, Zenon
<1>11. Locks'
  <2>1. \A d \in Client : (Holds(d)' <=> Holds(d)) /\ HostOf[d] \in Host
    BY <1>2, <1>4, Zenon DEF Holds, Setting
  <2> QED
    BY <1>1, <1>10, <2>1, Zenon DEF Locks
<1>12. Sends'
  <2>1. sendInt[h] \in Nat /\ avail[m] \in Nat
    BY <1>1, <1>3, Zenon DEF Types
  <2>2. sendInt[h] - 1 + (avail[m] + 1) = sendInt[h] + avail[m]
    BY <2>1
  <2> QED
    BY <1>1, <1>4, <1>5, <1>10, <2>2, Zenon DEF Sends
<1>13. Signals'
  BY <1>1, <1>2, <1>4, <1>10, KeepSignals, Zenon
<1> QED
  BY <1>6, <1>7, <1>8, <1>9, <1>11, <1>12, <1>13, Zenon DEF Structure

\* NetworkInput::CallBack.
LEMMA NetworkRecvIntStep ==
  ASSUME Setting, Structure, NEW h \in Host, NetworkRecvInt(h)
  PROVE  Structure'
<1> DEFINE m == messageAvailable(h)
           X == wire[h]
<1>1. Types /\ Scripted /\ Waits /\ Locks /\ Sends /\ Signals /\ InOrder /\ AllPast
  BY Zenon DEF Structure
<1>2. /\ inHdr[h] = NoMail /\ X # <<>>
      /\ inHdr' = [inHdr EXCEPT ![h] = Head(X)]
      /\ wire' = [wire EXCEPT ![h] = Tail(X)]
      /\ S!Release(m)
      /\ UNCHANGED <<script, started, up, sendInt, dropped, worker, boxes, pc, step, mail>>
  BY Zenon DEF NetworkRecvInt, PollSocket, PollFile, ReadFromSocket, ArrivedCallBack
<1>3. m \in KSem /\ X \in Seq(Mail)
  BY <1>1, SemsDiffer, Zenon DEF Types
<1>4. /\ avail' \in [KSem -> Nat]
      /\ \A r \in KSem : avail'[r] = IF r = m THEN avail[m] + 1 ELSE avail[r]
      /\ waiting' = waiting /\ waiting' \in [KSem -> SUBSET MailThread]
  BY <1>1, <1>2, <1>3, ReleaseIs, Zenon
<1>5. Head(X) \in Mail /\ Tail(X) \in Seq(Mail) /\ Head(X) # NoMail
  <2>1. Head(X) \in Mail /\ Tail(X) \in Seq(Mail)
    BY <1>2, <1>3
  <2> QED
    BY <2>1, Zenon DEF Setting
<1>6. /\ wire' \in [Host -> Seq(Mail)] /\ inHdr' \in [Host -> Mail \cup {NoMail}]
      /\ \A g \in Host : wire'[g] = IF g = h THEN Tail(X) ELSE wire[g]
      /\ \A g \in Host : inHdr'[g] = IF g = h THEN Head(X) ELSE inHdr[g]
  <2> DEFINE T == Seq(Mail)
             M == Mail \cup {NoMail}
             x == Head(X)
             y == Tail(X)
  <2>1. /\ wire \in [Host -> T] /\ y \in T /\ inHdr \in [Host -> M] /\ x \in M
        /\ wire' = [wire EXCEPT ![h] = y] /\ inHdr' = [inHdr EXCEPT ![h] = x]
    BY <1>1, <1>2, <1>5, Zenon DEF Types
  <2> HIDE DEF T, M, x, y
  <2>2. /\ wire' \in [Host -> T] /\ inHdr' \in [Host -> M]
        /\ \A g \in Host : wire'[g] = IF g = h THEN y ELSE wire[g]
        /\ \A g \in Host : inHdr'[g] = IF g = h THEN x ELSE inHdr[g]
    BY <2>1, Zenon
  <2> QED
    BY <2>2, Zenon DEF T, M, x, y
<1> HIDE DEF X
<1>7. Types'
  BY <1>1, <1>2, <1>4, <1>6, Zenon DEF Types
<1>8. Scripted'
  BY <1>1, <1>2, KeepScripted, Zenon
<1>9. Waits'
  BY <1>1, <1>2, <1>4, Zenon DEF Waits
<1>10. \A g \in Host : /\ avail'[sendLock(g)] = avail[sendLock(g)]
                       /\ avail'[messageSent(g)] = avail[messageSent(g)]
                       /\ avail'[messageAvailable(g)] = IF g = h THEN avail[m] + 1
                                                        ELSE avail[messageAvailable(g)]
  BY <1>4, SemsDiffer, Zenon
<1>11. Locks' /\ Sends'
  BY <1>1, <1>2, <1>4, <1>10, KeepLocks, Zenon
<1>12. Signals'
  <2>1. \A g \in Host : Looking(g)' <=> Looking(g)
    BY <1>2, <1>4, Zenon DEF Looking, S!IsWaiting
  <2>2. avail[m] \in Nat
    BY <1>1, <1>3, Zenon DEF Types
  <2> QED
    <3>1. ASSUME NEW g \in Host
          PROVE  /\ avail'[messageAvailable(g)] + (IF Looking(g)' THEN 1 ELSE 0)
                    = (IF inHdr'[g] = NoMail THEN 0 ELSE 1)
                 /\ worker[g].at = "put" <=> worker[g].mail # NoMail
      <4>1. /\ avail[messageAvailable(g)] + (IF Looking(g) THEN 1 ELSE 0)
               = (IF inHdr[g] = NoMail THEN 0 ELSE 1)
            /\ worker[g].at = "put" <=> worker[g].mail # NoMail
        BY <1>1, Zenon DEF Signals
      <4>2. CASE g = h
        <5>1. /\ inHdr[h] = NoMail /\ inHdr'[h] # NoMail /\ avail'[m] = avail[m] + 1
              /\ Looking(h)' <=> Looking(h)
          BY <1>2, <1>5, <1>6, <1>10, <2>1, Zenon
        <5>2. avail[m] + (IF Looking(h) THEN 1 ELSE 0) = 0
          BY <4>1, <4>2, <5>1, Zenon
        <5> HIDE DEF m
        <5>3. ~Looking(h) /\ avail[m] = 0
          BY <2>2, <5>2
        <5>4. avail'[m] + (IF Looking(h)' THEN 1 ELSE 0) = (IF inHdr'[h] = NoMail THEN 0 ELSE 1)
          BY <5>1, <5>3
        <5> QED
          BY <4>1, <4>2, <5>4, Zenon DEF m
      <4>3. CASE g # h
        BY <1>6, <1>10, <2>1, <4>1, <4>3, Zenon
      <4> QED
        BY <4>2, <4>3, Zenon
    <3> QED
      BY <1>2, <3>1, Zenon DEF Signals
<1>13. InOrder'
  <2> SUFFICES ASSUME NEW g \in Host, NEW b \in Box
               PROVE  Ordered(boxes[g][b], worker[g].mail, inHdr'[g], wire'[g])
    BY <1>2, Zenon DEF InOrder
  <2>1. /\ Ordered(boxes[g][b], worker[g].mail, inHdr[g], wire[g])
        /\ boxes[g][b] \in Seq(Mail)
    BY <1>1, Zenon DEF InOrder, Types
  <2>2. CASE g # h
    BY <1>6, <2>1, <2>2, Zenon
  <2>3. CASE g = h
    <3>1. Ordered(boxes[h][b], worker[h].mail, NoMail, X)
      BY <1>2, <2>1, <2>3, Zenon DEF X
    <3>2. Ordered(boxes[h][b], worker[h].mail, Head(X), Tail(X))
      BY <1>2, <1>3, <2>1, <2>3, <3>1, OrderRead, Zenon
    <3> QED
      <4>1. inHdr'[g] = Head(X) /\ wire'[g] = Tail(X) /\ boxes[g] = boxes[h] /\ worker[g] = worker[h]
        BY <1>6, <2>3, Zenon
      <4> QED
        BY <3>2, <4>1, Zenon
  <2> QED
    BY <2>2, <2>3, Zenon
<1>14. AllPast'
  <2>1. \A x : Past(x) <=> PastNext(x)
    BY <1>2, Zenon DEF Past, PastNext
  <2>2. /\ Len(X) \in Nat /\ 1 \in 1..Len(X) /\ Head(X) = X[1]
        /\ \A i \in 1..Len(Tail(X)) : i + 1 \in 1..Len(X) /\ Tail(X)[i] = X[i + 1]
    BY <1>2, <1>3
  <2>3. \A i \in 1..Len(X) : PastNext(X[i])
    BY <1>1, <2>1, Zenon DEF AllPast, X
  <2>4. PastNext(Head(X)) /\ \A i \in 1..Len(Tail(X)) : PastNext(Tail(X)[i])
    BY <2>2, <2>3, Zenon
  <2>5. ASSUME NEW g \in Host
        PROVE  /\ \A b \in Box : \A i \in 1..Len(boxes'[g][b]) : PastNext(boxes'[g][b][i])
               /\ worker'[g].mail # NoMail => PastNext(worker'[g].mail)
               /\ inHdr'[g] # NoMail => PastNext(inHdr'[g])
               /\ \A i \in 1..Len(wire'[g]) : PastNext(wire'[g][i])
    <3>1. CASE g = h
      BY <1>1, <1>2, <1>6, <2>1, <2>4, <3>1, Zenon DEF AllPast
    <3>2. CASE g # h
      BY <1>1, <1>2, <1>6, <2>1, <3>2, Zenon DEF AllPast
    <3> QED
      BY <3>1, <3>2, Zenon
  <2> QED
    BY <2>5, AllPastNext, Zenon
<1> QED
  BY <1>7, <1>8, <1>9, <1>11, <1>12, <1>13, <1>14, Zenon DEF Structure

\* The worker, field by field.
LEMMA WorkerIs ==
  ASSUME Types, NEW h \in Host
  PROVE  /\ worker[h].at \in {"loop", "receive", "put"} /\ worker[h].mail \in Mail \cup {NoMail}
         /\ Worker(h) \in MailThread /\ messageAvailable(h) \in KSem
  BY SemsDiffer, Zenon DEF Types, MailThread

\* A step of the worker of machine h.
LEMMA WorkerWaits ==
  ASSUME Setting, Structure, NEW h \in Host, WorkerWait(h) \/ WorkerWake(h)
  PROVE  Structure'
<1> DEFINE m == messageAvailable(h)
           w == Worker(h)
<1>1. Types /\ Scripted /\ Waits /\ Locks /\ Sends /\ Signals /\ InOrder /\ AllPast
  BY Zenon DEF Structure
<1>2. /\ UNCHANGED <<script, started, up, net, boxes, pc, step, mail>>
      /\ \/ /\ worker[h].at = "loop" /\ worker' = [worker EXCEPT ![h].at = "receive"]
            /\ S!Take(w, m) \/ S!Wait(w, m)
         \/ worker' = worker /\ S!Grant(w, m)
  BY Zenon DEF WorkerWait, WorkerWake
<1>3. w \in MailThread /\ m \in KSem /\ w \notin Client
  BY <1>1, WorkerIs, Zenon DEF Setting
<1>4. /\ worker' \in [Host -> [at : {"loop", "receive", "put"}, mail : Mail \cup {NoMail}]]
      /\ \A g \in Host : g # h => worker'[g] = worker[g]
      /\ worker'[h].mail = worker[h].mail
      /\ worker[h].at = "loop" => worker'[h].at = "receive"
      /\ worker[h].at # "loop" => worker'[h].at = worker[h].at
  <2> DEFINE M == Mail \cup {NoMail}
             T == [at : {"loop", "receive", "put"}, mail : M]
             e == [worker[h] EXCEPT !.at = "receive"]
  <2>1. worker \in [Host -> T]
    BY <1>1, Zenon DEF Types
  <2> HIDE DEF M
  <2>2. e \in T /\ e.at = "receive" /\ e.mail = worker[h].mail
    BY <2>1, Zenon
  <2>3. CASE worker[h].at = "loop" /\ worker' = [worker EXCEPT ![h].at = "receive"]
    <3>1. worker' = [worker EXCEPT ![h] = e]
      BY <2>3, Zenon
    <3> HIDE DEF T, e
    <3>2. worker' \in [Host -> T] /\ \A g \in Host : worker'[g] = IF g = h THEN e ELSE worker[g]
      BY <2>1, <2>2, <3>1, Zenon
    <3> QED
      BY <2>2, <2>3, <3>2, Zenon DEF T, M
  <2>4. CASE worker' = worker /\ S!Grant(w, m)
    <3>1. worker[h].at = "receive"
      BY <1>1, <1>3, <2>4, Zenon DEF Waits, S!Grant
    <3> QED
      BY <2>1, <2>4, <3>1, Zenon DEF M
  <2> QED
    BY <1>2, <2>3, <2>4, Zenon
<1>5. /\ avail' \in [KSem -> Nat] /\ waiting' \in [KSem -> SUBSET MailThread]
      /\ \A r \in KSem : r # m => avail'[r] = avail[r] /\ waiting'[r] = waiting[r]
      /\ \A t \in MailThread : t # w => (t \in waiting'[m] <=> t \in waiting[m])
      /\ \/ /\ worker[h].at = "loop" /\ w \notin waiting'[m] /\ avail'[m] = avail[m] - 1
         \/ /\ worker[h].at = "loop" /\ w \in waiting'[m] /\ avail'[m] = avail[m]
         \/ /\ w \in waiting[m] /\ w \notin waiting'[m] /\ avail'[m] = avail[m] - 1
  <2>0. Types
    BY <1>1, Zenon
  <2>1. CASE worker[h].at = "loop" /\ S!Take(w, m)
    <3>1. S!Take(w, m)
      BY <2>1, Zenon
    <3>2. /\ \A r \in KSem : w \notin waiting[r]
          /\ avail[m] > 0 /\ avail' \in [KSem -> Nat]
          /\ \A r \in KSem : avail'[r] = IF r = m THEN avail[m] - 1 ELSE avail[r]
          /\ waiting' = waiting /\ waiting' \in [KSem -> SUBSET MailThread]
      BY <1>3, <2>0, <3>1, TakeIs, Zenon
    <3> QED
      BY <1>3, <2>1, <3>2, Zenon
  <2>2. CASE worker[h].at = "loop" /\ S!Wait(w, m)
    <3>1. S!Wait(w, m)
      BY <2>2, Zenon
    <3>2. /\ \A r \in KSem : w \notin waiting[r]
          /\ avail[m] = 0 /\ avail' = avail /\ avail' \in [KSem -> Nat]
          /\ waiting' \in [KSem -> SUBSET MailThread]
          /\ \A r \in KSem : waiting'[r] = IF r = m THEN waiting[m] \cup {w} ELSE waiting[r]
      BY <1>3, <2>0, <3>1, WaitIs, Zenon
    <3> QED
      BY <1>3, <2>2, <3>2, Zenon
  <2>3. CASE S!Grant(w, m)
    <3>1. S!Grant(w, m)
      BY <2>3, Zenon
    <3>2. /\ w \in waiting[m]
          /\ avail[m] > 0 /\ avail' \in [KSem -> Nat]
          /\ \A r \in KSem : avail'[r] = IF r = m THEN avail[m] - 1 ELSE avail[r]
          /\ waiting' \in [KSem -> SUBSET MailThread]
          /\ \A r \in KSem : waiting'[r] = IF r = m THEN waiting[m] \ {w} ELSE waiting[r]
      <4>1. Granted(w, m)
        BY <1>3, <2>0, <3>1, GrantIs, Zenon
      <4> QED
        BY <4>1, Zenon DEF Granted
    <3> QED
      BY <1>3, <3>2, Zenon
  <2> QED
    BY <1>2, <2>1, <2>2, <2>3, Zenon
<1>6. Types'
  BY <1>1, <1>2, <1>4, <1>5, Zenon DEF Types, net
<1>7. Scripted'
  BY <1>1, <1>2, KeepScripted, Zenon
<1>8. /\ \A g \in Host : Worker(g) \in MailThread /\ (Worker(g) = w => g = h)
      /\ \A c \in Client : c \in MailThread /\ c # w
  BY <1>3, SemsDiffer, Zenon DEF MailThread
<1>9. \A t \in MailThread, r \in KSem : t # w => (t \in waiting'[r] <=> t \in waiting[r])
  BY <1>5, Zenon
<1>10. \A r \in KSem : (w \in waiting[r] => r = m) /\ (w \in waiting'[r] => r = m)
  BY <1>1, <1>5, Zenon DEF Waits
<1>11. worker'[h].at = "receive"
  BY <1>1, <1>3, <1>4, <1>5, Zenon DEF Waits
<1>12. Waits'
  <2>1. \A c \in Client, s \in KSem : c \in waiting'[s] =>
          \/ s = sendLock(HostOf[c]) /\ pc'[c] = "locked"
          \/ s = messageSent(HostOf[c]) /\ pc'[c] = "sent"
    BY <1>1, <1>2, <1>8, <1>9, Zenon DEF Waits
  <2>2. \A g \in Host, s \in KSem : Worker(g) \in waiting'[s] =>
          s = messageAvailable(g) /\ worker'[g].at = "receive"
    <3> SUFFICES ASSUME NEW g \in Host, NEW s \in KSem, Worker(g) \in waiting'[s]
                 PROVE  s = messageAvailable(g) /\ worker'[g].at = "receive"
      BY Zenon
    <3>1. CASE g = h
      BY <1>10, <1>11, <3>1, Zenon
    <3>2. CASE g # h
      BY <1>1, <1>4, <1>8, <1>9, <3>2, Zenon DEF Waits
    <3> QED
      BY <3>1, <3>2, Zenon
  <2> QED
    BY <2>1, <2>2, Zenon DEF Waits
<1>13. \A g \in Host : /\ avail'[sendLock(g)] = avail[sendLock(g)]
                       /\ avail'[messageSent(g)] = avail[messageSent(g)]
                       /\ waiting'[sendLock(g)] = waiting[sendLock(g)]
                       /\ waiting'[messageSent(g)] = waiting[messageSent(g)]
                       /\ g # h => avail'[messageAvailable(g)] = avail[messageAvailable(g)]
  BY <1>5, SemsDiffer, Zenon
<1>14. Locks' /\ Sends'
  <2>1. pc' = pc /\ sendInt' = sendInt
    BY <1>2, Zenon DEF net
  <2> QED
    BY <1>1, <1>13, <2>1, KeepLocks, Zenon
<1>15. Signals'
  <2>1. /\ Looking(h) <=> worker[h].at = "receive" /\ w \notin waiting[m]
        /\ Looking(h)' <=> worker'[h].at = "receive" /\ w \notin waiting'[m]
    BY <1>3, <1>10, Zenon DEF Looking, S!IsWaiting
  <2>4. \A g \in Host : g # h => (Looking(g)' <=> Looking(g))
    BY <1>4, <1>8, <1>9, Zenon DEF Looking, S!IsWaiting
  <2>2. inHdr' = inHdr /\ avail[m] \in Nat
    BY <1>1, <1>2, <1>3, Zenon DEF Types, net
  <2>3. ASSUME NEW g \in Host
        PROVE  /\ avail'[messageAvailable(g)]
                    + (IF Looking(g)' THEN 1 ELSE 0)
                  = (IF inHdr'[g] = NoMail THEN 0 ELSE 1)
               /\ worker'[g].at = "put" <=> worker'[g].mail # NoMail
    <3>1. CASE g = h
      <4>1. /\ avail[m] + (IF worker[h].at = "receive" /\ ~(w \in waiting[m]) THEN 1 ELSE 0)
               = (IF inHdr[h] = NoMail THEN 0 ELSE 1)
            /\ worker[h].at = "put" <=> worker[h].mail # NoMail
        BY <1>1, <2>1, Zenon DEF Signals
      <4>2. w \in waiting[m] => worker[h].at = "receive"
        BY <1>1, <1>3, Zenon DEF Waits
      <4>3. worker[h].at # "put"
        BY <1>5, <4>2, Zenon
      <4>4. avail'[m] + (IF w \in waiting'[m] THEN 0 ELSE 1)
               = (IF inHdr[h] = NoMail THEN 0 ELSE 1)
        BY <1>5, <2>2, <4>1, <4>2
      <4> QED
        BY <1>4, <1>11, <2>1, <2>2, <3>1, <4>1, <4>3, <4>4, Zenon
    <3>2. CASE g # h
      <4>1. /\ avail[messageAvailable(g)] + (IF Looking(g) THEN 1 ELSE 0)
               = (IF inHdr[g] = NoMail THEN 0 ELSE 1)
            /\ worker[g].at = "put" <=> worker[g].mail # NoMail
        BY <1>1, Zenon DEF Signals
      <4> QED
        BY <1>4, <1>13, <2>2, <2>4, <3>2, <4>1, Zenon
    <3> QED
      BY <3>1, <3>2, Zenon
  <2> QED
    BY <2>3, Zenon DEF Signals
<1>16. InOrder' /\ AllPast'
  <2>1. /\ boxes' = boxes /\ inHdr' = inHdr /\ wire' = wire
        /\ \A g \in Host : worker'[g].mail = worker[g].mail
    BY <1>2, <1>4, Zenon DEF net
  <2>2. \A x \in Mail : Past(x) => Past(x)'
    BY <1>2, Zenon DEF Past
  <2> QED
    BY <1>1, <2>1, <2>2, KeepOrder, Zenon
<1> QED
  BY <1>6, <1>7, <1>12, <1>14, <1>15, <1>16, Zenon DEF Structure

\* The worker after an assignment to it.
LEMMA WorkerNext ==
  ASSUME Types, NEW h \in Host, NEW a \in {"loop", "receive", "put"},
         NEW m \in Mail \cup {NoMail},
         worker' = [worker EXCEPT ![h] = [at |-> a, mail |-> m]]
  PROVE  /\ worker' \in [Host -> [at : {"loop", "receive", "put"}, mail : Mail \cup {NoMail}]]
         /\ \A g \in Host : g # h => worker'[g] = worker[g]
         /\ worker'[h].at = a /\ worker'[h].mail = m
<1> DEFINE M == Mail \cup {NoMail}
           T == [at : {"loop", "receive", "put"}, mail : M]
           e == [at |-> a, mail |-> m]
<1>1. worker \in [Host -> T] /\ m \in M
  BY Zenon DEF Types
<1> HIDE DEF M
<1>2. e \in T /\ e.at = a /\ e.mail = m
  BY <1>1, Zenon
<1>3. worker' = [worker EXCEPT ![h] = e]
  BY Zenon
<1> HIDE DEF T, e
<1>4. worker' \in [Host -> T] /\ \A g \in Host : worker'[g] = IF g = h THEN e ELSE worker[g]
  BY <1>1, <1>2, <1>3, Zenon
<1> QED
  BY <1>2, <1>4, Zenon DEF T, M

\* Threads keep waiting where they waited when only the worker of h moves on.
LEMMA KeepWaits ==
  ASSUME Waits, NEW h \in Host, \A s \in KSem : Worker(h) \notin waiting[s],
         \A g \in Host : g # h => worker'[g] = worker[g], UNCHANGED <<waiting, pc>>
  PROVE  Waits'
<1>1. \A c \in Client, s \in KSem : c \in waiting'[s] =>
        \/ s = sendLock(HostOf[c]) /\ pc'[c] = "locked"
        \/ s = messageSent(HostOf[c]) /\ pc'[c] = "sent"
  BY Zenon DEF Waits
<1>2. \A g \in Host, s \in KSem : Worker(g) \in waiting'[s] =>
        s = messageAvailable(g) /\ worker'[g].at = "receive"
  BY Zenon DEF Waits
<1> QED
  BY <1>1, <1>2, Zenon DEF Waits

\* network->Receive.
LEMMA WorkerReceiveStep ==
  ASSUME Setting, Structure, NEW h \in Host, WorkerReceive(h)
  PROVE  Structure'
<1> DEFINE r == inHdr[h]
<1>1. Types /\ Scripted /\ Waits /\ Locks /\ Sends /\ Signals /\ InOrder /\ AllPast
  BY Zenon DEF Structure
<1>2. /\ worker[h].at = "receive" /\ ~S!IsWaiting(Worker(h))
      /\ worker' = [worker EXCEPT ![h] = [at |-> "put", mail |-> r]]
      /\ inHdr' = [inHdr EXCEPT ![h] = NoMail]
      /\ UNCHANGED <<script, started, up, wire, sendInt, dropped, avail, waiting, boxes, pc,
                     step, mail>>
  BY Zenon DEF WorkerReceive
<1>3. r \in Mail \cup {NoMail} /\ avail[messageAvailable(h)] \in Nat
  BY <1>1, SemsDiffer, Zenon DEF Types
<1>4. r # NoMail /\ avail[messageAvailable(h)] = 0 /\ worker[h].mail = NoMail
  <2>1. /\ avail[messageAvailable(h)] + (IF Looking(h) THEN 1 ELSE 0)
           = (IF r = NoMail THEN 0 ELSE 1)
        /\ worker[h].at = "put" <=> worker[h].mail # NoMail
    BY <1>1, Zenon DEF Signals
  <2>2. Looking(h)
    BY <1>2, Zenon DEF Looking
  <2> QED
    BY <1>2, <1>3, <2>1, <2>2
<1> HIDE DEF r
<1>5. /\ worker' \in [Host -> [at : {"loop", "receive", "put"}, mail : Mail \cup {NoMail}]]
      /\ \A g \in Host : g # h => worker'[g] = worker[g]
      /\ worker'[h].at = "put" /\ worker'[h].mail = r
  <2>1. /\ Types /\ r \in Mail \cup {NoMail}
        /\ worker' = [worker EXCEPT ![h] = [at |-> "put", mail |-> r]]
    BY <1>1, <1>2, <1>3, Zenon
  <2>2. "put" \in {"loop", "receive", "put"}
    BY Zenon
  <2> QED
    BY <2>1, <2>2, WorkerNext, Zenon
<1>6. /\ inHdr' \in [Host -> Mail \cup {NoMail}]
      /\ \A g \in Host : inHdr'[g] = IF g = h THEN NoMail ELSE inHdr[g]
  <2> DEFINE M == Mail \cup {NoMail}
  <2>1. inHdr \in [Host -> M] /\ NoMail \in M
    BY <1>1, Zenon DEF Types
  <2> HIDE DEF M
  <2>2. inHdr' \in [Host -> M] /\ \A g \in Host : inHdr'[g] = IF g = h THEN NoMail ELSE inHdr[g]
    BY <1>2, <2>1, Zenon
  <2> QED
    BY <2>2, Zenon DEF M
<1>7. Types'
  BY <1>1, <1>2, <1>5, <1>6, Zenon DEF Types
<1>8. Scripted'
  BY <1>1, <1>2, KeepScripted, Zenon
<1>9. Waits'
  <2>1. \A s \in KSem : Worker(h) \notin waiting[s]
    BY <1>2, Zenon DEF S!IsWaiting
  <2>2. waiting' = waiting /\ pc' = pc
    BY <1>2, Zenon
  <2> QED
    BY <1>1, <1>5, <2>1, <2>2, KeepWaits, Zenon
<1>10. Locks' /\ Sends'
  BY <1>1, <1>2, KeepLocks, Zenon
<1>11. Signals'
  <2>1. \A g \in Host : g # h => (Looking(g)' <=> Looking(g))
    BY <1>2, <1>5, Zenon DEF Looking, S!IsWaiting
  <2>3. ~Looking(h)'
    BY <1>5, Zenon DEF Looking
  <2>2. ASSUME NEW g \in Host
        PROVE  /\ avail'[messageAvailable(g)]
                    + (IF Looking(g)' THEN 1 ELSE 0)
                  = (IF inHdr'[g] = NoMail THEN 0 ELSE 1)
               /\ worker'[g].at = "put" <=> worker'[g].mail # NoMail
    <3>1. CASE g = h
      BY <1>2, <1>4, <1>5, <1>6, <2>3, <3>1
    <3>2. CASE g # h
      <4>1. /\ avail[messageAvailable(g)] + (IF Looking(g) THEN 1 ELSE 0)
               = (IF inHdr[g] = NoMail THEN 0 ELSE 1)
            /\ worker[g].at = "put" <=> worker[g].mail # NoMail
        BY <1>1, Zenon DEF Signals
      <4> QED
        BY <1>2, <1>5, <1>6, <2>1, <3>2, <4>1, Zenon
    <3> QED
      BY <3>1, <3>2, Zenon
  <2> QED
    BY <2>2, Zenon DEF Signals
<1>12. InOrder'
  <2> SUFFICES ASSUME NEW g \in Host, NEW b \in Box
               PROVE  Ordered(boxes[g][b], worker'[g].mail, inHdr'[g], wire[g])
    BY <1>2, Zenon DEF InOrder
  <2>1. Ordered(boxes[g][b], worker[g].mail, inHdr[g], wire[g])
    BY <1>1, Zenon DEF InOrder
  <2>2. CASE g # h
    BY <1>5, <1>6, <2>1, <2>2, Zenon
  <2>3. CASE g = h
    <3>1. Ordered(boxes[g][b], NoMail, r, wire[g])
      BY <1>4, <2>1, <2>3, Zenon DEF r
    <3>2. Ordered(boxes[g][b], r, NoMail, wire[g])
      BY <3>1, OrderTake, Zenon
    <3>3. worker'[g].mail = r /\ inHdr'[g] = NoMail
      BY <1>5, <1>6, <2>3, Zenon
    <3> QED
      BY <3>2, <3>3, Zenon
  <2> QED
    BY <2>2, <2>3, Zenon
<1>13. AllPast'
  <2>1. \A x : Past(x) <=> PastNext(x)
    BY <1>2, Zenon DEF Past, PastNext
  <2>2. PastNext(r)
    BY <1>1, <1>4, <2>1, Zenon DEF AllPast, r
  <2>3. ASSUME NEW g \in Host
        PROVE  /\ \A b \in Box : \A i \in 1..Len(boxes'[g][b]) : PastNext(boxes'[g][b][i])
               /\ worker'[g].mail # NoMail => PastNext(worker'[g].mail)
               /\ inHdr'[g] # NoMail => PastNext(inHdr'[g])
               /\ \A i \in 1..Len(wire'[g]) : PastNext(wire'[g][i])
    <3>1. CASE g = h
      BY <1>1, <1>2, <1>5, <1>6, <2>1, <2>2, <3>1, Zenon DEF AllPast
    <3>2. CASE g # h
      BY <1>1, <1>2, <1>5, <1>6, <2>1, <3>2, Zenon DEF AllPast
    <3> QED
      BY <3>1, <3>2, Zenon
  <2> QED
    BY <2>3, AllPastNext, Zenon
<1> QED
  BY <1>7, <1>8, <1>9, <1>10, <1>11, <1>12, <1>13, Zenon DEF Structure

\* MailBox::Put of the mail in the worker's hands.
LEMMA WorkerPutStep ==
  ASSUME Setting, Structure, NEW h \in Host, WorkerPut(h)
  PROVE  Structure'
<1> DEFINE w == worker[h].mail
           b == w.box
           B == boxes[h][b]
<1>1. Types /\ Scripted /\ Waits /\ Locks /\ Sends /\ Signals /\ InOrder /\ AllPast
  BY Zenon DEF Structure
<1>2. /\ worker[h].at = "put"
      /\ boxes' = [boxes EXCEPT ![h][b] = Append(B, w)]
      /\ worker' = [worker EXCEPT ![h] = [at |-> "loop", mail |-> NoMail]]
      /\ UNCHANGED <<script, started, up, wire, inHdr, sendInt, dropped, avail, waiting, pc,
                     step, mail>>
  BY Zenon DEF WorkerPut, Put, net
<1>3. w # NoMail /\ w \in Mail
  BY <1>1, <1>2, WorkerIs, Zenon DEF Signals
<1>4. b \in Box
  BY <1>3, Zenon DEF Mail
<1> HIDE DEF w, b
<1>5. B \in Seq(Mail) /\ wire[h] \in Seq(Mail)
  BY <1>1, <1>4, Zenon DEF Types
<1>6. Append(B, w) \in Seq(Mail)
  <2> HIDE DEF B
  <2> QED
    BY <1>3, <1>5
<1>7. /\ boxes' \in [Host -> [Box -> Seq(Mail)]]
      /\ \A g \in Host, d \in Box :
           boxes'[g][d] = IF g = h /\ d = b THEN Append(B, w) ELSE boxes[g][d]
  <2> DEFINE e == Append(B, w)
  <2>1. Types /\ e \in Seq(Mail) /\ boxes' = [boxes EXCEPT ![h][b] = e]
    BY <1>1, <1>2, <1>6, Zenon
  <2> HIDE DEF e
  <2>2. /\ boxes' \in [Host -> [Box -> Seq(Mail)]]
        /\ \A g \in Host, d \in Box :
             boxes'[g][d] = IF g = h /\ d = b THEN e ELSE boxes[g][d]
    BY <1>4, <2>1, BoxIs, Zenon
  <2> QED
    BY <2>2, Zenon DEF e
<1>8. /\ worker' \in [Host -> [at : {"loop", "receive", "put"}, mail : Mail \cup {NoMail}]]
      /\ \A g \in Host : g # h => worker'[g] = worker[g]
      /\ worker'[h].at = "loop" /\ worker'[h].mail = NoMail
  <2>1. /\ Types /\ NoMail \in Mail \cup {NoMail}
        /\ worker' = [worker EXCEPT ![h] = [at |-> "loop", mail |-> NoMail]]
    BY <1>1, <1>2, Zenon
  <2>2. "loop" \in {"loop", "receive", "put"}
    BY Zenon
  <2> QED
    BY <2>1, <2>2, WorkerNext, Zenon
<1>9. Types'
  BY <1>1, <1>2, <1>7, <1>8, Zenon DEF Types
<1>10. Scripted'
  BY <1>1, <1>2, KeepScripted, Zenon
<1>11. Waits'
  <2>1. \A s \in KSem : Worker(h) \notin waiting[s]
    BY <1>1, <1>2, Zenon DEF Waits
  <2>2. waiting' = waiting /\ pc' = pc
    BY <1>2, Zenon
  <2> QED
    BY <1>1, <1>8, <2>1, <2>2, KeepWaits, Zenon
<1>12. Locks' /\ Sends'
  BY <1>1, <1>2, KeepLocks, Zenon
<1>13. Signals'
  <2>1. \A g \in Host : g # h => (Looking(g)' <=> Looking(g))
    BY <1>2, <1>8, Zenon DEF Looking, S!IsWaiting
  <2>3. ~Looking(h) /\ ~Looking(h)'
    BY <1>2, <1>8, Zenon DEF Looking
  <2>2. ASSUME NEW g \in Host
        PROVE  /\ avail'[messageAvailable(g)]
                    + (IF Looking(g)' THEN 1 ELSE 0)
                  = (IF inHdr'[g] = NoMail THEN 0 ELSE 1)
               /\ worker'[g].at = "put" <=> worker'[g].mail # NoMail
    <3>1. CASE g = h
      <4>1. avail[messageAvailable(h)] + 0 = (IF inHdr[h] = NoMail THEN 0 ELSE 1)
        BY <1>1, <2>3, Zenon DEF Signals
      <4> QED
        BY <1>2, <1>3, <1>8, <2>3, <3>1, <4>1, Zenon
    <3>2. CASE g # h
      <4>1. /\ avail[messageAvailable(g)] + (IF Looking(g) THEN 1 ELSE 0)
               = (IF inHdr[g] = NoMail THEN 0 ELSE 1)
            /\ worker[g].at = "put" <=> worker[g].mail # NoMail
        BY <1>1, Zenon DEF Signals
      <4> QED
        BY <1>2, <1>8, <2>1, <3>2, <4>1, Zenon
    <3> QED
      BY <3>1, <3>2, Zenon
  <2> QED
    BY <2>2, Zenon DEF Signals
<1>14. InOrder'
  <2> SUFFICES ASSUME NEW g \in Host, NEW d \in Box
               PROVE  Ordered(boxes'[g][d], worker'[g].mail, inHdr[g], wire[g])
    BY <1>2, Zenon DEF InOrder
  <2>1. Ordered(boxes[g][d], worker[g].mail, inHdr[g], wire[g])
    BY <1>1, Zenon DEF InOrder
  <2>2. CASE g # h
    BY <1>7, <1>8, <2>1, <2>2, Zenon
  <2>3. CASE g = h /\ d # b
    <3>1. Ordered(boxes[g][d], NoMail, inHdr[g], wire[g])
      BY <2>1, OrderGone, Zenon
    <3>2. boxes'[g][d] = boxes[g][d] /\ worker'[g].mail = NoMail
      BY <1>7, <1>8, <2>3, Zenon
    <3> QED
      BY <3>1, <3>2, Zenon
  <2>4. CASE g = h /\ d = b
    <3>1. Ordered(B, w, inHdr[h], wire[h])
      BY <2>1, <2>4, Zenon DEF w
    <3>2. Ordered(Append(B, w), NoMail, inHdr[h], wire[h])
      BY <1>3, <1>5, <3>1, OrderPut, Zenon
    <3>3. boxes'[g][d] = Append(B, w) /\ worker'[g].mail = NoMail
      BY <1>4, <1>7, <1>8, <2>4, Zenon
    <3> QED
      BY <2>4, <3>2, <3>3, Zenon
  <2> QED
    BY <2>2, <2>3, <2>4, Zenon
<1>15. AllPast'
  <2>1. \A x : Past(x) <=> PastNext(x)
    BY <1>2, Zenon DEF Past, PastNext
  <2>2. PastNext(w)
    BY <1>1, <1>3, <2>1, Zenon DEF AllPast, w
  <2>3. \A i \in 1..Len(Append(B, w)) : PastNext(Append(B, w)[i])
    <3>1. \A i \in 1..Len(B) : PastNext(B[i])
      BY <1>1, <1>4, <2>1, Zenon DEF AllPast
    <3>2. /\ Len(B) \in Nat /\ Len(Append(B, w)) = Len(B) + 1
          /\ \A i \in 1..Len(Append(B, w)) : Append(B, w)[i] = IF i = Len(B) + 1 THEN w ELSE B[i]
      BY <1>3, <1>5
    <3> QED
      BY <2>2, <3>1, <3>2
  <2>4. ASSUME NEW g \in Host
        PROVE  /\ \A d \in Box : \A i \in 1..Len(boxes'[g][d]) : PastNext(boxes'[g][d][i])
               /\ worker'[g].mail # NoMail => PastNext(worker'[g].mail)
               /\ inHdr'[g] # NoMail => PastNext(inHdr'[g])
               /\ \A i \in 1..Len(wire'[g]) : PastNext(wire'[g][i])
    <3>1. ASSUME NEW d \in Box
          PROVE  \A i \in 1..Len(boxes'[g][d]) : PastNext(boxes'[g][d][i])
      <4>1. CASE g = h /\ d = b
        <5>1. boxes'[g][d] = Append(B, w)
          BY <1>4, <1>7, <4>1, Zenon
        <5> QED
          BY <2>3, <5>1, Zenon
      <4>2. CASE ~(g = h /\ d = b)
        <5>1. boxes'[g][d] = boxes[g][d]
          BY <1>7, <4>2, Zenon
        <5> QED
          BY <1>1, <2>1, <5>1, Zenon DEF AllPast
      <4> QED
        BY <4>1, <4>2, Zenon
    <3>2. CASE g = h
      BY <1>1, <1>2, <1>8, <2>1, <3>1, <3>2, Zenon DEF AllPast
    <3>3. CASE g # h
      BY <1>1, <1>2, <1>8, <2>1, <3>1, <3>3, Zenon DEF AllPast
    <3> QED
      BY <3>2, <3>3, Zenon
  <2> QED
    BY <2>4, AllPastNext, Zenon
<1> QED
  BY <1>9, <1>10, <1>11, <1>12, <1>13, <1>14, <1>15, Zenon DEF Structure

-----------------------------------------------------------------------------
(* Machines that start and halt, and the theorem.                          *)

\* A machine starts: its socket gets its name.
LEMMA StartMachineStep ==
  ASSUME Setting, Structure, NEW h \in Host, StartMachine(h)
  PROVE  Structure'
<1>1. Types /\ Scripted /\ Waits /\ Locks /\ Sends /\ Signals /\ InOrder /\ AllPast
  BY Zenon DEF Structure
<1>2. /\ up' = up \cup {h}
      /\ UNCHANGED <<script, wire, inHdr, sendInt, avail, waiting, worker, boxes, pc, step, mail>>
  BY Zenon DEF StartMachine, AssignNameToSocket, net
<1>3. Types'
  BY <1>1, <1>2, Zenon DEF Types
<1>4. Scripted'
  BY <1>1, <1>2, KeepScripted, Zenon
<1>5. Waits'
  BY <1>1, <1>2, Zenon DEF Waits
<1>6. Locks' /\ Sends'
  BY <1>1, <1>2, KeepLocks, Zenon
<1>7. Signals'
  BY <1>1, <1>2, KeepSignals, Zenon
<1>8. InOrder' /\ AllPast'
  <2>1. \A x \in Mail : Past(x) => Past(x)'
    BY <1>2, Zenon DEF Past
  <2> QED
    BY <1>1, <1>2, <2>1, KeepOrder, Zenon
<1> QED
  BY <1>3, <1>4, <1>5, <1>6, <1>7, <1>8, Zenon DEF Structure

\* A machine halts: its socket goes with what is in it.
LEMMA HaltMachineStep ==
  ASSUME Setting, Structure, NEW h \in Host, HaltMachine(h)
  PROVE  Structure'
<1>1. Types /\ Scripted /\ Waits /\ Locks /\ Sends /\ Signals /\ InOrder /\ AllPast
  BY Zenon DEF Structure
<1>2. /\ up' = up \ {h} /\ wire' = [wire EXCEPT ![h] = <<>>]
      /\ UNCHANGED <<script, inHdr, sendInt, avail, waiting, worker, boxes, pc, step, mail>>
  BY Zenon DEF HaltMachine, DeAssignNameToSocket, CloseSocket
<1>3. /\ wire' \in [Host -> Seq(Mail)]
      /\ \A g \in Host : wire'[g] = IF g = h THEN <<>> ELSE wire[g]
  <2> DEFINE T == Seq(Mail)
             e == <<>>
  <2>1. wire \in [Host -> T] /\ e \in T /\ wire' = [wire EXCEPT ![h] = e]
    BY <1>1, <1>2 DEF Types
  <2> HIDE DEF T, e
  <2>2. wire' \in [Host -> T] /\ \A g \in Host : wire'[g] = IF g = h THEN e ELSE wire[g]
    BY <2>1, Zenon
  <2> QED
    BY <2>2, Zenon DEF T, e
<1>4. Types'
  BY <1>1, <1>2, <1>3, Zenon DEF Types
<1>5. Scripted'
  BY <1>1, <1>2, KeepScripted, Zenon
<1>6. Waits'
  BY <1>1, <1>2, Zenon DEF Waits
<1>7. Locks' /\ Sends'
  BY <1>1, <1>2, KeepLocks, Zenon
<1>8. Signals'
  BY <1>1, <1>2, KeepSignals, Zenon
<1>9. InOrder'
  <2> SUFFICES ASSUME NEW g \in Host, NEW d \in Box
               PROVE  Ordered(boxes[g][d], worker[g].mail, inHdr[g], wire'[g])
    BY <1>2, Zenon DEF InOrder
  <2>1. Ordered(boxes[g][d], worker[g].mail, inHdr[g], wire[g])
    BY <1>1, Zenon DEF InOrder
  <2>2. Ordered(boxes[g][d], worker[g].mail, inHdr[g], <<>>)
    BY <2>1, OrderClose, Zenon
  <2> QED
    BY <1>3, <2>1, <2>2, Zenon
<1>10. AllPast'
  <2>1. \A x : Past(x) <=> PastNext(x)
    BY <1>2, Zenon DEF Past, PastNext
  <2>2. ASSUME NEW g \in Host
        PROVE  /\ \A b \in Box : \A i \in 1..Len(boxes'[g][b]) : PastNext(boxes'[g][b][i])
               /\ worker'[g].mail # NoMail => PastNext(worker'[g].mail)
               /\ inHdr'[g] # NoMail => PastNext(inHdr'[g])
               /\ \A i \in 1..Len(wire'[g]) : PastNext(wire'[g][i])
    <3>1. \A i \in 1..Len(wire'[g]) : PastNext(wire'[g][i])
      <4>1. CASE g = h
        BY <1>3, <4>1
      <4>2. CASE g # h
        BY <1>1, <1>3, <2>1, <4>2, Zenon DEF AllPast
      <4> QED
        BY <4>1, <4>2, Zenon
    <3> QED
      BY <1>1, <1>2, <2>1, <3>1, Zenon DEF AllPast
  <2> QED
    BY <2>2, AllPastNext, Zenon
<1> QED
  BY <1>4, <1>5, <1>6, <1>7, <1>8, <1>9, <1>10, Zenon DEF Structure

\* The post offices as they are built.
LEMMA StructureInit ==
  ASSUME Setting, Init
  PROVE  Structure
<1>1. /\ script \in {[c \in Client |-> Expanded(s[c])] : s \in Scripts}
      /\ up = {} /\ wire = [h \in Host |-> <<>>] /\ inHdr = [h \in Host |-> NoMail]
      /\ sendInt = [h \in Host |-> 0]
      /\ avail = [s \in KSem |-> IF s[1] = "sendLock" THEN 1 ELSE 0]
      /\ waiting = [s \in KSem |-> {}]
      /\ worker = [h \in Host |-> [at |-> "loop", mail |-> NoMail]]
      /\ boxes = [h \in Host |-> [b \in Box |-> <<>>]]
      /\ pc = [c \in Client |-> "user"]
      /\ step = [c \in Client |-> 1]
      /\ mail = [c \in Client |-> NoMail]
  BY Zenon DEF Init, NetworkInput, NetworkOutput, OpenSocket, MailBox, S!Init
<1>2. \A c \in Client : WellFormed(script[c])
  <2>1. PICK s \in Scripts : script = [c \in Client |-> Expanded(s[c])]
    BY <1>1, Zenon
  <2> QED
    BY <2>1, Zenon DEF Setting
<1>3. script \in [Client -> Seq(Calls)]
  <2>1. PICK s \in Scripts : script = [c \in Client |-> Expanded(s[c])]
    BY <1>1, Zenon
  <2>2. \A c \in Client : Expanded(s[c]) \in Seq(Calls)
    BY Zenon DEF Setting, WellFormed
  <2> QED
    BY <2>1, <2>2, Zenon
<1>4. \A h \in Host : /\ avail[sendLock(h)] = 1 /\ waiting[sendLock(h)] = {}
                      /\ avail[messageSent(h)] = 0 /\ waiting[messageSent(h)] = {}
                      /\ avail[messageAvailable(h)] = 0 /\ waiting[messageAvailable(h)] = {}
  BY <1>1, Zenon DEF KSem, sendLock, messageSent, messageAvailable
<1>5. Types
  <2>1. avail \in [KSem -> Nat] /\ waiting \in [KSem -> SUBSET MailThread]
    BY <1>1, Zenon
  <2>2. /\ wire \in [Host -> Seq(Mail)] /\ boxes \in [Host -> [Box -> Seq(Mail)]]
    <3> DEFINE T == Seq(Mail)
               e == <<>>
    <3>1. e \in T
      OBVIOUS
    <3>2. wire = [h \in Host |-> e] /\ boxes = [h \in Host |-> [b \in Box |-> e]]
      BY <1>1, Zenon
    <3> HIDE DEF T, e
    <3>3. /\ wire \in [Host -> T] /\ boxes \in [Host -> [Box -> T]]
      BY <3>1, <3>2, Zenon
    <3> QED
      BY <3>3, Zenon DEF T
  <2>3. /\ worker \in [Host -> [at : {"loop", "receive", "put"}, mail : Mail \cup {NoMail}]]
        /\ inHdr \in [Host -> Mail \cup {NoMail}] /\ mail \in [Client -> Mail \cup {NoMail}]
    BY <1>1, Zenon
  <2>4. /\ up \subseteq Host /\ sendInt \in [Host -> Nat] /\ step \in [Client -> Nat \ {0}]
        /\ pc \in [Client -> {"user", "locked", "sent"}]
    BY <1>1
  <2> QED
    BY <1>3, <2>1, <2>2, <2>3, <2>4, Zenon DEF Types
<1>6. Scripted
  <2>1. \A c \in Client : pc[c] = "user" /\ step[c] = 1
    BY <1>1, Zenon
  <2>2. \A c \in Client : ~\E k \in 1..Len(script[c]) : k < step[c] /\ script[c][k].op = "receive"
    BY <2>1
  <2> QED
    BY <1>2, <2>1, <2>2, Zenon DEF Scripted
<1>7. Waits /\ Locks /\ Sends
  <2>1. \A s \in KSem : waiting[s] = {}
    BY <1>1, Zenon
  <2>2. \A c \in Client : pc[c] = "user"
    BY <1>1, Zenon
  <2>3. Waits
    BY <2>1, Zenon DEF Waits
  <2>4. Locks
    BY <1>4, <2>2 DEF Locks, Holds
  <2>5. \A h \in Host : sendInt[h] = 0
    BY <1>1, Zenon
  <2> QED
    <3>1. \A h \in Host : /\ sendInt[h] = 0 /\ avail[messageSent(h)] = 0
                          /\ waiting[messageSent(h)] = {}
      BY <1>4, <2>5, Zenon
    <3>2. Sends
      <4>1. ASSUME NEW h \in Host
            PROVE  sendInt[h] + avail[messageSent(h)]
                   = IF waiting[messageSent(h)] = {} THEN 0 ELSE 1
        <5>1. sendInt[h] = 0 /\ avail[messageSent(h)] = 0 /\ waiting[messageSent(h)] = {}
          BY <3>1, Zenon
        <5> QED
          BY <5>1
      <4> QED
        BY <4>1, Zenon DEF Sends
    <3> QED
      BY <2>3, <2>4, <3>2, Zenon
<1>8. Signals
  <2>1. \A h \in Host : worker[h].at = "loop" /\ worker[h].mail = NoMail /\ inHdr[h] = NoMail
    BY <1>1, Zenon
  <2> QED
    <3>1. \A h \in Host : ~Looking(h) /\ avail[messageAvailable(h)] = 0
      BY <1>4, <2>1, Zenon DEF Looking
    <3>2. \A h \in Host : worker[h].at # "put"
      BY <2>1, Zenon
    <3>3. ASSUME NEW h \in Host
          PROVE  avail[messageAvailable(h)] + (IF Looking(h) THEN 1 ELSE 0)
                 = (IF inHdr[h] = NoMail THEN 0 ELSE 1)
      <4>1. ~Looking(h) /\ avail[messageAvailable(h)] = 0 /\ inHdr[h] = NoMail
        BY <2>1, <3>1, Zenon
      <4> QED
        BY <4>1
    <3> QED
      BY <2>1, <3>2, <3>3, Zenon DEF Signals
<1>9. \A h \in Host, b \in Box : /\ boxes[h][b] = <<>> /\ wire[h] = <<>>
                                 /\ worker[h].mail = NoMail /\ inHdr[h] = NoMail
  BY <1>1, Zenon
<1>10. InOrder
  <2>1. Ordered(<<>>, NoMail, NoMail, <<>>)
    BY DEF Ordered
  <2> QED
    BY <1>9, <2>1, Zenon DEF InOrder
<1>11. AllPast
  <2>1. \A h \in Host : wire[h] = <<>> /\ worker[h].mail = NoMail /\ inHdr[h] = NoMail
    BY <1>1, Zenon
  <2> QED
    <3>1. 1..Len(<<>>) = {}
      OBVIOUS
    <3> QED
      BY <1>9, <2>1, <3>1, Zenon DEF AllPast
<1> QED
  BY <1>5, <1>6, <1>7, <1>8, <1>10, <1>11, Zenon DEF Structure

\* Every step keeps it.
LEMMA StructureNext ==
  ASSUME Setting, Structure, [Next]_vars
  PROVE  Structure'
<1>1. ASSUME NEW c \in Client, ClientStep(c)
      PROVE  Structure'
  BY <1>1, SendAcquireStep, SendPacketStep, SendReleaseStep, ReceiveStep, WakeClientStep,
     Zenon DEF ClientStep
<1>2. ASSUME NEW h \in Host, HostStep(h)
      PROVE  Structure'
  BY <1>2, NetworkSendIntStep, NetworkRecvIntStep, WorkerWaits, WorkerReceiveStep,
     WorkerPutStep, Zenon DEF HostStep
<1>3. CASE UNCHANGED vars
  <2>1. UNCHANGED <<script, up, wire, inHdr, sendInt, avail, waiting, worker, boxes, pc, step,
                    mail>>
    BY <1>3, Zenon DEF vars, net
  <2>2. Types /\ Scripted /\ Waits /\ Locks /\ Sends /\ Signals /\ InOrder /\ AllPast
    BY Zenon DEF Structure
  <2>3. Types' /\ Waits'
    BY <2>1, <2>2, Zenon DEF Types, Waits
  <2>4. Scripted'
    BY <2>1, <2>2, KeepScripted, Zenon
  <2>5. Locks' /\ Sends'
    BY <2>1, <2>2, KeepLocks, Zenon
  <2>6. Signals'
    BY <2>1, <2>2, KeepSignals, Zenon
  <2>7. InOrder' /\ AllPast'
    <3>1. \A x \in Mail : Past(x) => Past(x)'
      BY <2>1, Zenon DEF Past
    <3> QED
      BY <2>1, <2>2, <3>1, KeepOrder, Zenon
  <2> QED
    BY <2>3, <2>4, <2>5, <2>6, <2>7, Zenon DEF Structure
<1> QED
  BY <1>1, <1>2, <1>3, StartMachineStep, HaltMachineStep, Zenon DEF Next

\* For all machines, clients, boxes and scripts: a post office gives its
\* device one packet at a time; each signal of the device stands for one
\* packet in its buffer; and the mails of one client to one box are in the
\* order of Send in the box and on the way to it, whatever the network loses.
THEOREM PostSafe ==
  ASSUME Setting
  PROVE  Spec => [](OneSend /\ SignalMatches /\ SentInOrder)
<1>1. Init => Structure
  BY StructureInit, Zenon
<1>2. Structure /\ [Next]_vars => Structure'
  BY StructureNext, Zenon
<1>3. Structure => OneSend /\ SignalMatches /\ SentInOrder
  BY StructureGives, Zenon
<1> QED
  BY <1>1, <1>2, <1>3, PTL DEF Spec
=============================================================================
