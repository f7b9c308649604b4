------------------------------- MODULE Files -------------------------------
(***************************************************************************)
(* What userprog/syscall.h promises of the file calls: an open file has    *)
(* one position of its own, a Read returns the bytes that are there, as    *)
(* many as were asked for or as there are, a Write puts the bytes of the   *)
(* buffer into the file, Close returns 1, a failure is a negative code and *)
(* changes nothing.  Module FileTable says how the calls keep this.        *)
(***************************************************************************)
EXTENDS Integers, Sequences

CONSTANTS Proc, Slot, Name, Nul, NoFile, NoHandle,
          Buffers, Sizes    \* what a program passes to Read and Write

VARIABLES file,    \* the bytes of each file, or NoFile
          handle,  \* each process's open files
          result   \* what the last call returned, and the bytes it copied out: NoFile
                  \* when it was one on the console

vars == <<file, handle, result>>

\* Write into a file: a gap is filled with zeros.
Overwrite(c, pos, w) ==
  LET last == pos + Len(w)
  IN  [i \in 1..(IF Len(c) > last THEN Len(c) ELSE last) |->
         IF i \in (pos + 1)..last THEN w[i - pos]
         ELSE IF i <= Len(c) THEN c[i] ELSE Nul]

Result(r, d) == [ret |-> r, data |-> d]

Open(p, i, n, t) ==
  /\ file[n] # NoFile
  /\ result' = Result(i, <<>>)
  /\ handle[p][i] = NoHandle
  /\ handle' = [handle EXCEPT ![p][i] = [name |-> n, type |-> t, pos |-> 0]]
  /\ UNCHANGED file

Close(p, i, r) ==
  /\ result' = Result(r, <<>>)
  /\ handle[p][i] # NoHandle
  /\ handle' = [handle EXCEPT ![p][i] = NoHandle]
  /\ UNCHANGED file

\* The bytes that a Read of this size finds.
Text(p, i, size) ==
  LET h == handle[p][i]
      end == IF h.pos + size < Len(file[h.name]) THEN h.pos + size ELSE Len(file[h.name])
  IN  SubSeq(file[h.name], h.pos + 1, end)

\* d is what comes to the program.
Read(p, i, size, d) ==
  LET n == Len(Text(p, i, size)) IN
  /\ handle[p][i] # NoHandle
  /\ handle' = [handle EXCEPT ![p][i].pos = @ + n]
  /\ result' = Result(n, d)
  /\ UNCHANGED file

Write(p, i, w) ==
  LET h == handle[p][i] IN
  /\ h # NoHandle
  /\ h.type # 1
  /\ file' = [file EXCEPT ![h.name] = Overwrite(@, h.pos, w)]
  /\ handle' = [handle EXCEPT ![p][i].pos = @ + Len(w)]
  /\ result' = Result(Len(w), <<>>)

Seek(p, i, n) ==
  LET h == handle[p][i] IN
  /\ h # NoHandle
  /\ n \in 0..Len(file[h.name])
  /\ handle' = [handle EXCEPT ![p][i].pos = n]
  /\ result' = Result(n, <<>>)
  /\ UNCHANGED file

\* Not a promise: a call that fails and moves a position back by one.
Back(p, i) ==
  /\ handle[p][i] # NoHandle
  /\ handle' = [handle EXCEPT ![p][i].pos = @ - 1]
  /\ result' = Result(-1, <<>>)
  /\ UNCHANGED file

\* A file is made empty; open files keep their positions.
Create(n) ==
  /\ file' = [file EXCEPT ![n] = <<>>]
  /\ result' = Result(0, <<>>)
  /\ UNCHANGED handle

\* A call that fails, with a negative code, or one on the console.  A Read that
\* finds no byte and a Write of none may be such failures: their number of bytes is
\* then a negative code, where syscall.h has 0.
NoEffect ==
  /\ (result'.ret < 0 /\ result'.data = <<>>) \/ result'.data = NoFile
  /\ UNCHANGED <<file, handle>>

\* A process starts with its console files, made empty, or is gone.
Renew(p) ==
  /\ UNCHANGED result
  /\ \A n \in Name : file'[n] \in {file[n], <<>>}
  /\ handle' = [handle EXCEPT ![p] = handle'[p]]

\* The position a Seek moves to is its result.
Next ==
  \/ NoEffect
  \/ \E n \in Name : Create(n)
  \/ \E p \in Proc :
       \/ Renew(p)
       \/ \E i \in Slot :
            \/ \E n \in Name, t \in {0, 1} : Open(p, i, n, t)
            \/ Close(p, i, 1)
            \/ Seek(p, i, result'.ret)
            \/ \E size \in Sizes :
                 \/ handle[p][i] # NoHandle /\ size >= 0 /\ Read(p, i, size, Text(p, i, size))
                 \/ \E b \in Buffers : size \in 1..Len(b) /\ Write(p, i, SubSeq(b, 1, size))
=============================================================================
