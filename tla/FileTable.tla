----------------------------- MODULE FileTable -----------------------------
(***************************************************************************)
(* The table of open files in each PCB (threads/pcb.cc) over the UNIX      *)
(* files of the stub file system (filesys/filesys.h, filesys/openfile.h,   *)
(* lib/sysdep.cc), as the system calls of userprog/exception.cc use them.  *)
(* A call is one step: only on ids 0 and 1 does it give up the CPU, in     *)
(* GetChar and PutChar, and it does not look at the table after that.      *)
(*                                                                         *)
(* UNIX refuses a count of -1; it may refuse to create, open or write a    *)
(* file, but neither writes a part nor runs out of descriptors.            *)
(***************************************************************************)
EXTENDS Integers, FiniteSetsExt, Sequences

CONSTANTS Proc, Name,
          Stdin, Stdout,   \* the UNIX files behind ids 0 and 1
          NumSlots,        \* 10 in the code
          Byte, Nul,
          Existing,        \* the other files: their bytes, or NoFile
          NoName,          \* the name of no characters
          Buffers,         \* the bytes at the addresses that programs pass to Write
          Sizes, Positions,
          Reads(_),        \* what a name copied without its end may read as
          NoFile, NoHandle,
          MaxLen, MaxCalls \* bounds on a file's length, and on the calls before one of a process

VARIABLES
  file,     \* the UNIX file system
  table,    \* PCB::fileTable, or NoHandle when there is no such process
  result,   \* register 2, and what System2User copied out: NoFile, the console's
  up,       \* no assertion has failed, no exception was thrown
  calls

vars == <<file, table, result, up, calls>>

Slot == 0..(NumSlots - 1)

UpToNul(s) == LET ends == {i \in DOMAIN s : s[i] = Nul}
              IN  IF ends = {} THEN s ELSE SubSeq(s, 1, Min(ends))

----------------------------------------------------------------------------
\* OpenFile (stub): `at' is the position UNIX keeps for the descriptor.
NewOpenFile(n, t, r) == [name |-> n, reads |-> r, type |-> t, at |-> 0, currentOffset |-> 0]

GetCurrentPos(o) == [o EXCEPT !.currentOffset = o.at]

\* OpenFile::Read and Write seek and transfer n bytes, or UNIX refuses and n is
\* -1, which is added to currentOffset all the same.
Transfer(o, n) == [o EXCEPT !.at = o.currentOffset + Max({0, n}), !.currentOffset = @ + n]

\* read(2).
Available(o, n) == Min({n, Max({0, Len(file[o.name]) - o.currentOffset})})

Overwrite(c, pos, w) ==
  [i \in 1..Max({Len(c), pos + Len(w)}) |->
     IF i \in (pos + 1)..(pos + Len(w)) THEN w[i - pos]
     ELSE IF i <= Len(c) THEN c[i] ELSE Nul]

\* Mutant: Length as the line that is commented out has it.
AfterLengthStays(o) == [o EXCEPT !.at = Len(file[o.name])]

\* OpenFile::Length goes to the end and comes back.
AfterLength(o) == [o EXCEPT !.at = o.currentOffset]

OpenFileSeek(o, pos) == [o EXCEPT !.at = pos, !.currentOffset = pos]

\* The table of a new PCB: ids 0 and 1.
Console(rIn, rOut) ==
  [i \in Slot |-> CASE i = 0 -> NewOpenFile(Stdin, 2, rIn)
                    [] i = 1 -> NewOpenFile(Stdout, 3, rOut)
                    [] OTHER -> NoHandle]

----------------------------------------------------------------------------
\* FileSystem::FileSystem has made the files of the console.
Init ==
  /\ file = [n \in Name |-> IF n \in {Stdin, Stdout} THEN <<>> ELSE Existing[n]]
  /\ table = [p \in Proc |-> NoHandle]
  /\ result = [ret |-> 0, data |-> <<>>]
  /\ up = TRUE
  /\ calls = 0

Alive(p) == table[p] # NoHandle
IsOpen(p, id) == id \in Slot /\ table[p][id] # NoHandle

Returns(r, d) == result' = [ret |-> r, data |-> d] /\ UNCHANGED up

\* A call of p, within the bound.
Call(p) == up /\ Alive(p) /\ calls < MaxCalls[p] /\ calls' = calls + 1

Fails(r) == Returns(r, <<>>) /\ UNCHANGED <<file, table>>
OnConsole(r) == Returns(r, NoFile) /\ UNCHANGED <<file, table>>

\* An assertion of sysdep.cc fails, or new throws, and the kernel is gone.
Abort == up' = FALSE /\ UNCHANGED <<file, table, result>>

\* PCB::PCB makes the files of the console anew, empty, and opens them.
NewPCB(p) ==
  /\ up
  /\ ~Alive(p)
  /\ file' = [file EXCEPT ![Stdin] = <<>>, ![Stdout] = <<>>]
  /\ \E rIn \in Reads(Stdin), rOut \in Reads(Stdout) :
       table' = [table EXCEPT ![p] = Console(rIn, rOut)]
  /\ UNCHANGED <<result, up, calls>>

\* PCB::~PCB ends in Thread::Finish: the open files are never closed, and
\* nothing refers to them any more.
DeletePCB(p) ==
  /\ up
  /\ Alive(p)
  /\ table' = [table EXCEPT ![p] = NoHandle]
  /\ UNCHANGED <<file, result, up, calls>>

\* SysCreateFile, FileSystem::Create, OpenForWrite: O_CREAT and O_TRUNC.  A file
\* that UNIX will not create fails the assertion of OpenForWrite.
CreateFile(p, n) ==
  /\ Call(p)
  /\ \/ n = NoName /\ Fails(-1)
     \/ n # NoName /\ Abort
     \/ /\ n # NoName
        /\ file' = [file EXCEPT ![n] = <<>>]
        /\ Returns(0, <<>>)
        /\ UNCHANGED table

\* Mutant: the search for a free slot begins at 0.
FindFreeSlotAny(p) == {i \in Slot : table[p][i] = NoHandle}

\* PCB::FindFreeSlot (the least of these; none: -1).
FindFreeSlot(p) == {i \in Slot : i >= 2 /\ table[p][i] = NoHandle}

\* Mutant: the open files are not searched for the name.
NameInUseNever(p, n) == FALSE

\* The loop of PCB::Open that compares the names.
NameInUse(p, n) == \E i \in Slot : table[p][i] # NoHandle /\ table[p][i].reads = n

Open(p, n, type) ==
  LET free == FindFreeSlot(p)
      opens == ~NameInUse(p, n) /\ free # {}
      exists == file[n] # NoFile
  IN  /\ Call(p)
      /\ \/ ~opens /\ Fails(-1)
         \/ opens /\ type = 2 /\ OnConsole(0)
         \/ opens /\ type = 3 /\ OnConsole(1)
         \/ opens /\ type \in {0, 1} /\ Fails(-1)
         \/ /\ opens /\ type \in {0, 1} /\ exists
            /\ \E r \in Reads(n) :
                 table' = [table EXCEPT ![p][Min(free)] = NewOpenFile(n, type, r)]
            /\ Returns(Min(free), <<>>)
            /\ UNCHANGED file

Close(p, id) ==
  /\ Call(p)
  /\ \/ ~IsOpen(p, id) /\ Fails(-1)
     \/ /\ IsOpen(p, id)
        /\ table' = [table EXCEPT ![p][id] = NoHandle]
        /\ Returns(0, <<>>)
        /\ UNCHANGED file

\* The sizes for which User2System has a buffer: new char[size + 1].
HasBuffer(size) == size >= -1

\* SC_Read: PCB::Read and System2User, which stops behind a zero byte.  A line
\* from the console has any length up to size.
Read(p, id, size) ==
  LET readable == IsOpen(p, id) /\ id # 1
      o == GetCurrentPos(table[p][id])
      n == Available(o, size)
  IN  /\ Call(p)
      /\ \/ ~HasBuffer(size) /\ Abort
         \/ HasBuffer(size) /\ ~readable /\ Fails(-1)
         \/ HasBuffer(size) /\ readable /\ id = 0 /\ \E k \in 0..Max({0, size}) : OnConsole(k)
         \/ /\ HasBuffer(size) /\ readable /\ id > 1
            /\ table' = [table EXCEPT ![p][id] = Transfer(o, n)]
            /\ IF n > 0
               THEN Returns(n, UpToNul(SubSeq(file[o.name], o.currentOffset + 1,
                                              o.currentOffset + n)))
               ELSE Returns(-2, <<>>)
            /\ UNCHANGED file

\* User2System copies size bytes or up to a zero byte; what follows it in the
\* kernel's buffer is not initialised.
User2System(buffer, size) ==
  LET text == SubSeq(buffer, 1, size)
      k == Len(UpToNul(text))
  IN  {w \in [DOMAIN text -> Byte] : \A i \in 1..k : w[i] = text[i]}

\* Mutant: a file opened for reading only may be written.
WritableAlways(p, id) == IsOpen(p, id) /\ id # 0

\* The checks at the head of PCB::Write.
Writable(p, id) == IsOpen(p, id) /\ id # 0 /\ table[p][id].type # 1

\* SC_Write: PCB::Write; on id 1 the text goes to the console.  WriteFile asserts
\* that UNIX wrote what it was asked to, which a refused count of -1 passes.
Write(p, id, buffer, size) ==
  LET o == GetCurrentPos(table[p][id]) IN
  /\ Call(p)
  /\ size <= Len(buffer)
  /\ \/ ~HasBuffer(size) /\ Abort
     \/ HasBuffer(size) /\ ~Writable(p, id) /\ Fails(-1)
     \/ HasBuffer(size) /\ Writable(p, id) /\ id = 1 /\ \E k \in 0..Max({0, size}) : OnConsole(k)
     \/ size >= 0 /\ Writable(p, id) /\ id > 1 /\ Abort
     \/ /\ HasBuffer(size) /\ Writable(p, id) /\ id > 1
        /\ o.currentOffset + size <= MaxLen
        /\ \E w \in User2System(buffer, size) :
             file' = [file EXCEPT ![o.name] =
                        IF size > 0 THEN Overwrite(@, o.currentOffset, w) ELSE @]
        /\ table' = [table EXCEPT ![p][id] = Transfer(o, size)]
        /\ Returns(IF size > 0 THEN size ELSE -1, <<>>)

\* PCB::Seek, where -1 stands for the end.  It always asks for the Length, which
\* goes back to currentOffset; Lseek asserts that there is such a place.
Seek(p, id, position) ==
  LET o == AfterLength(table[p][id])
      length == Len(file[o.name])
      pos == IF position = -1 THEN length ELSE position
      seekable == IsOpen(p, id) /\ id > 1
  IN  /\ Call(p)
      /\ \/ ~seekable /\ Fails(-1)
         \/ seekable /\ o.currentOffset < 0 /\ Abort
         \/ /\ seekable /\ o.currentOffset >= 0 /\ pos \in 0..length
            /\ table' = [table EXCEPT ![p][id] = OpenFileSeek(o, pos)]
            /\ Returns(pos, <<>>)
            /\ UNCHANGED file
         \/ /\ seekable /\ o.currentOffset >= 0 /\ pos \notin 0..length
            /\ table' = [table EXCEPT ![p][id] = o]
            /\ Returns(-1, <<>>)
            /\ UNCHANGED file

Ids == -1..NumSlots

Next ==
  \E p \in Proc :
    \/ NewPCB(p) \/ DeletePCB(p)
    \/ \E n \in Name : CreateFile(p, n) \/ \E type \in 0..3 : Open(p, n, type)
    \/ \E id \in Ids : \/ Close(p, id)
                       \/ \E size \in Sizes : \/ Read(p, id, size)
                                               \/ \E b \in Buffers : Write(p, id, b, size)
                       \/ \E pos \in Positions : Seek(p, id, pos)

Spec == Init /\ [][Next]_vars

----------------------------------------------------------------------------
\* Between calls the kernel and UNIX keep the same position for an open file, or
\* the kernel's is one less: after a Read or Write of size -1, which UNIX refuses
\* and openfile.h counts as a byte moved back.  Such slips do not add up, as the
\* next Read or Write begins with GetCurrentPos, and without that size there are
\* none.
OffsetsAgree ==
  \A p \in Proc, i \in Slot :
    Alive(p) /\ IsOpen(p, i) =>
      \/ table[p][i].currentOffset = table[p][i].at
      \/ -1 \in Sizes /\ table[p][i].currentOffset = table[p][i].at - 1

\* Ids 0 and 1 never come to mean anything but the console, even when a program
\* closes them.
ConsoleStays ==
  \A p \in Proc : Alive(p) =>
    /\ IsOpen(p, 0) => table[p][0].name = Stdin
    /\ IsOpen(p, 1) => table[p][1].name = Stdout

\* A process has a file open at most once, as PCB::Open means to ensure, as
\* long as the name that OpenFile copied without its end reads right.
OpenOnce ==
  \A p \in Proc : Alive(p) => \A i, j \in Slot :
    /\ i # j
    /\ IsOpen(p, i) /\ IsOpen(p, j)
    /\ table[p][i].name = table[p][j].name
    => \E k \in {i, j} : table[p][k].reads # table[p][k].name

\* What a program can tell of its open files: where the next byte comes from.
Handles ==
  [p \in Proc |-> [i \in Slot |->
     IF Alive(p) /\ IsOpen(p, i)
     THEN [name |-> table[p][i].name, type |-> table[p][i].type, pos |-> table[p][i].at]
     ELSE NoHandle]]

F == INSTANCE Files WITH handle <- Handles

\* There is a zero byte before the last.
NulInside(s) == \E k \in 1..(Len(s) - 1) : s[k] = Nul

\* A Read returns the number of bytes it read and copies out only those up to a
\* zero byte; a Write of a text with a zero byte inside writes what the kernel's
\* buffer held behind it.
ReadCut(p, i, size) ==
  LET text == F!Text(p, i, size)
  IN  NulInside(text) /\ F!Read(p, i, size, UpToNul(text))
WriteGarbled(p, i, b, size) ==
  /\ NulInside(SubSeq(b, 1, size))
  /\ \E w \in User2System(b, size) : F!Write(p, i, w)

\* A Seek that fails after a Read or Write of size -1 takes UNIX back one byte.
SlippedSeek(p, i) ==
  /\ table[p][i].at = table[p][i].currentOffset + 1
  /\ F!Back(p, i)

\* How the calls depart from what userprog/syscall.h says of them; a Close that
\* succeeds returns 0.
Departs ==
  \E p \in Proc, i \in Slot :
    /\ Alive(p) /\ IsOpen(p, i)
    /\ \/ F!Close(p, i, 0)
       \/ \E size \in Sizes : \/ ReadCut(p, i, size)
                              \/ \E b \in Buffers : WriteGarbled(p, i, b, size)
       \/ -1 \in Sizes /\ SlippedSeek(p, i)

\* Every call does what module Files, which is syscall.h, promises, or departs
\* from it in one of these ways and no other: an open file has one position, a
\* Read returns the bytes that are there and a Write puts its own, a call that
\* fails changes nothing.  A Read or Write of no bytes counts as one that fails.
ImplementsFiles == [][F!Next \/ Departs]_(F!vars)
=============================================================================
