------------------------------ MODULE Transfer ------------------------------
(***************************************************************************)
(* Copy and Print of threads/main.cc: a UNIX file is copied into the       *)
(* Nachos file system in pieces of TransferSize bytes, through the calls   *)
(* of lib/sysdep.cc on one side and OpenFile on the other; then a Nachos   *)
(* file is printed.  What the file system does below OpenFile::ReadAt and  *)
(* WriteAt is in module FileSystem; here FileSystem::Open matters, which   *)
(* returns an entry of openf chosen by a counter.                          *)
(***************************************************************************)
EXTENDS Integers, SequencesExt, FiniteSetsExt

CONSTANTS TransferSize,
          Texts,         \* the contents of the UNIX file
          Room,          \* bytes the Nachos disk has room for
          NoFile, Old    \* no such file; the contents of a Nachos file of that name

VARIABLES from,          \* the UNIX file, or NoFile
          to, before,    \* the Nachos file, or NoFile: now, and before Copy
          openf, index,  \* FileSystem::openf, by the name of the open file, and index
          fd,            \* -1, or the descriptor's position in the UNIX file
          openFile,      \* the open file of Copy or Print, or NULL
          seekPosition,  \* of that file
          deleted,       \* the OpenFile objects that were deleted
          printed,       \* what Print has printed
          phase          \* "copy", "loop", "copied", "print", "done", "aborted"

vars == <<from, to, before, openf, index, fd, openFile, seekPosition, deleted, printed, phase>>

NULL == "NULL"

\* The constructor opens the files of the console, which a disk that was just
\* formatted does not have yet, and then creates them.  Open(name, type) leaves
\* an object in the first free slot from 2 on, and the constructor in 0 and 1.
FileSystem(formatted) ==
  [k \in 0..9 |-> CASE ~formatted /\ k \in {0, 2} -> "stdin"
                    [] ~formatted /\ k \in {1, 3} -> "stdout"
                    [] OTHER -> NULL]

\* nachos with or without -f, with or without -cp; then -p.
Init ==
  /\ from \in Texts \cup {NoFile}
  /\ to \in {NoFile, Old}
  /\ before = to
  /\ \E formatted \in BOOLEAN : openf = FileSystem(formatted) /\ (formatted => to = NoFile)
  /\ index = 2
  /\ fd = -1
  /\ openFile = NULL
  /\ seekPosition = 0
  /\ deleted = {}
  /\ printed = <<>>
  /\ phase \in {"copy", "copied"}

\* The console's files are created with no bytes, and stay so.
Bytes(name) == IF name \in {"stdin", "stdout"} THEN <<>> ELSE to

\* Mutant: the counter stays.
OpenAgain ==
  /\ openFile' = openf[index]
  /\ seekPosition' = 0
  /\ UNCHANGED index

\* FileSystem::Open(name): the file of that name is opened, and another returned.
Open ==
  /\ openFile' = openf[index]
  /\ seekPosition' = 0
  /\ index' = index + 1

\* OpenForReadWrite(name, FALSE): -1 if there is no such file.
OpenForReadWrite == IF from = NoFile THEN -1 ELSE 0

\* Lseek to the end, Tell, and Lseek back.
Lseek(offset, whence) == offset + CASE whence = 0 -> 0 [] whence = 1 -> fd [] whence = 2 -> Len(from)
Tell == Lseek(0, 2)

\* FileSystem::Create, as far as Copy sees it: the bytes are whatever the sectors
\* held, here Old's.
Creates(size) == to = NoFile /\ size <= Room
Fresh(size) == [k \in 1..size |-> Old[1]]

\* OpenFile::ReadAt and WriteAt cut a request at the end of the file, which they
\* never move.
Cut(n, position, length) == IF n <= 0 \/ position >= length THEN 0 ELSE Min({n, length - position})

----------------------------------------------------------------------------
\* Copy, up to its loop: Create, Open and the assertion that it found a file.
Copy ==
  /\ phase = "copy"
  /\ IF OpenForReadWrite < 0 \/ ~Creates(Tell)
     THEN /\ phase' = "copied"
          /\ UNCHANGED <<to, index, fd, openFile, seekPosition>>
     ELSE /\ to' = Fresh(Tell)
          /\ fd' = Lseek(0, 0)
          /\ Open
          /\ phase' = IF openFile' = NULL THEN "aborted" ELSE "loop"
  /\ UNCHANGED <<from, before, openf, deleted, printed>>

\* ReadPartial returns what is available, at least a byte before the end.
ReadPartial(n) == n \in 1..Min({TransferSize, Len(from) - fd})

\* OpenFile::Write at the seek position.
Written(bytes, position) ==
  [k \in DOMAIN to |->
     IF k \in (position + 1)..(position + Cut(Len(bytes), position, Len(to)))
     THEN bytes[k - position] ELSE to[k]]

\* One round of the loop of Copy.
CopyPiece(n) ==
  /\ phase = "loop"
  /\ ReadPartial(n)
  /\ to' = IF openFile \in {"stdin", "stdout"} THEN to
           ELSE Written(SubSeq(from, fd + 1, fd + n), seekPosition)
  /\ seekPosition' = seekPosition + Cut(n, seekPosition, Len(Bytes(openFile)))
  /\ fd' = fd + n
  /\ UNCHANGED <<from, before, openf, index, openFile, deleted, printed, phase>>

\* Both files are closed.
CopyEnd ==
  /\ phase = "loop"
  /\ fd = Len(from)
  /\ fd' = -1
  /\ deleted' = deleted \cup {openFile}
  /\ openFile' = NULL
  /\ phase' = "copied"
  /\ UNCHANGED <<from, to, before, openf, index, seekPosition, printed>>

\* Print of main.cc opens the file,
PrintOpen ==
  /\ phase = "copied"
  /\ Open
  /\ phase' = IF openFile' = NULL THEN "done" ELSE "print"
  /\ UNCHANGED <<from, to, before, openf, fd, deleted, printed>>

\* and reads it until nothing is left.
PrintPiece ==
  /\ phase = "print"
  /\ LET bytes == Bytes(openFile)
         amountRead == Cut(TransferSize, seekPosition, Len(bytes)) IN
       /\ printed' = printed \o SubSeq(bytes, seekPosition + 1, seekPosition + amountRead)
       /\ seekPosition' = seekPosition + amountRead
       /\ IF amountRead > 0
          THEN UNCHANGED <<openFile, deleted, phase>>
          ELSE deleted' = deleted \cup {openFile} /\ openFile' = NULL /\ phase' = "done"
  /\ UNCHANGED <<from, to, before, openf, index, fd>>

Next == Copy \/ CopyEnd \/ PrintOpen \/ PrintPiece \/ \E n \in 1..TransferSize : CopyPiece(n)

Spec == Init /\ [][Next]_vars

----------------------------------------------------------------------------
\* Copy and Print never use an OpenFile that was deleted, although openf keeps
\* pointers to it; a file that was there stays as it is; a new one has the length
\* of the UNIX file; and no descriptor of Copy stays open unless it aborts.
TransferSafe ==
  /\ openFile \notin deleted
  /\ before # NoFile => to = before
  /\ to # before => Len(to) = Len(from)
  /\ phase \notin {"loop", "aborted"} => fd = -1

\* "Copy the contents of the UNIX file from to the Nachos file to" (main.cc): when
\* Copy has created the file, it ends with the file's contents equal.
CopyExact ==
  phase \in {"copied", "aborted"} /\ to # before => phase = "copied" /\ to = from
=============================================================================
