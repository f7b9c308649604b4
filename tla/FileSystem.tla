---------------------------- MODULE FileSystem ----------------------------
(***************************************************************************)
(* The file system on the simulated disk (filesys/filesys.cc, directory.cc,*)
(* filehdr.cc, pbitmap.cc, openfile.cc; left out of the build by           *)
(* FILESYS_STUB).  An operation reads what it needs, works on copies in    *)
(* memory and then writes sectors one by one; the machine may stop between *)
(* two of these writes.                                                    *)
(*                                                                         *)
(* The directory is a file of two sectors, as in the code (10 entries of   *)
(* 20 bytes): the entry Straddler begins in the first and has its name in  *)
(* the second.  A name stands for its first FileNameMaxLen characters.     *)
(***************************************************************************)
EXTENDS Integers, Sequences, FiniteSetsExt

CONSTANTS NumSectors, SectorSize, NumDirEntries, Straddler,
          Name, Stdin, Stdout, NoName,
          FileSizes,   \* at most MaxFileSize, which Allocate does not check
          Garbage, Texts,
          MaxOps       \* bound on the operations

VARIABLES
  disk,     \* what each sector holds
  queue,    \* the sectors still to be written by the operation
  op,       \* the operation: its kind, the name and what it wrote
  before,   \* the files as they were before the operation
  ops, stopped

vars == <<disk, queue, op, before, ops, stopped>>

Sector == 0..(NumSectors - 1)
FreeMapSector == 0
DirectorySector == 1
MapData == 2
DirData == <<3, 4>>
SystemSectors == 0..4

----------------------------------------------------------------------------
\* class DirectoryEntry: `at' is the sector of the header, or -1 when the entry
\* is not in use.
Entry == 1..NumDirEntries

\* Directory::Directory: no entry in use.
Directory == [i \in Entry |-> [at |-> -1, name |-> NoName]]

\* Directory::FetchFrom: the two sectors put together.
FetchDir(d) ==
  [i \in Entry |->
     [at   |-> d[DirData[IF i <= Straddler THEN 1 ELSE 2]].ats[i],
      name |-> d[DirData[IF i < Straddler THEN 1 ELSE 2]].names[i]]]

\* Directory::WriteBack.
DirSector(dir, ats, names) ==
  [ats |-> [i \in ats |-> dir[i].at], names |-> [i \in names |-> dir[i].name]]

DirWrites(dir) ==
  << <<DirData[1], DirSector(dir, 1..Straddler, 1..(Straddler - 1))>>,
     <<DirData[2], DirSector(dir, (Straddler + 1)..NumDirEntries,
                             Straddler..NumDirEntries)>> >>

\* PersistentBitmap, read from its file and written back.
FetchMap(d) == d[MapData]
MapWrite(map) == <<MapData, map>>

\* Directory::FindIndex (the least of these).
FindIndex(dir, n) == {i \in Entry : dir[i].at >= 0 /\ dir[i].name = n}

FreeEntries(dir) == {i \in Entry : dir[i].at < 0}

\* Mutant: the new entry goes to the front of the table.
AddOver(dir, n, sector) ==
  [i \in Entry |-> IF i = 1 THEN [at |-> sector, name |-> n] ELSE dir[i]]

\* Directory::Add and Remove.
Add(dir, n, sector) ==
  [i \in Entry |-> IF i = Min(FreeEntries(dir)) THEN [at |-> sector, name |-> n] ELSE dir[i]]
Removed(dir, k) ==
  [i \in Entry |-> [at |-> IF i = k THEN -1 ELSE dir[i].at, name |-> dir[i].name]]

\* Bitmap::FindAndSet, k times: the k first clear bits.
FirstClear(map, k) ==
  CHOOSE s \in [1..k -> Sector \ map] :
    /\ \A i, j \in 1..k : i < j => s[i] < s[j]
    /\ \A x \in Sector \ map : x \in Range(s) \/ \A i \in 1..k : s[i] < x

\* divRoundUp(fileSize, SectorSize)
SectorsFor(size) == (size + SectorSize - 1) \div SectorSize

\* FileHeader::Deallocate and ByteToSector.
Deallocate(map, hdr) == map \ Range(hdr.dataSectors)
ByteToSector(hdr, offset) == hdr.dataSectors[1 + (offset \div SectorSize)]

\* The disk after the writes q, which are to different sectors.
Written(d, q) ==
  [s \in Sector |-> IF \E j \in DOMAIN q : q[j][1] = s
                    THEN q[CHOOSE j \in DOMAIN q : q[j][1] = s][2] ELSE d[s]]

----------------------------------------------------------------------------
\* Mutant: the header is written last.
WriteBacksLate(hdr, dir, map) == dir \o map \o hdr

\* The order in which Create writes back.
WriteBacks(hdr, dir, map) == hdr \o dir \o map

\* FileSystem::Create: what it writes back; nothing when it fails.
CreateWrites(d, n, size) ==
  LET dir  == FetchDir(d)
      map  == FetchMap(d)
      hdr  == Min(Sector \ map)
      data == FirstClear(map \cup {hdr}, SectorsFor(size))
  IN  IF FindIndex(dir, n) # {} \/ Cardinality(Sector \ map) < 1 + SectorsFor(size)
           \/ FreeEntries(dir) = {} THEN <<>>
      ELSE WriteBacks(<< <<hdr, [numBytes |-> size, dataSectors |-> data]>> >>,
                      DirWrites(Add(dir, n, hdr)),
                      << MapWrite(map \cup {hdr} \cup Range(data)) >>)

\* Mutant: Deallocate misses the last block.
RemoveWritesShort(d, n) ==
  LET dir == FetchDir(d)
      i   == Min(FindIndex(dir, n))
      hdr == d[dir[i].at]
      k   == Len(hdr.dataSectors)
  IN  IF FindIndex(dir, n) = {} THEN <<>>
      ELSE << MapWrite(d[MapData] \ ({dir[i].at}
                                      \cup {hdr.dataSectors[j] : j \in 1..(k - 1)})) >>
           \o DirWrites(Removed(dir, i))

\* FileSystem::Remove.
RemoveWrites(d, n) ==
  LET dir == FetchDir(d)
      i   == Min(FindIndex(dir, n))
      hdr == d[dir[i].at]
  IN  IF FindIndex(dir, n) = {} THEN <<>>
      ELSE << MapWrite(Deallocate(FetchMap(d), hdr) \ {dir[i].at}) >>
           \o DirWrites(Removed(dir, i))

\* Mutant: a write within one sector does not read it when it begins aligned.
PartialFirst(first, last, firstAligned, lastAligned, i) ==
  \/ i = first /\ ~firstAligned
  \/ i = last /\ ~lastAligned /\ first # last

\* Which sectors WriteAt reads because it changes a part of them.
Partial(first, last, firstAligned, lastAligned, i) ==
  \/ i = first /\ ~firstAligned
  \/ i = last /\ ~lastAligned /\ (first # last \/ firstAligned)

\* The bytes of a file, as ReadAt gives them: those within its length.
Content(d, hdr) ==
  [k \in 1..hdr.numBytes |->
     d[ByteToSector(hdr, k - 1)].bytes[1 + ((k - 1) % SectorSize)]]

\* OpenFile::WriteAt: whole sectors, built in a buffer that is not initialised.
WriteAt(d, hdr, text, position) ==
  LET numBytes == Min({Len(text), hdr.numBytes - position})
      first == position \div SectorSize
      last  == (position + numBytes - 1) \div SectorSize
      firstAligned == position = first * SectorSize
      lastAligned == position + numBytes = (last + 1) * SectorSize
      old   == Content(d, hdr)
      byte(i, k) ==     \* byte k of the sector i of the file
        LET at == (i * SectorSize) + k
        IN  CASE at \in (position + 1)..(position + numBytes) -> text[at - position]
              [] at \notin (position + 1)..(position + numBytes)
                 /\ Partial(first, last, firstAligned, lastAligned, i)
                 /\ at <= hdr.numBytes -> old[at]
              [] OTHER -> Garbage
  IN  IF numBytes <= 0 THEN <<>>
      ELSE [j \in 1..(1 + last - first) |->
              <<ByteToSector(hdr, (first + j - 1) * SectorSize),
                [bytes |-> [k \in 1..SectorSize |-> byte(first + j - 1, k)]]>>]

----------------------------------------------------------------------------
\* Every file of the directory, with its header and its bytes.
Files(d) ==
  LET dir == FetchDir(d)
      used == {i \in Entry : dir[i].at >= 0}
  IN  [n \in {dir[i].name : i \in used} |->
         LET at == dir[Min({i \in used : dir[i].name = n})].at
         IN  [at |-> at, hdr |-> d[at], bytes |-> Content(d, d[at])]]

\* The constructor formats the disk and creates the files of the console.
Formatted ==
  LET blank == [s \in Sector |->
                  CASE s = FreeMapSector -> [numBytes |-> SectorSize, dataSectors |-> <<MapData>>]
                    [] s = DirectorySector -> [numBytes |-> 2 * SectorSize, dataSectors |-> DirData]
                    [] s = MapData -> SystemSectors
                    [] OTHER -> [bytes |-> [k \in 1..SectorSize |-> Garbage]]]
      fresh == Written(blank, DirWrites(Directory))
      one   == Written(fresh, CreateWrites(fresh, Stdin, 0))
  IN  Written(one, CreateWrites(one, Stdout, 0))

Op(k, n, w, p) == [kind |-> k, name |-> n, text |-> w, position |-> p]

Init ==
  /\ disk = Formatted
  /\ queue = <<>>
  /\ op = Op("none", NoName, <<>>, 0)
  /\ before = Files(Formatted)
  /\ ops = 0
  /\ stopped = FALSE

\* An operation begins: it computes what it is going to write.
Begin(o, writes) ==
  /\ ~stopped
  /\ queue = <<>>
  /\ ops < MaxOps
  /\ ops' = ops + 1
  /\ op' = o
  /\ queue' = writes
  /\ before' = Files(disk)
  /\ UNCHANGED <<disk, stopped>>

Create(n, size) == Begin(Op("create", n, <<>>, 0), CreateWrites(disk, n, size))

RemoveFile(n) == Begin(Op("remove", n, <<>>, 0), RemoveWrites(disk, n))

\* FileSystem::Open(name, type): the header of the file.  It has eight slots for
\* open files, more than MaxOps.
Open(d, n) == d[FetchDir(d)[Min(FindIndex(FetchDir(d), n))].at]

\* OpenFile::WriteAt of an open file.
Write(n, text, position) ==
  /\ FindIndex(FetchDir(disk), n) # {}
  /\ Begin(Op("write", n, text, position), WriteAt(disk, Open(disk, n), text, position))

\* SynchDisk::WriteSector.
WriteSector ==
  /\ ~stopped
  /\ queue # <<>>
  /\ disk' = [disk EXCEPT ![Head(queue)[1]] = Head(queue)[2]]
  /\ queue' = Tail(queue)
  /\ UNCHANGED <<op, before, ops, stopped>>

\* The machine stops in the middle of an operation.
Stop ==
  /\ queue # <<>>
  /\ stopped' = TRUE
  /\ queue' = <<>>
  /\ UNCHANGED <<disk, op, before, ops>>

UserName == Name \ {Stdin, Stdout}

Next ==
  \/ WriteSector \/ Stop
  \/ \E n \in UserName : \/ RemoveFile(n)
                         \/ \E size \in FileSizes : Create(n, size)
                         \/ \E t \in Texts, p \in FileSizes : Write(n, t, p)

Spec == Init /\ [][Next]_vars

----------------------------------------------------------------------------
Owned(f) == {f.at} \cup Range(f.hdr.dataSectors)

\* Between operations the free map marks exactly the sectors in use, and no
\* sector belongs to two files, nor a name to two entries: nothing is lost and
\* nothing is shared, whatever was created, removed or refused for want of room.
Consistent ==
  queue = <<>> /\ ~stopped =>
    LET files == Files(disk) IN
    /\ disk[MapData] = SystemSectors \cup UNION {Owned(files[n]) : n \in DOMAIN files}
    /\ \A m, n \in DOMAIN files :
         /\ Owned(files[n]) \cap SystemSectors = {}
         /\ m # n => Owned(files[m]) \cap Owned(files[n]) = {}
    /\ \A i, j \in Entry :
         LET dir == FetchDir(disk) IN
         dir[i].at >= 0 /\ dir[j].at >= 0 /\ dir[i].name = dir[j].name => i = j

\* While an operation on one file is under way, and if the machine stops in
\* the middle of it, every other file is what it was: entry, header and bytes.
OthersKept ==
  \A n \in DOMAIN before \ {op.name} : n \in DOMAIN Files(disk) /\ Files(disk)[n] = before[n]

\* A name of the directory leads to a header at every moment, also after a
\* stop: Create writes the header before the entry.
HeadersFirst ==
  \A i \in Entry : LET at == FetchDir(disk)[i].at
                   IN  at >= 0 => "dataSectors" \in DOMAIN disk[at]

\* A write changes the bytes it names, as far as the file reaches, and no other
\* byte of the file, wherever it begins and ends in a sector.
WriteExact ==
  op.kind = "write" /\ queue = <<>> /\ ~stopped =>
    Files(disk)[op.name].bytes =
      [k \in DOMAIN before[op.name].bytes |->
         IF k \in (op.position + 1)..(op.position + Len(op.text))
         THEN op.text[k - op.position] ELSE before[op.name].bytes[k]]
=============================================================================
