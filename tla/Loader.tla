------------------------------ MODULE Loader ------------------------------
(***************************************************************************)
(* From the linker's output to memory: coff2noff (../coff2noff) converts a *)
(* COFF file to a NOFF file, AddrSpace::Load (userprog/addrspace.cc)       *)
(* copies its segments, page by page, to the frames of a new process.      *)
(*                                                                         *)
(* A byte is known by the section it comes from and its place there.       *)
(***************************************************************************)
EXTENDS Integers, SequencesExt, FiniteSetsExt

CONSTANTS PageSize,
          HeaderSize,      \* sizeof(NoffHeader)
          StackPages,      \* UserStackSize, in pages
          TextSizes, DataSizes, BssSizes,  \* bounds: the sections' sizes
          Frame(_),        \* the frame of each virtual page
          Hole             \* what an unwritten byte of a file or memory is

VARIABLES coff,   \* the sections of the COFF file, in order
          noff,   \* the NOFF file: its header and its bytes
          memory, \* mainMemory, as far as it was copied to
          phase

vars == <<coff, noff, memory, phase>>

Section(n, a, s) == [name |-> n, paddr |-> a, size |-> s]

\* test/script: the order in which the linker lays out the sections.
Linked(text, rdata, data, sbss, bss) ==
  <<Section(".text", 0, text), Section(".rdata", text, rdata),
    Section(".data", text + rdata, data),
    Section(".sbss", text + rdata + data, sbss),
    Section(".bss", text + rdata + data + sbss, bss)>>

NoSegment == [virtualAddr |-> 0, inFileAddr |-> 0, size |-> 0]

Init ==
  /\ \E t \in TextSizes, r, d \in DataSizes, s, b \in BssSizes : coff = Linked(t, r, d, s, b)
  /\ noff = [header |-> [s \in {".text", ".rdata", ".data", ".bss"} |-> NoSegment],
             bytes |-> <<>>]
  /\ memory = <<>>
  /\ phase = "linked"

\* The section s is copied behind what the file holds already.
Copied(n, s) ==
  [header |-> [n.header EXCEPT ![s.name] =
                 [virtualAddr |-> s.paddr, size |-> s.size,
                  inFileAddr |-> HeaderSize + Len(n.bytes)]],
   bytes |-> n.bytes \o [k \in 1..s.size |-> <<s.name, k - 1>>]]

\* .bss has no bytes.  (There is one such section: the linker calls the small
\* one .sbss, so the test for a second .bss is never reached.)
Bss(n, s) == [n EXCEPT !.header[".bss"] = [NoSegment EXCEPT !.virtualAddr = s.paddr,
                                                            !.size = s.size]]

\* coff2noff gives up: an unknown section that is not empty (.sbss is one).
Unknown == \E i \in DOMAIN coff : coff[i].name = ".sbss" /\ coff[i].size > 0

RECURSIVE Convert(_, _)
\* The loop of main in coff2noff.c.
Convert(n, i) ==
  IF i > Len(coff) THEN n
  ELSE LET s == coff[i]
       IN  Convert(IF s.size = 0 THEN n ELSE IF s.name = ".bss" THEN Bss(n, s) ELSE Copied(n, s),
                   i + 1)

coff2noff ==
  /\ phase = "linked"
  /\ phase' = IF Unknown THEN "refused" ELSE "converted"
  /\ noff' = IF Unknown THEN noff ELSE Convert(noff, 1)
  /\ UNCHANGED <<coff, memory>>

----------------------------------------------------------------------------
Code == noff.header[".text"]
InitData == noff.header[".data"]
ReadonlyData == noff.header[".rdata"]
UninitData == noff.header[".bss"]

divRoundUp(n) == (n + PageSize - 1) \div PageSize

\* Mutant: a last page that is full counts as empty.
LastPartPlain(n) == n % PageSize

\* (n - 1) % PageSize + 1, as C has it.
LastPart(n) == IF n = 0 THEN 0 ELSE ((n - 1) % PageSize) + 1

Chunk(page, offset, size, from) ==
  [to |-> Code.virtualAddr + (Frame(page) * PageSize) + offset, size |-> size, from |-> from]

\* Mutant: the segment is not cut at the end of the page.
FirstSizeUncut(seg, used) == seg.size

\* What of a segment fits behind `used' bytes of a page.
FirstSize(seg, used) == Min({PageSize - used, seg.size})

\* The calls of ReadAt for one segment, when `used' bytes of page i - 1 are taken:
\* the rest of that page, then whole pages, then a part.
Chunks(seg, i, used) ==
  LET firstSize == FirstSize(seg, used)
      left == seg.size - firstSize
      pages == divRoundUp(left)
  IN  IF seg.size = 0 THEN <<>>
      ELSE (IF used # PageSize /\ i > 0 THEN <<Chunk(i - 1, used, firstSize, seg.inFileAddr)>>
            ELSE <<>>)
           \o [j \in 1..pages |->
                 Chunk(i + j - 1, 0, IF j < pages THEN PageSize ELSE LastPart(left),
                       seg.inFileAddr + firstSize + ((j - 1) * PageSize))]

PagesOf(seg, used) == divRoundUp(seg.size - FirstSize(seg, used))

\* The read-only data goes behind the initialised data.
ReadChunks ==
  Chunks(ReadonlyData,
         divRoundUp(Code.size) + PagesOf(InitData, LastPart(Code.size)),
         LastPart(Code.size + InitData.size))

CodeChunks ==
  [i \in 1..divRoundUp(Code.size) |->
     Chunk(i - 1, 0, IF i < divRoundUp(Code.size) THEN PageSize ELSE LastPart(Code.size),
           Code.inFileAddr + ((i - 1) * PageSize))]

\* All calls of ReadAt, in order.
AllChunks == CodeChunks \o Chunks(InitData, divRoundUp(Code.size), LastPart(Code.size)) \o ReadChunks

\* The byte at a position of the NOFF file.
FileByte(p) == noff.bytes[p - HeaderSize + 1]

Size == Code.size + ReadonlyData.size + InitData.size + UninitData.size + (StackPages * PageSize)
NumPages == divRoundUp(Size)
Phys(vaddr) == (Frame(vaddr \div PageSize) * PageSize) + (vaddr % PageSize)

Covers(c, a) == a \in c.to..(c.to + c.size - 1)
      /\ c.from + (a - c.to) - HeaderSize < Len(noff.bytes)

\* AddrSpace::Load: every frame is cleared, then the chunks are read.
Load ==
  /\ phase = "converted"
  /\ phase' = "loaded"
  /\ memory' =
       [a \in {Phys(v) : v \in 0..((NumPages * PageSize) - 1)}
              \cup UNION {c.to..(c.to + c.size - 1) : c \in Range(AllChunks)} |->
          LET which == {i \in DOMAIN AllChunks : Covers(AllChunks[i], a)}
          IN  IF which = {} THEN Hole
              ELSE LET c == AllChunks[Max(which)] IN FileByte(c.from + (a - c.to))]
  /\ UNCHANGED <<coff, noff>>

Next == coff2noff \/ Load

Spec == Init /\ [][Next]_vars

----------------------------------------------------------------------------
SectionOf(name) == coff[CHOOSE i \in DOMAIN coff : coff[i].name = name]

\* Where byte v of the address space comes from, by the linker's layout.
Image(v) ==
  LET at == {i \in DOMAIN coff : /\ coff[i].name \notin {".bss", ".sbss"}
                                /\ v \in coff[i].paddr..(coff[i].paddr + coff[i].size - 1)}
  IN  IF at = {} THEN Hole
      ELSE LET s == coff[CHOOSE i \in at : TRUE] IN <<s.name, v - s.paddr>>

LoadedRight == \A v \in 0..((NumPages * PageSize) - 1) : memory[Phys(v)] = Image(v)

\* A program that has read-only data or initialised data, but not both, finds
\* every byte where it was linked, however the segments meet the ends of the
\* pages, and zeroes in the rest of its address space.
ImageLoaded ==
  phase = "loaded" /\ 0 \in {SectionOf(".data").size, SectionOf(".rdata").size} => LoadedRight

\* Load writes to the frames of the new process only, whatever the segments.
InsideFrames ==
  phase = "loaded" => DOMAIN memory = {Phys(v) : v \in 0..((NumPages * PageSize) - 1)}

\* "location of segment in virt addr space" (userprog/noff.h): every segment is
\* loaded at its virtualAddr.
LoadedWhereLinked == phase = "loaded" => LoadedRight
=============================================================================
