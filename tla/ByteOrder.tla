----------------------------- MODULE ByteOrder -----------------------------
(***************************************************************************)
(* Headers on hosts of either byte order: coff2noff (../coff2noff) reads   *)
(* little-endian COFF headers and writes a little-endian NOFF header,      *)
(* AddrSpace::Load reads that on a host that may be another one.  The      *)
(* sections themselves are in module Loader.                               *)
(*                                                                         *)
(* A word is a number, as the host sees it; in a file it is its bytes.     *)
(***************************************************************************)
EXTENDS Integers, SequencesExt

CONSTANTS ByteBase,        \* values of a byte
          NOFFMAGIC, MIPSELMAGIC, OMAGIC,
          Shorts,          \* the magic numbers a COFF file may have
          Sizes,           \* words of the COFF section headers
          CoffWords        \* the words a COFF file may hold: 2, or fewer

VARIABLES tool, host,      \* HOST_IS_BIG_ENDIAN: where coff2noff and Nachos run
          coff,            \* the bytes of the two magic numbers, and of the words
          noff,            \* the bytes of the NOFF header, or <<>> if unlinked
          header,          \* the NoffHeader in Load
          phase

vars == <<tool, host, coff, noff, header, phase>>

\* The bytes of a number with n bytes in memory, and the number they make.
LittleEndian(w, n) == [k \in 1..n |-> (w \div (ByteBase^(k - 1))) % ByteBase]
Store(w, n, big) == IF big THEN Reverse(LittleEndian(w, n)) ELSE LittleEndian(w, n)
Fetch(bytes, big) ==
  LET b == IF big THEN Reverse(bytes) ELSE bytes
  IN  FoldLeftDomain(LAMBDA sum, k : sum + (b[k] * (ByteBase^(k - 1))), 0, b)

\* Mutant: the two bytes in the middle stay.
WordToHostHalf(w, big) ==
  LET b == LittleEndian(w, 4)
  IN  IF big THEN Fetch(<<b[4], b[2], b[3], b[1]>>, FALSE) ELSE w

\* The four shifts and masks; nothing on a little-endian host.
WordToHost(w, big) ==
  LET b == LittleEndian(w, 4)
  IN  IF big THEN Fetch(<<b[4], b[3], b[2], b[1]>>, FALSE) ELSE w

ShortToHost(w, big) ==
  LET b == LittleEndian(w, 2)
  IN  IF big THEN Fetch(<<b[2], b[1]>>, FALSE) ELSE w

\* A COFF file: f_magic and magic, then the words of the section headers.
Coff(f, m, words) ==
  LittleEndian(f, 2) \o LittleEndian(m, 2) \o FlattenSeq([k \in DOMAIN words |-> LittleEndian(words[k], 4)])

Init ==
  /\ tool \in BOOLEAN /\ host \in BOOLEAN
  /\ \E f, m \in Shorts, n \in CoffWords : \E words \in [1..n -> Sizes] : coff = Coff(f, m, words)
  /\ noff = <<>>
  /\ header = <<>>
  /\ phase = "coff"

\* Read of coff2noff.c: a file that is too short ends it; the output is unlinked.
TooShort == Len(coff) < 12
ReadShort(at) == ShortToHost(Fetch(SubSeq(coff, at, at + 1), tool), tool)
ReadWord(at) == WordToHost(Fetch(SubSeq(coff, at, at + 3), tool), tool)

\* The header main fills in: the magic number and what the sections say.
Filled == <<NOFFMAGIC, ReadWord(5), ReadWord(9)>>

\* SwapHeader of coff2noff.c, and the Write of the whole structure.
SwappedBytes(h) == FlattenSeq([k \in DOMAIN h |-> Store(WordToHost(h[k], tool), 4, tool)])

coff2noff ==
  /\ phase = "coff"
  /\ IF TooShort \/ ReadShort(1) # MIPSELMAGIC \/ ReadShort(3) # OMAGIC
     THEN phase' = "refused" /\ UNCHANGED noff
     ELSE phase' = "noff" /\ noff' = SwappedBytes(Filled)
  /\ UNCHANGED <<tool, host, coff, header>>

\* SwapHeader of addrspace.cc.
SwapHeader(h) == [k \in DOMAIN h |-> WordToHost(h[k], host)]

\* Load reads the header; it swaps it if the magic number says so.
Load ==
  /\ phase = "noff"
  /\ LET h == [k \in 1..3 |-> Fetch(SubSeq(noff, (4 * k) - 3, 4 * k), host)]
         swap == h[1] # NOFFMAGIC /\ WordToHost(h[1], host) = NOFFMAGIC
     IN  header' = IF swap THEN SwapHeader(h) ELSE h
  /\ phase' = IF header'[1] = NOFFMAGIC THEN "loaded" ELSE "aborted"
  /\ UNCHANGED <<tool, host, coff, noff>>

Next == coff2noff \/ Load

Spec == Init /\ [][Next]_vars

----------------------------------------------------------------------------
\* "header should work OK whether Nachos is running on a little-endian host or a
\* big-endian host" (coff2noff.c): whatever the two hosts are, Load sees the sizes
\* and addresses of the COFF file, and only a COFF file of the right kind is
\* converted at all.
HeaderPortable ==
  /\ phase # "aborted"
  /\ phase = "loaded" =>
       header = <<NOFFMAGIC, Fetch(SubSeq(coff, 5, 8), FALSE), Fetch(SubSeq(coff, 9, 12), FALSE)>>
  /\ phase \in {"noff", "loaded"} =>
       SubSeq(coff, 1, 4) = LittleEndian(MIPSELMAGIC, 2) \o LittleEndian(OMAGIC, 2)
=============================================================================
