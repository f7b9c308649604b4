-------------------------- MODULE FileSystemProofs --------------------------
(***************************************************************************)
(* Proofs about FileSystem, for a disk of any size, a directory of any     *)
(* length and files of any size: the free map, the headers and the         *)
(* directory agree between operations, and an operation that stops after   *)
(* any of its writes has changed its own file only.                        *)
(***************************************************************************)
EXTENDS FileSystem, FiniteSetTheorems, SequenceTheorems, WellFoundedInduction, TLAPS

\* The disk has room for the system's sectors, and an entry of the directory lies
\* across its two sectors.
Setting ==
  /\ SectorSize \in Nat \ {0}
  /\ NumSectors \in Nat /\ NumSectors > 4
  /\ NumDirEntries \in Nat
  /\ Straddler \in 1..NumDirEntries
  /\ FileSizes \subseteq Nat
  /\ \A text \in Texts : Len(text) \in Nat

-----------------------------------------------------------------------------
(* The invariant of a disk between two operations.                         *)

At(d, i) == FetchDir(d)[i].at
NameOf(d, i) == FetchDir(d)[i].name
Used(d) == {i \in Entry : At(d, i) >= 0}
Header(d, i) == d[At(d, i)]
Own(d, i) == {At(d, i)} \cup Range(Header(d, i).dataSectors)

IsDisk(d) == d = [s \in Sector |-> d[s]]

\* What FileHeader::Allocate makes: as many sectors as the bytes need, each once.
IsHeader(h) ==
  /\ "dataSectors" \in DOMAIN h
  /\ h.numBytes \in Nat
  /\ h.dataSectors \in [1..SectorsFor(h.numBytes) -> Sector]
  /\ \A j, k \in 1..SectorsFor(h.numBytes) : h.dataSectors[j] = h.dataSectors[k] => j = k

\* An entry in use leads to a header; what the files own is apart from each other
\* and from the system's sectors.
FilesApart(d) ==
  /\ \A i \in Used(d) :
       /\ IsHeader(Header(d, i))
       /\ At(d, i) \notin Range(Header(d, i).dataSectors)
       /\ Own(d, i) \cap SystemSectors = {}
  /\ \A i, j \in Used(d) : i # j => Own(d, i) \cap Own(d, j) = {}

\* No two entries in use have one name.  Remove leaves the name in the entry: if a
\* file has that name again, its entry comes before, where Add found room first.
NamesApart(d) ==
  /\ \A i, j \in Used(d) : NameOf(d, i) = NameOf(d, j) => i = j
  /\ \A i \in Entry \ Used(d), j \in Used(d) : NameOf(d, i) = NameOf(d, j) => j < i

MapExact(d) == d[MapData] = SystemSectors \cup UNION {Own(d, i) : i \in Used(d)}

Good(d) ==
  /\ IsDisk(d)
  /\ \A i \in Entry : At(d, i) \in Sector \cup {-1}
  /\ FilesApart(d) /\ NamesApart(d) /\ MapExact(d)

-----------------------------------------------------------------------------
(* Writes under way.                                                       *)

\* A list of writes, each to a sector of its own.
Writes(w) ==
  /\ w \in Seq(Sector \X {w[j][2] : j \in DOMAIN w})
  /\ \A i, j \in 1..Len(w) : w[i][1] = w[j][1] => i = j

\* Disk e is d after the first k writes of w.
IsAfter(d, w, k, e) ==
  /\ IsDisk(e)
  /\ \A j \in 1..k : e[w[j][1]] = w[j][2]
  /\ \A s \in Sector : (\A j \in 1..k : w[j][1] # s) => e[s] = d[s]

\* Every file of d but the one named n is in e what it was.
Keeps(d, e, n) ==
  \A i \in Used(d) : NameOf(d, i) # n =>
    /\ At(e, i) = At(d, i) /\ NameOf(e, i) = NameOf(d, i)
    /\ \A j \in Used(e) : NameOf(e, j) = NameOf(d, i) => i <= j
    /\ \A s \in Own(d, i) : e[s] = d[s]

HeadersAt(e) == \A i \in Used(e) : "dataSectors" \in DOMAIN Header(e, i)

\* The writes w of an operation on the file named n may stop anywhere, and all of
\* them together leave a good disk.
Safe(d, w, n) ==
  /\ Writes(w)
  /\ \A e : IsAfter(d, w, Len(w), e) => Good(e)
  /\ \A k \in 0..Len(w) : \A e : IsAfter(d, w, k, e) => Keeps(d, e, n) /\ HeadersAt(e)

\* A leaf is given half a minute.
USE SMTT(30)

-----------------------------------------------------------------------------
(* Numbers and sets.                                                       *)

\* A set of natural numbers that is not empty has a least element.
LEMMA MinIs ==
  ASSUME NEW T, T \subseteq Nat, T # {}
  PROVE  Min(T) \in T /\ \A y \in T : Min(T) <= y
<1> DEFINE R == {ss \in Nat \X Nat : ss[1] < ss[2]}
<1>1. IsWellFoundedOn(R, Nat)
  BY NatLessThanWellFounded, Zenon DEF OpToRel
<1>2. PICK x \in T : \A y \in T : <<y, x>> \notin R
  BY <1>1, WFMin, Zenon
<1>3. \A y \in T : x <= y
  <2> TAKE y \in T
  <2>1. x \in Nat /\ y \in Nat
    BY Zenon
  <2>2. y < x => <<y, x>> \in R
    BY <2>1, Zenon
  <2> QED
    BY <1>2, <2>1, <2>2
<1> QED
  BY <1>3, Zenon DEF Min

\* The least of a set that has a least element.
LEMMA MinOf ==
  ASSUME NEW T, T \subseteq Int, NEW x \in T, \A y \in T : x <= y
  PROVE  Min(T) = x
<1> DEFINE m == Min(T)
<1>1. m \in T /\ \A y \in T : m <= y
  BY Zenon DEF Min
<1>2. m \in Int /\ x \in Int /\ m <= x /\ x <= m
  BY <1>1, Zenon
<1> HIDE DEF m
<1>3. m = x
  BY <1>2
<1> QED
  BY <1>3 DEF m

\* The number of sectors a file needs, and where its bytes lie.
LEMMA SectorsAre ==
  ASSUME Setting, NEW size \in Nat
  PROVE  /\ SectorsFor(size) \in Nat
         /\ \A k \in 1..size : 1 + ((k - 1) \div SectorSize) \in 1..SectorsFor(size)
<1>1. SectorsFor(size) \in Nat
  BY DEF SectorsFor, Setting
<1>2. ASSUME NEW k \in 1..size
      PROVE  1 + ((k - 1) \div SectorSize) \in 1..SectorsFor(size)
  <2>1. (k - 1) \div SectorSize \in Nat
    BY DEF Setting
  <2>2. 1 + ((k - 1) \div SectorSize) = (k - 1 + SectorSize) \div SectorSize
    BY DEF Setting
  <2>3. (k - 1 + SectorSize) \div SectorSize <= SectorsFor(size)
    BY DEF SectorsFor, Setting
  <2> QED
    BY <1>1, <2>1, <2>2, <2>3
<1> QED
  BY <1>1, <1>2

-----------------------------------------------------------------------------
(* Bitmap::FindAndSet.                                                     *)

\* The disk has finitely many sectors, and their numbers are natural.
LEMMA SectorFinite ==
  ASSUME Setting
  PROVE  IsFiniteSet(Sector) /\ Sector \subseteq Nat
<1>1. IsFiniteSet(0..(NumSectors - 1))
  BY FS_Interval DEF Setting
<1>2. 0..(NumSectors - 1) \subseteq Nat
  BY DEF Setting
<1> QED
  BY <1>1, <1>2, Zenon DEF Sector

\* s is the k first members of C, in order.
Enumerates(s, k, C) ==
  /\ s \in [1..k -> C]
  /\ \A i, j \in 1..k : i < j => s[i] < s[j]
  /\ \A x \in C : x \in Range(s) \/ \A i \in 1..k : s[i] < x

\* A set of numbers with one more member has one more that comes next.
LEMMA EnumerateNext ==
  ASSUME NEW C, C \subseteq Nat, IsFiniteSet(C), NEW k \in Nat, k + 1 <= Cardinality(C),
         NEW s, Enumerates(s, k, C)
  PROVE  \E t : Enumerates(t, k + 1, C)
<1>1. IsFiniteSet(1..k) /\ Cardinality(1..k) = k
  BY FS_Interval
<1>2. s \in Surjection(1..k, Range(s))
  BY Zenon DEF Surjection, Range, Enumerates
<1>3. Cardinality(Range(s)) <= k /\ IsFiniteSet(Range(s))
  BY <1>1, <1>2, FS_Surjection
<1>4. C \ Range(s) # {}
  <2>1. SUFFICES ASSUME C \subseteq Range(s)
                 PROVE  FALSE
    BY Zenon
  <2>2. Cardinality(C) <= Cardinality(Range(s))
    BY <1>3, <2>1, FS_Subset, Zenon
  <2>3. Cardinality(C) \in Nat /\ Cardinality(Range(s)) \in Nat
    BY <1>3, FS_CardinalityType, Zenon
  <2> QED
    BY <1>3, <2>2, <2>3
<1> DEFINE m == Min(C \ Range(s))
           t == [i \in 1..(k + 1) |-> IF i = k + 1 THEN m ELSE s[i]]
<1>5. m \in C \ Range(s) /\ \A y \in C \ Range(s) : m <= y
  <2>1. C \ Range(s) \subseteq Nat
    BY Zenon
  <2> QED
    BY <1>4, <2>1, MinIs, Zenon
<1>6. \A i \in 1..k : s[i] < m /\ s[i] \in C
  BY <1>5, Zenon DEF Enumerates
<1> HIDE DEF m
<1>7. t \in [1..(k + 1) -> C]
  BY <1>5, <1>6
<1>8. \A i, j \in 1..(k + 1) : i < j => t[i] < t[j]
  BY <1>5, <1>6 DEF Enumerates
<1>9. ASSUME NEW x \in C, x \notin Range(t)
      PROVE  \A i \in 1..(k + 1) : t[i] < x
  <2>1. \A i \in 1..(k + 1) : t[i] # x
    BY <1>9, Zenon DEF Range
  <2>2. x # m
    <3>1. t[k + 1] = m /\ k + 1 \in 1..(k + 1)
      OBVIOUS
    <3> QED
      BY <2>1, <3>1, Zenon
  <2>3. x \notin Range(s)
    <3>1. \A i \in 1..k : t[i] = s[i] /\ i \in 1..(k + 1)
      OBVIOUS
    <3>2. DOMAIN s = 1..k
      BY Zenon DEF Enumerates
    <3> QED
      BY <2>1, <3>1, <3>2, Zenon DEF Range
  <2>4. m <= x
    BY <1>5, <2>3, Zenon
  <2>5. m \in Nat /\ x \in Nat
    BY <1>5, Zenon
  <2>6. m < x
    BY <2>2, <2>4, <2>5
  <2>7. \A i \in 1..k : s[i] < x
    BY <2>3, Zenon DEF Enumerates
  <2> QED
    BY <2>6, <2>7
<1>10. Enumerates(t, k + 1, C)
  <2> HIDE DEF t
  <2> QED
    BY <1>7, <1>8, <1>9, Zenon DEF Enumerates
<1> QED
  BY <1>10, Zenon

\* A finite set of sectors gives as many different ones as it has.
LEMMA Enumerable ==
  ASSUME NEW C, C \subseteq Nat, IsFiniteSet(C), NEW k \in Nat, k <= Cardinality(C)
  PROVE  \E s : Enumerates(s, k, C)
<1> DEFINE T == {j \in Nat : j <= Cardinality(C) /\ ~\E s : Enumerates(s, j, C)}
<1>1. Cardinality(C) \in Nat
  BY FS_CardinalityType, Zenon
<1>2. T = {}
  <2>1. SUFFICES ASSUME T # {}
                 PROVE  FALSE
    BY Zenon
  <2>2. Min(T) \in T /\ \A y \in T : Min(T) <= y
    <3>1. T \subseteq Nat
      BY Zenon
    <3> HIDE DEF T
    <3> QED
      BY <2>1, <3>1, MinIs, Zenon
  <2> DEFINE m == Min(T)
  <2>3. m \in Nat /\ m <= Cardinality(C) /\ ~\E s : Enumerates(s, m, C)
    BY <2>2, Zenon
  <2>4. \A j \in Nat : j < m => j \notin T
    <3> SUFFICES ASSUME NEW j \in Nat, j < m, j \in T
                 PROVE  FALSE
      BY Zenon
    <3>1. m <= j
      BY <2>2, Zenon
    <3> HIDE DEF m
    <3> QED
      BY <2>3, <3>1
  <2> HIDE DEF m
  <2>5. m # 0
    <3>1. Enumerates(<<>>, 0, C)
      BY DEF Enumerates
    <3> QED
      BY <2>3, <3>1, Zenon
  <2>6. m - 1 \in Nat /\ m - 1 < m /\ m - 1 <= Cardinality(C) /\ (m - 1) + 1 = m
    BY <1>1, <2>3, <2>5
  <2>7. \E s : Enumerates(s, m - 1, C)
    BY <2>4, <2>6, Zenon
  <2>8. \E t : Enumerates(t, (m - 1) + 1, C)
    BY <2>3, <2>6, <2>7, EnumerateNext, Zenon
  <2> QED
    BY <2>3, <2>6, <2>8, Zenon
<1> QED
  BY <1>2, Zenon

\* What FindAndSet gives, k times: clear sectors, each once.
LEMMA FirstClearIs ==
  ASSUME Setting, NEW map, NEW k \in Nat, k <= Cardinality(Sector \ map)
  PROVE  /\ FirstClear(map, k) \in [1..k -> Sector \ map]
         /\ \A i, j \in 1..k : FirstClear(map, k)[i] = FirstClear(map, k)[j] => i = j
<1>1. IsFiniteSet(Sector \ map) /\ Sector \ map \subseteq Nat
  BY SectorFinite, FS_Difference, Zenon
<1>2. \E s : Enumerates(s, k, Sector \ map)
  BY <1>1, Enumerable, Zenon
<1> DEFINE f == FirstClear(map, k)
<1>3. f \in [1..k -> Sector \ map] /\ \A i, j \in 1..k : i < j => f[i] < f[j]
  BY <1>2, Zenon DEF FirstClear, Enumerates
<1> HIDE DEF f
<1>4. ASSUME NEW i \in 1..k, NEW j \in 1..k, f[i] = f[j]
      PROVE  i = j
  <2>1. f[i] \in Nat
    BY <1>1, <1>3, Zenon
  <2>2. ~(i < j) /\ ~(j < i)
    BY <1>3, <1>4, <2>1
  <2> QED
    BY <2>2
<1> QED
  BY <1>3, <1>4, Zenon DEF f

-----------------------------------------------------------------------------
(* The writes of an operation, one after the other.                        *)

\* Before its first write an operation has changed nothing.
LEMMA AfterNone ==
  ASSUME NEW d, IsDisk(d), NEW w
  PROVE  /\ IsAfter(d, w, 0, d)
         /\ \A e : IsAfter(d, w, 0, e) => e = d
<1>1. 1..0 = {}
  OBVIOUS
<1>2. IsAfter(d, w, 0, d)
  BY <1>1, Zenon DEF IsAfter
<1>3. ASSUME NEW e, IsAfter(d, w, 0, e)
      PROVE  e = d
  <2>1. \A s \in Sector : e[s] = d[s]
    BY <1>1, <1>3, Zenon DEF IsAfter
  <2>2. e = [s \in Sector |-> e[s]] /\ d = [s \in Sector |-> d[s]]
    BY <1>3, Zenon DEF IsAfter, IsDisk
  <2>3. [s \in Sector |-> e[s]] = [s \in Sector |-> d[s]]
    BY <2>1, Zenon
  <2> QED
    BY <2>2, <2>3, Zenon
<1> QED
  BY <1>2, <1>3, Zenon

\* SynchDisk::WriteSector makes the next write.
LEMMA AfterNext ==
  ASSUME NEW d, NEW w, Writes(w), NEW k \in Nat, k + 1 <= Len(w),
         NEW e, IsAfter(d, w, k, e)
  PROVE  IsAfter(d, w, k + 1, [e EXCEPT ![w[k + 1][1]] = w[k + 1][2]])
<1> DEFINE a == w[k + 1][1]
           f == [e EXCEPT ![a] = w[k + 1][2]]
<1>1. Len(w) \in Nat
  BY DEF Writes
<1>2. DOMAIN e = Sector
  BY Zenon DEF IsAfter, IsDisk
<1>3. a \in Sector
  BY <1>1 DEF Writes
<1>4. IsDisk(f)
  BY <1>2, Zenon DEF IsDisk
<1>5. f[a] = w[k + 1][2] /\ \A s \in Sector : s # a => f[s] = e[s]
  BY <1>2, <1>3, Zenon
<1> HIDE DEF f
<1>6. ASSUME NEW j \in 1..(k + 1)
      PROVE  f[w[j][1]] = w[j][2]
  <2>1. CASE j = k + 1
    BY <1>5, <2>1, Zenon
  <2>2. CASE j # k + 1
    <3>1. j \in 1..k /\ j \in 1..Len(w) /\ k + 1 \in 1..Len(w)
      BY <1>1, <2>2
    <3>2. w[j][1] # a
      BY <2>2, <3>1, Zenon DEF Writes
    <3>3. w[j][1] \in Sector
      BY <1>1, <3>1 DEF Writes
    <3> QED
      BY <1>5, <3>1, <3>2, <3>3, Zenon DEF IsAfter
  <2> QED
    BY <2>1, <2>2, Zenon
<1>7. ASSUME NEW s \in Sector, \A j \in 1..(k + 1) : w[j][1] # s
      PROVE  f[s] = d[s]
  <2>1. k + 1 \in 1..(k + 1) /\ \A j \in 1..k : j \in 1..(k + 1)
    OBVIOUS
  <2> QED
    BY <1>5, <1>7, <2>1, Zenon DEF IsAfter
<1>8. IsAfter(d, w, k + 1, f)
  BY <1>4, <1>6, <1>7, Zenon DEF IsAfter
<1> QED
  BY <1>8, Zenon DEF f

\* All of them together.
LEMMA AfterAll ==
  ASSUME NEW d, NEW w, Writes(w)
  PROVE  IsAfter(d, w, Len(w), Written(d, w))
<1> DEFINE e == Written(d, w)
<1>1. DOMAIN w = 1..Len(w) /\ \A j \in 1..Len(w) : w[j][1] \in Sector
  BY DEF Writes
<1>2. IsDisk(e)
  BY Zenon DEF IsDisk, Written
<1>3. ASSUME NEW j \in 1..Len(w)
      PROVE  e[w[j][1]] = w[j][2]
  <2> DEFINE c == CHOOSE i \in DOMAIN w : w[i][1] = w[j][1]
  <2>1. c \in DOMAIN w /\ w[c][1] = w[j][1]
    BY <1>1, Zenon
  <2>2. c = j
    BY <1>1, <2>1, Zenon DEF Writes
  <2>3. e[w[j][1]] = w[c][2]
    BY <1>1, Zenon DEF Written
  <2> QED
    BY <2>2, <2>3, Zenon
<1>4. ASSUME NEW s \in Sector, \A j \in 1..Len(w) : w[j][1] # s
      PROVE  e[s] = d[s]
  BY <1>1, <1>4, Zenon DEF Written
<1> HIDE DEF e
<1>5. IsAfter(d, w, Len(w), e)
  BY <1>2, <1>3, <1>4, Zenon DEF IsAfter
<1> QED
  BY <1>5, Zenon DEF e

\* The writes that are left.
LEMMA Suffix ==
  ASSUME NEW V, NEW w \in Seq(V), NEW k \in 0..Len(w), NEW q, q = SubSeq(w, k + 1, Len(w))
  PROVE  /\ q = <<>> => k = Len(w)
         /\ q # <<>> => /\ k + 1 <= Len(w)
                        /\ Head(q) = w[k + 1]
                        /\ Tail(q) = SubSeq(w, (k + 1) + 1, Len(w))
<1>1. /\ q \in Seq(V) /\ Len(q) = Len(w) - k
      /\ \A j \in 1..Len(q) : q[j] = w[k + j]
  OBVIOUS
<1>2. q = <<>> => k = Len(w)
  <2>0. Len(<<>>) = 0
    OBVIOUS
  <2>1. q = <<>> => Len(q) = 0
    BY <2>0, Zenon
  <2>2. Len(w) \in Nat /\ Len(q) = Len(w) - k
    BY <1>1
  <2> QED
    BY <2>1, <2>2
<1>3. ASSUME q # <<>>
      PROVE  k + 1 <= Len(w) /\ Head(q) = w[k + 1]
  BY <1>1, <1>3
<1>4. ASSUME q # <<>>
      PROVE  Tail(q) = SubSeq(w, (k + 1) + 1, Len(w))
  <2> DEFINE r == SubSeq(w, (k + 1) + 1, Len(w))
  <2>1. /\ Tail(q) \in Seq(V) /\ Len(Tail(q)) = Len(q) - 1
        /\ \A j \in 1..Len(Tail(q)) : Tail(q)[j] = q[j + 1]
    BY <1>1, <1>4
  <2>2. /\ r \in Seq(V) /\ Len(r) = Len(w) - (k + 1)
        /\ \A j \in 1..Len(r) : r[j] = w[(k + 1) + j]
    BY <1>3, <1>4
  <2> HIDE DEF r
  <2>3. Len(Tail(q)) = Len(r) /\ \A j \in 1..Len(r) : Tail(q)[j] = r[j]
    BY <1>1, <2>1, <2>2
  <2>4. Tail(q) = r
    BY <2>1, <2>2, <2>3, SeqEqual, Zenon
  <2> QED
    BY <2>4, Zenon DEF r
<1> QED
  BY <1>2, <1>3, <1>4, Zenon

\* Nothing is done yet.
LEMMA WholeSuffix ==
  ASSUME NEW V, NEW w \in Seq(V)
  PROVE  SubSeq(w, 1, Len(w)) = w
OBVIOUS

-----------------------------------------------------------------------------
(* The directory and the files.                                            *)

\* Where an entry lies in the two sectors of the directory.
LEMMA DirIs ==
  ASSUME NEW d, NEW i \in Entry
  PROVE  /\ At(d, i) = IF i <= Straddler THEN d[3].ats[i] ELSE d[4].ats[i]
         /\ NameOf(d, i) = IF i < Straddler THEN d[3].names[i] ELSE d[4].names[i]
BY DEF At, NameOf, FetchDir, DirData

\* A directory dir written back over the one of d, as far as the writes went: each
\* entry's sector number, and its name, is the old one or the new one.
LEMMA DirMixed ==
  ASSUME Setting, NEW d, NEW e, NEW dir,
         e[3] = DirWrites(dir)[1][2] \/ e[3] = d[3],
         e[4] = DirWrites(dir)[2][2] \/ e[4] = d[4],
         NEW i \in Entry
  PROVE  /\ At(e, i) = dir[i].at \/ At(e, i) = At(d, i)
         /\ NameOf(e, i) = dir[i].name \/ NameOf(e, i) = NameOf(d, i)
         /\ e[3] = DirWrites(dir)[1][2] /\ e[4] = DirWrites(dir)[2][2]
              => At(e, i) = dir[i].at /\ NameOf(e, i) = dir[i].name
<1> DEFINE A == DirSector(dir, 1..Straddler, 1..(Straddler - 1))
           B == DirSector(dir, (Straddler + 1)..NumDirEntries, Straddler..NumDirEntries)
<1>1. DirWrites(dir)[1][2] = A /\ DirWrites(dir)[2][2] = B
  BY DEF DirWrites
<1>2. Straddler \in Nat /\ NumDirEntries \in Nat /\ i \in Nat /\ 1 <= i /\ i <= NumDirEntries
  BY DEF Setting, Entry
<1>3. /\ i <= Straddler => A.ats[i] = dir[i].at
      /\ i < Straddler => A.names[i] = dir[i].name
      /\ ~(i <= Straddler) => B.ats[i] = dir[i].at
      /\ ~(i < Straddler) => B.names[i] = dir[i].name
  BY <1>2 DEF DirSector
<1> HIDE DEF A, B
<1>4. /\ At(d, i) = IF i <= Straddler THEN d[3].ats[i] ELSE d[4].ats[i]
      /\ NameOf(d, i) = IF i < Straddler THEN d[3].names[i] ELSE d[4].names[i]
      /\ At(e, i) = IF i <= Straddler THEN e[3].ats[i] ELSE e[4].ats[i]
      /\ NameOf(e, i) = IF i < Straddler THEN e[3].names[i] ELSE e[4].names[i]
  BY DirIs, Zenon
<1>5. (e[3] = A \/ e[3] = d[3]) /\ (e[4] = B \/ e[4] = d[4])
  BY <1>1, Zenon
<1>6. /\ At(e, i) = dir[i].at \/ At(e, i) = At(d, i)
      /\ e[3] = A /\ e[4] = B => At(e, i) = dir[i].at
  <2>1. CASE i <= Straddler
    BY <1>3, <1>4, <1>5, <2>1, Zenon
  <2>2. CASE ~(i <= Straddler)
    BY <1>3, <1>4, <1>5, <2>2, Zenon
  <2> QED
    BY <2>1, <2>2, Zenon
<1>7. /\ NameOf(e, i) = dir[i].name \/ NameOf(e, i) = NameOf(d, i)
      /\ e[3] = A /\ e[4] = B => NameOf(e, i) = dir[i].name
  <2>1. CASE i < Straddler
    BY <1>3, <1>4, <1>5, <2>1, Zenon
  <2>2. CASE ~(i < Straddler)
    BY <1>3, <1>4, <1>5, <2>2, Zenon
  <2> QED
    BY <2>1, <2>2, Zenon
<1> QED
  BY <1>1, <1>6, <1>7, Zenon

\* A disk with the same two sectors has the same directory.
LEMMA SameDir ==
  ASSUME NEW d, NEW e, e[3] = d[3], e[4] = d[4]
  PROVE  /\ \A i \in Entry : At(e, i) = At(d, i) /\ NameOf(e, i) = NameOf(d, i)
         /\ Used(e) = Used(d)
<1>1. ASSUME NEW i \in Entry
      PROVE  At(e, i) = At(d, i) /\ NameOf(e, i) = NameOf(d, i)
  BY DEF At, NameOf, FetchDir, DirData
<1> QED
  BY <1>1, Zenon DEF Used

\* The names of the files.
LEMMA FileNames ==
  ASSUME NEW d
  PROVE  DOMAIN Files(d) = {NameOf(d, i) : i \in Used(d)}
BY Zenon DEF Files, NameOf, Used, At

\* The file of a name is that of the first entry with this name.
LEMMA FileIs ==
  ASSUME Setting, NEW d, NEW i \in Used(d),
         \A j \in Used(d) : NameOf(d, j) = NameOf(d, i) => i <= j
  PROVE  /\ NameOf(d, i) \in DOMAIN Files(d)
         /\ Files(d)[NameOf(d, i)] =
              [at |-> At(d, i), hdr |-> Header(d, i), bytes |-> Content(d, Header(d, i))]
<1> DEFINE T == {j \in Used(d) : NameOf(d, j) = NameOf(d, i)}
           F(m) == [at |-> At(d, m), hdr |-> d[At(d, m)], bytes |-> Content(d, d[At(d, m)])]
<1>1. T \subseteq Int /\ i \in T
  BY DEF Used, Entry
<1>2. Min(T) = i
  <2>1. \A y \in T : i <= y
    BY Zenon
  <2> HIDE DEF T
  <2> QED
    BY <1>1, <2>1, MinOf, Zenon
<1>3. NameOf(d, i) \in DOMAIN Files(d)
  BY FileNames, Zenon
<1>4. Files(d)[NameOf(d, i)] = F(Min(T))
  BY Zenon DEF Files, NameOf, Used, At
<1> QED
  BY <1>2, <1>3, <1>4, Zenon DEF Header

\* The bytes of a file are those of its sectors.
LEMMA ContentSame ==
  ASSUME Setting, NEW d, NEW e, NEW h, IsHeader(h),
         \A s \in Range(h.dataSectors) : e[s] = d[s]
  PROVE  Content(e, h) = Content(d, h)
<1>1. ASSUME NEW k \in 1..h.numBytes
      PROVE  e[ByteToSector(h, k - 1)] = d[ByteToSector(h, k - 1)]
  <2>1. 1 + ((k - 1) \div SectorSize) \in 1..SectorsFor(h.numBytes)
    BY SectorsAre, Zenon DEF IsHeader
  <2>2. ByteToSector(h, k - 1) \in Range(h.dataSectors)
    BY <2>1, Zenon DEF ByteToSector, Range, IsHeader
  <2> QED
    BY <2>2, Zenon
<1> QED
  BY <1>1, Zenon DEF Content

\* On a good disk every entry in use is the file of its name.
LEMMA GoodFile ==
  ASSUME Setting, NEW d, Good(d), NEW i \in Used(d)
  PROVE  /\ NameOf(d, i) \in DOMAIN Files(d)
         /\ Files(d)[NameOf(d, i)] =
              [at |-> At(d, i), hdr |-> Header(d, i), bytes |-> Content(d, Header(d, i))]
<1>1. i <= i
  BY DEF Used, Entry
<1>2. \A j \in Used(d) : NameOf(d, j) = NameOf(d, i) => i <= j
  BY <1>1, Zenon DEF Good, NamesApart
<1> QED
  BY <1>2, FileIs, Zenon

\* What Keeps says of the files.
LEMMA KeepsFiles ==
  ASSUME Setting, NEW d, Good(d), NEW e, NEW n, Keeps(d, e, n),
         NEW m \in DOMAIN Files(d), m # n
  PROVE  m \in DOMAIN Files(e) /\ Files(e)[m] = Files(d)[m]
<1>1. PICK i \in Used(d) : NameOf(d, i) = m
  BY FileNames, Zenon
<1>2. /\ At(e, i) = At(d, i) /\ NameOf(e, i) = m
      /\ \A j \in Used(e) : NameOf(e, j) = NameOf(e, i) => i <= j
      /\ \A s \in Own(d, i) : e[s] = d[s]
  BY <1>1, Zenon DEF Keeps
<1>3. i \in Used(e)
  BY <1>2, Zenon DEF Used
<1>4. Header(e, i) = Header(d, i)
  BY <1>2, Zenon DEF Header, Own
<1>5. Content(e, Header(d, i)) = Content(d, Header(d, i))
  <2>1. IsHeader(Header(d, i))
    BY Zenon DEF Good, FilesApart
  <2>2. \A s \in Range(Header(d, i).dataSectors) : e[s] = d[s]
    BY <1>2, Zenon DEF Own
  <2> QED
    BY <2>1, <2>2, ContentSame, Zenon
<1>6. /\ m \in DOMAIN Files(e)
      /\ Files(e)[m] = [at |-> At(e, i), hdr |-> Header(e, i), bytes |-> Content(e, Header(e, i))]
  BY <1>2, <1>3, FileIs, Zenon
<1>7. Files(d)[m] = [at |-> At(d, i), hdr |-> Header(d, i), bytes |-> Content(d, Header(d, i))]
  BY <1>1, GoodFile, Zenon
<1> QED
  BY <1>2, <1>4, <1>5, <1>6, <1>7, Zenon

\* A good disk is what Consistent asks for.
LEMMA GoodConsistent ==
  ASSUME Setting, Good(disk)
  PROVE  Consistent
<1> DEFINE files == Files(disk)
<1>1. ASSUME NEW i \in Used(disk)
      PROVE  NameOf(disk, i) \in DOMAIN files /\ Owned(files[NameOf(disk, i)]) = Own(disk, i)
  <2>1. /\ NameOf(disk, i) \in DOMAIN files
        /\ files[NameOf(disk, i)] =
             [at |-> At(disk, i), hdr |-> Header(disk, i), bytes |-> Content(disk, Header(disk, i))]
    BY GoodFile, Zenon
  <2> HIDE DEF files
  <2>2. /\ files[NameOf(disk, i)].at = At(disk, i)
        /\ files[NameOf(disk, i)].hdr = Header(disk, i)
    BY <2>1
  <2> QED
    BY <2>1, <2>2, Zenon DEF Owned, Own
<1>2. \A n \in DOMAIN files : \E i \in Used(disk) : NameOf(disk, i) = n
  BY FileNames, Zenon
<1> HIDE DEF files
<1>3. UNION {Owned(files[n]) : n \in DOMAIN files} = UNION {Own(disk, i) : i \in Used(disk)}
  <2>1. ASSUME NEW s
        PROVE  (\E n \in DOMAIN files : s \in Owned(files[n]))
                 <=> (\E i \in Used(disk) : s \in Own(disk, i))
    BY <1>1, <1>2, Zenon
  <2> QED
    BY <2>1, Zenon
<1>4. disk[MapData] = SystemSectors \cup UNION {Owned(files[n]) : n \in DOMAIN files}
  BY <1>3, Zenon DEF Good, MapExact
<1>5. ASSUME NEW m \in DOMAIN files, NEW n \in DOMAIN files
      PROVE  /\ Owned(files[n]) \cap SystemSectors = {}
             /\ m # n => Owned(files[m]) \cap Owned(files[n]) = {}
  <2>1. PICK i \in Used(disk) : NameOf(disk, i) = m
    BY <1>2, Zenon
  <2>2. PICK j \in Used(disk) : NameOf(disk, j) = n
    BY <1>2, Zenon
  <2>3. Owned(files[m]) = Own(disk, i) /\ Owned(files[n]) = Own(disk, j)
    BY <1>1, <2>1, <2>2, Zenon
  <2>4. m # n => i # j
    BY <2>1, <2>2, Zenon
  <2> QED
    BY <2>3, <2>4, Zenon DEF Good, FilesApart
<1>6. ASSUME NEW i \in Entry, NEW j \in Entry, FetchDir(disk)[i].at >= 0,
             FetchDir(disk)[j].at >= 0, FetchDir(disk)[i].name = FetchDir(disk)[j].name
      PROVE  i = j
  BY <1>6, Zenon DEF Good, NamesApart, NameOf, Used, At
<1> QED
  BY <1>4, <1>5, <1>6, Zenon DEF Consistent, files

\* On a good disk the headers are there.
LEMMA GoodHeaders ==
  ASSUME NEW d, Good(d)
  PROVE  HeadersAt(d)
BY Zenon DEF Good, FilesApart, HeadersAt, IsHeader

\* An operation that writes nothing, since it failed or had nothing to write.
LEMMA NoWrites ==
  ASSUME NEW d, Good(d), NEW n
  PROVE  Safe(d, <<>>, n)
<1>1. Len(<<>>) = 0 /\ Writes(<<>>) /\ 0..0 = {0}
  BY DEF Writes
<1>2. \A e : IsAfter(d, <<>>, 0, e) => e = d
  BY AfterNone, Zenon DEF Good
<1>3. Keeps(d, d, n)
  <2>1. \A i \in Used(d) : i <= i
    BY DEF Used, Entry
  <2> QED
    BY <2>1, Zenon DEF Keeps, Good, NamesApart
<1> QED
  BY <1>1, <1>2, <1>3, GoodHeaders, Zenon DEF Safe

-----------------------------------------------------------------------------
(* FileSystem::Create.                                                     *)

\* What Create has chosen: a clear sector h for the header, clear sectors for the
\* data, the first free entry; and what it writes back.
IsCreate(d, n, size, h, data, new, dir, w) ==
  /\ h \in Sector \ d[MapData]
  /\ data \in [1..SectorsFor(size) -> Sector \ (d[MapData] \cup {h})]
  /\ \A j, k \in 1..SectorsFor(size) : data[j] = data[k] => j = k
  /\ new \in Entry \ Used(d) /\ \A i \in Entry \ Used(d) : new <= i
  /\ \A i \in Used(d) : NameOf(d, i) # n
  /\ \A i \in Entry : /\ dir[i].at = IF i = new THEN h ELSE At(d, i)
                      /\ dir[i].name = IF i = new THEN n ELSE NameOf(d, i)
  /\ w = << <<h, [numBytes |-> size, dataSectors |-> data]>>,
            <<3, DirWrites(dir)[1][2]>>, <<4, DirWrites(dir)[2][2]>>,
            <<MapData, d[MapData] \cup {h} \cup Range(data)>> >>

\* The entries that are not in use.
LEMMA FreeIs ==
  ASSUME Setting, NEW d, Good(d)
  PROVE  FreeEntries(FetchDir(d)) = Entry \ Used(d)
<1>1. \A i \in Entry : At(d, i) \in Int
  BY SectorFinite DEF Good
<1>2. \A i \in Entry : At(d, i) < 0 <=> ~(At(d, i) >= 0)
  BY <1>1
<1> QED
  BY <1>2, Zenon DEF FreeEntries, Used, At

\* Lists of writes put together.
LEMMA JoinThree ==
  ASSUME NEW a, NEW b, NEW c
  PROVE  <<a>> \o <<b, c>> = <<a, b, c>>
<1> DEFINE V == {a, b, c}
           s == <<a>>
           t == <<b, c>>
           u == <<a, b, c>>
<1>1. /\ s \in Seq(V) /\ Len(s) = 1 /\ s[1] = a
      /\ t \in Seq(V) /\ Len(t) = 2 /\ t[1] = b /\ t[2] = c
      /\ u \in Seq(V) /\ Len(u) = 3 /\ u[1] = a /\ u[2] = b /\ u[3] = c
  OBVIOUS
<1> HIDE DEF V, s, t, u
<1> DEFINE r == s \o t
<1>2. /\ r \in Seq(V) /\ Len(r) = Len(s) + Len(t)
      /\ \A i \in 1..(Len(s) + Len(t)) : r[i] = IF i <= Len(s) THEN s[i] ELSE t[i - Len(s)]
  BY <1>1, ConcatProperties, Zenon
<1> HIDE DEF r
<1>3. Len(r) = Len(u) /\ \A i \in 1..Len(r) : r[i] = u[i]
  BY <1>1, <1>2
<1>4. s \o t = u
  BY <1>1, <1>2, <1>3, SeqEqual, Zenon DEF r
<1> QED
  BY <1>4, Zenon DEF s, t, u

\* The same for four.
LEMMA JoinFour ==
  ASSUME NEW a, NEW b, NEW c, NEW x
  PROVE  <<a>> \o <<b, c>> \o <<x>> = <<a, b, c, x>>
<1> DEFINE V == {a, b, c, x}
           s == <<a, b, c>>
           t == <<x>>
           u == <<a, b, c, x>>
<1>1. /\ s \in Seq(V) /\ Len(s) = 3 /\ s[1] = a /\ s[2] = b /\ s[3] = c
      /\ t \in Seq(V) /\ Len(t) = 1 /\ t[1] = x
      /\ u \in Seq(V) /\ Len(u) = 4 /\ u[1] = a /\ u[2] = b /\ u[3] = c /\ u[4] = x
  OBVIOUS
<1> HIDE DEF V, s, t, u
<1> DEFINE r == s \o t
<1>2. /\ r \in Seq(V) /\ Len(r) = Len(s) + Len(t)
      /\ \A i \in 1..(Len(s) + Len(t)) : r[i] = IF i <= Len(s) THEN s[i] ELSE t[i - Len(s)]
  BY <1>1, ConcatProperties, Zenon
<1> HIDE DEF r
<1>3. Len(r) = Len(u) /\ \A i \in 1..Len(r) : r[i] = u[i]
  BY <1>1, <1>2
<1>4. s \o t = u
  BY <1>1, <1>2, <1>3, SeqEqual, Zenon DEF r
<1> QED
  BY <1>4, JoinThree, Zenon DEF s, t, u

\* Create writes nothing or is such a choice.
LEMMA CreateIs ==
  ASSUME Setting, NEW d, Good(d), NEW n, NEW size \in Nat, CreateWrites(d, n, size) # <<>>
  PROVE  \E h, data, new, dir : IsCreate(d, n, size, h, data, new, dir, CreateWrites(d, n, size))
<1> DEFINE map  == d[MapData]
           h    == Min(Sector \ map)
           data == FirstClear(map \cup {h}, SectorsFor(size))
           new  == Min(Entry \ Used(d))
           dir  == Add(FetchDir(d), n, h)
           need == SectorsFor(size)
<1>1. /\ FindIndex(FetchDir(d), n) = {}
      /\ ~(Cardinality(Sector \ map) < 1 + need)
      /\ FreeEntries(FetchDir(d)) # {}
  BY Zenon DEF CreateWrites, FetchMap
<1>2. CreateWrites(d, n, size)
        = WriteBacks(<< <<h, [numBytes |-> size, dataSectors |-> data]>> >>,
                     DirWrites(dir), << <<MapData, map \cup {h} \cup Range(data)>> >>)
  BY <1>1, Zenon DEF CreateWrites, FetchMap, MapWrite
<1>3. IsFiniteSet(Sector \ map) /\ Sector \ map \subseteq Nat
  BY SectorFinite, FS_Difference, Zenon
<1>4. Cardinality(Sector \ map) \in Nat /\ need \in Nat
  BY <1>3, FS_CardinalityType, SectorsAre, Zenon
<1>5. Sector \ map # {}
  <2>1. Cardinality({}) = 0
    BY FS_EmptySet, Zenon
  <2>2. Cardinality(Sector \ map) # 0
    BY <1>1, <1>4
  <2> QED
    BY <2>1, <2>2, Zenon
<1>6. h \in Sector \ map
  <2> HIDE DEF map
  <2> QED
    BY <1>3, <1>5, MinIs, Zenon
<1> HIDE DEF h
<1>7. /\ data \in [1..need -> Sector \ (map \cup {h})]
      /\ \A j, k \in 1..need : data[j] = data[k] => j = k
  <2>1. (Sector \ map) \ {h} = Sector \ (map \cup {h})
    BY Zenon
  <2>2. Cardinality((Sector \ map) \ {h}) = Cardinality(Sector \ map) - 1
    BY <1>3, <1>6, FS_RemoveElement, Zenon
  <2>3. need <= Cardinality(Sector \ (map \cup {h}))
    <3> DEFINE all == Cardinality(Sector \ map)
               rest == Cardinality(Sector \ (map \cup {h}))
    <3>1. rest = all - 1 /\ all \in Nat /\ need \in Nat /\ ~(all < 1 + need)
      BY <1>1, <1>4, <2>1, <2>2, Zenon
    <3> HIDE DEF all, rest, need
    <3>2. need <= rest
      BY <3>1
    <3> QED
      BY <3>2, Zenon DEF rest
  <2> QED
    BY <1>4, <2>3, FirstClearIs, Zenon
<1>8. FreeEntries(FetchDir(d)) = Entry \ Used(d) /\ Entry \subseteq Nat
  BY FreeIs DEF Entry
<1>9. new \in Entry \ Used(d) /\ \A i \in Entry \ Used(d) : new <= i
  <2>1. Entry \ Used(d) \subseteq Nat /\ Entry \ Used(d) # {}
    BY <1>1, <1>8, Zenon
  <2> QED
    BY <2>1, MinIs, Zenon
<1>10. \A i \in Used(d) : NameOf(d, i) # n
  BY <1>1, Zenon DEF FindIndex, Used, NameOf, At
<1>11. ASSUME NEW i \in Entry
       PROVE  /\ dir[i].at = IF i = new THEN h ELSE At(d, i)
              /\ dir[i].name = IF i = new THEN n ELSE NameOf(d, i)
  <2>1. dir[i] = IF i = new THEN [at |-> h, name |-> n] ELSE FetchDir(d)[i]
    BY <1>8, Zenon DEF Add
  <2> HIDE DEF dir, new
  <2> QED
    BY <2>1 DEF At, NameOf
<1> HIDE DEF data, dir, new, need
<1>12. CreateWrites(d, n, size)
         = << <<h, [numBytes |-> size, dataSectors |-> data]>>,
              <<3, DirWrites(dir)[1][2]>>, <<4, DirWrites(dir)[2][2]>>,
              <<MapData, map \cup {h} \cup Range(data)>> >>
  <2> DEFINE a == <<h, [numBytes |-> size, dataSectors |-> data]>>
             b == DirSector(dir, 1..Straddler, 1..(Straddler - 1))
             c == DirSector(dir, (Straddler + 1)..NumDirEntries, Straddler..NumDirEntries)
             m == <<MapData, map \cup {h} \cup Range(data)>>
  <2>1. DirWrites(dir) = << <<3, b>>, <<4, c>> >>
    BY DEF DirWrites, DirData
  <2> HIDE DEF a, b, c, m
  <2>2. DirWrites(dir)[1][2] = b /\ DirWrites(dir)[2][2] = c
    BY <2>1
  <2>3. <<a>> \o << <<3, b>>, <<4, c>> >> \o <<m>> = <<a, <<3, b>>, <<4, c>>, m>>
    BY JoinFour, Zenon
  <2>4. CreateWrites(d, n, size) = <<a>> \o << <<3, b>>, <<4, c>> >> \o <<m>>
    BY <1>2, <2>1, Zenon DEF WriteBacks, a, m
  <2> QED
    BY <2>2, <2>3, <2>4, Zenon DEF a, m
<1>13. IsCreate(d, n, size, h, data, new, dir, CreateWrites(d, n, size))
  BY <1>6, <1>7, <1>9, <1>10, <1>11, <1>12, Zenon DEF IsCreate, need
<1> QED
  BY <1>13, Zenon

\* The sectors of the system are marked in the map of a good disk, and so is all
\* that the files own.
LEMMA Marked ==
  ASSUME Setting, NEW d, Good(d)
  PROVE  /\ SystemSectors \subseteq Sector /\ SystemSectors \subseteq d[MapData]
         /\ {2, 3, 4} \subseteq SystemSectors /\ MapData = 2
         /\ \A i \in Used(d) : Own(d, i) \subseteq d[MapData] \ SystemSectors
<1>1. /\ SystemSectors \subseteq Sector
      /\ {2, 3, 4} \subseteq SystemSectors
  BY DEF SystemSectors, Sector, Setting
<1>2. /\ SystemSectors \subseteq d[MapData]
      /\ \A i \in Used(d) : Own(d, i) \subseteq d[MapData] \ SystemSectors
  BY Zenon DEF Good, FilesApart, MapExact
<1> QED
  BY <1>1, <1>2, Zenon DEF MapData

\* What an entry in use owns are sectors.
LEMMA OwnSectors ==
  ASSUME NEW d, Good(d), NEW i \in Used(d)
  PROVE  At(d, i) \in Sector /\ Own(d, i) \subseteq Sector
<1>1. At(d, i) \in Sector
  <2>1. i \in Entry /\ At(d, i) >= 0
    BY Zenon DEF Used
  <2>2. At(d, i) # -1
    BY <2>1
  <2> QED
    BY <2>1, <2>2, Zenon DEF Good
<1>2. IsHeader(Header(d, i))
  BY Zenon DEF Good, FilesApart
<1>3. Range(Header(d, i).dataSectors) \subseteq Sector
  BY <1>2, Zenon DEF IsHeader, Range
<1> QED
  BY <1>1, <1>3, Zenon DEF Own

\* The disk e after the first k of Create's writes.
Creating(d, n, size, h, data, new, k, e) ==
  /\ IsDisk(e)
  /\ \A s \in Sector : s \notin {h, 2, 3, 4} => e[s] = d[s]
  /\ \A i \in Entry \ {new} : At(e, i) = At(d, i) /\ NameOf(e, i) = NameOf(d, i)
  /\ \/ At(e, new) = At(d, new)
     \/ At(e, new) = h /\ e[h] = [numBytes |-> size, dataSectors |-> data]
  /\ NameOf(e, new) = NameOf(d, new) \/ NameOf(e, new) = n
  /\ k = 4 => /\ At(e, new) = h /\ NameOf(e, new) = n
              /\ e[h] = [numBytes |-> size, dataSectors |-> data]
              /\ e[MapData] = d[MapData] \cup {h} \cup Range(data)

\* Every sector and every entry is the old one or the one that was written.
LEMMA CreateDisk ==
  ASSUME Setting, NEW d, Good(d), NEW n, NEW size \in Nat,
         NEW h, NEW data, NEW new, NEW dir, NEW w, IsCreate(d, n, size, h, data, new, dir, w),
         NEW k \in 0..4, NEW e, IsAfter(d, w, k, e)
  PROVE  Creating(d, n, size, h, data, new, k, e)
<1> DEFINE H == [numBytes |-> size, dataSectors |-> data]
           A == DirWrites(dir)[1][2]
           B == DirWrites(dir)[2][2]
           M == d[MapData] \cup {h} \cup Range(data)
<1>1. w = << <<h, H>>, <<3, A>>, <<4, B>>, <<2, M>> >>
  BY Zenon DEF IsCreate, MapData
<1> HIDE DEF H, A, B, M
<1>2. /\ w[1][1] = h /\ w[2][1] = 3 /\ w[3][1] = 4 /\ w[4][1] = 2
      /\ w[1][2] = H /\ w[2][2] = A /\ w[3][2] = B /\ w[4][2] = M
  BY <1>1
<1>3. h # 2 /\ h # 3 /\ h # 4 /\ {2, 3, 4} \subseteq Sector /\ h \in Sector
  BY Marked, Zenon DEF IsCreate
<1>4. /\ 1 \in 1..k => e[h] = H
      /\ 2 \in 1..k => e[3] = A
      /\ 3 \in 1..k => e[4] = B
      /\ 4 \in 1..k => e[2] = M
  <2>2. \A j \in 1..k : e[w[j][1]] = w[j][2]
    BY Zenon DEF IsAfter
  <2>3. 1 \in 1..k => e[h] = H
    BY <1>2, <2>2, Zenon
  <2>4. 2 \in 1..k => e[3] = A
    BY <1>2, <2>2, Zenon
  <2>5. 3 \in 1..k => e[4] = B
    BY <1>2, <2>2, Zenon
  <2>6. 4 \in 1..k => e[2] = M
    <3>1. 4 \in 1..k => e[w[4][1]] = w[4][2]
      BY <2>2, Zenon
    <3> QED
      BY <1>2, <3>1, Zenon
  <2> QED
    BY <2>3, <2>4, <2>5, <2>6, Zenon
<1>5. /\ 2 \notin 1..k => e[3] = d[3]
      /\ 3 \notin 1..k => e[4] = d[4]
      /\ \A s \in Sector : s \notin {h, 2, 3, 4} => e[s] = d[s]
  <2>1. /\ 2 \notin 1..k => \A j \in 1..k : j = 1
        /\ 3 \notin 1..k => \A j \in 1..k : j = 1 \/ j = 2
        /\ \A j \in 1..k : j = 1 \/ j = 2 \/ j = 3 \/ j = 4
    OBVIOUS
  <2>2. \A s \in Sector : (\A j \in 1..k : w[j][1] # s) => e[s] = d[s]
    BY Zenon DEF IsAfter
  <2>3. 2 \notin 1..k => \A j \in 1..k : w[j][1] # 3
    BY <1>2, <1>3, <2>1, Zenon
  <2>4. 3 \notin 1..k => \A j \in 1..k : w[j][1] # 4
    <3>1. w[2][1] # 4
      BY <1>2
    <3> QED
      BY <1>2, <1>3, <2>1, <3>1, Zenon
  <2>5. \A s \in Sector : s \notin {h, 2, 3, 4} => \A j \in 1..k : w[j][1] # s
    BY <1>2, <2>1, Zenon
  <2> QED
    BY <1>3, <2>2, <2>3, <2>4, <2>5, Zenon
<1>6. /\ e[3] = A \/ e[3] = d[3]
      /\ e[4] = B \/ e[4] = d[4]
  BY <1>4, <1>5, Zenon
<1>7. 1 \notin 1..k => 2 \notin 1..k /\ 3 \notin 1..k
  OBVIOUS
<1>8. 1 \in 1..k \/ (e[3] = d[3] /\ e[4] = d[4])
  BY <1>5, <1>7, Zenon
<1>9. k = 4 => 1 \in 1..k /\ 2 \in 1..k /\ 3 \in 1..k /\ 4 \in 1..k
  OBVIOUS
<1>10. ASSUME NEW i \in Entry
       PROVE  /\ At(e, i) = dir[i].at \/ At(e, i) = At(d, i)
              /\ NameOf(e, i) = dir[i].name \/ NameOf(e, i) = NameOf(d, i)
              /\ e[3] = d[3] /\ e[4] = d[4] => At(e, i) = At(d, i)
              /\ e[3] = A /\ e[4] = B => At(e, i) = dir[i].at /\ NameOf(e, i) = dir[i].name
  <2>1. e[3] = d[3] /\ e[4] = d[4] => At(e, i) = At(d, i)
    BY SameDir, Zenon
  <2>2. /\ e[3] = DirWrites(dir)[1][2] \/ e[3] = d[3]
        /\ e[4] = DirWrites(dir)[2][2] \/ e[4] = d[4]
    BY <1>6, Zenon DEF A, B
  <2>3. /\ At(e, i) = dir[i].at \/ At(e, i) = At(d, i)
        /\ NameOf(e, i) = dir[i].name \/ NameOf(e, i) = NameOf(d, i)
        /\ e[3] = DirWrites(dir)[1][2] /\ e[4] = DirWrites(dir)[2][2]
             => At(e, i) = dir[i].at /\ NameOf(e, i) = dir[i].name
    BY <2>2, DirMixed
  <2> QED
    BY <2>1, <2>3, Zenon DEF A, B
<1>11. /\ new \in Entry /\ dir[new].at = h /\ dir[new].name = n
       /\ \A i \in Entry \ {new} : dir[i].at = At(d, i) /\ dir[i].name = NameOf(d, i)
  BY Zenon DEF IsCreate
<1>12. \A i \in Entry \ {new} : At(e, i) = At(d, i) /\ NameOf(e, i) = NameOf(d, i)
  BY <1>10, <1>11, Zenon
<1>13. At(e, new) = At(d, new) \/ (At(e, new) = h /\ e[h] = H)
  BY <1>4, <1>8, <1>10, <1>11, Zenon
<1>14. k = 4 => /\ At(e, new) = h /\ NameOf(e, new) = n
                /\ e[h] = H /\ e[2] = M
  BY <1>4, <1>9, <1>10, <1>11, Zenon
<1>15. IsDisk(e) /\ (NameOf(e, new) = NameOf(d, new) \/ NameOf(e, new) = n)
  BY <1>10, <1>11, Zenon DEF IsAfter
<1> QED
  BY <1>5, <1>12, <1>13, <1>14, <1>15, Zenon DEF Creating, H, M, MapData

\* The entries in use are as they were, but for the new one.
Besides(d, e, new) ==
  /\ \A i \in Used(d) : i # new /\ At(e, i) = At(d, i) /\ \A s \in Own(d, i) : e[s] = d[s]
  /\ \A i \in Used(e) : i = new \/ i \in Used(d)

\* Whatever Create has written so far, the other files are as they were.
LEMMA CreateKeeps ==
  ASSUME Setting, NEW d, Good(d), NEW n, NEW size \in Nat,
         NEW h, NEW data, NEW new, NEW dir, NEW w, IsCreate(d, n, size, h, data, new, dir, w),
         NEW k \in 0..4, NEW e, IsAfter(d, w, k, e)
  PROVE  Keeps(d, e, n) /\ HeadersAt(e) /\ Besides(d, e, new)
<1>1. /\ \A s \in Sector : s \notin {h, 2, 3, 4} => e[s] = d[s]
      /\ \A i \in Entry \ {new} : At(e, i) = At(d, i) /\ NameOf(e, i) = NameOf(d, i)
      /\ \/ At(e, new) = At(d, new)
         \/ At(e, new) = h /\ e[h] = [numBytes |-> size, dataSectors |-> data]
      /\ NameOf(e, new) = NameOf(d, new) \/ NameOf(e, new) = n
  <2>1. Creating(d, n, size, h, data, new, k, e)
    BY CreateDisk, Zenon
  <2> QED
    BY <2>1, Zenon DEF Creating
<1>2. new \in Entry \ Used(d) /\ h \notin d[MapData]
  BY Zenon DEF IsCreate
<1>3. ASSUME NEW i \in Used(d)
      PROVE  /\ i # new /\ i \in Entry
             /\ At(e, i) = At(d, i) /\ NameOf(e, i) = NameOf(d, i)
             /\ \A s \in Own(d, i) : e[s] = d[s]
  <2>1. i # new /\ i \in Entry
    BY <1>2, Zenon DEF Used
  <2>2. \A s \in Own(d, i) : s \in Sector /\ s \notin {h, 2, 3, 4}
    BY <1>2, Marked, OwnSectors, Zenon
  <2> QED
    BY <1>1, <2>1, <2>2, Zenon
<1>4. ASSUME NEW i \in Used(e)
      PROVE  i = new \/ i \in Used(d)
  BY <1>1, Zenon DEF Used
<1>5. ASSUME NEW i \in Used(d), NameOf(d, i) # n, NEW j \in Used(e), NameOf(e, j) = NameOf(d, i)
      PROVE  i <= j
  <2>1. i \in Nat /\ j \in Nat
    BY DEF Used, Entry
  <2>2. CASE j # new
    <3>1. j \in Used(d) /\ NameOf(d, j) = NameOf(d, i)
      BY <1>3, <1>4, <1>5, <2>2, Zenon
    <3>2. i = j
      BY <3>1, Zenon DEF Good, NamesApart
    <3> QED
      BY <2>1, <3>2
  <2>3. CASE j = new
    <3>1. NameOf(d, new) = NameOf(d, i)
      BY <1>1, <1>5, <2>3, Zenon
    <3>2. i < j
      BY <1>2, <2>3, <3>1, Zenon DEF Good, NamesApart
    <3> QED
      BY <2>1, <3>2
  <2> QED
    BY <2>2, <2>3, Zenon
<1>6. Keeps(d, e, n)
  BY <1>3, <1>5, Zenon DEF Keeps
<1>7. ASSUME NEW i \in Used(e)
      PROVE  "dataSectors" \in DOMAIN Header(e, i)
  <2>1. CASE i = new
    <3>1. new \notin Used(d) /\ new \in Used(e)
      BY <1>2, <2>1, Zenon
    <3>2. At(e, new) # At(d, new)
      BY <1>2, <3>1, Zenon DEF Used
    <3>3. Header(e, i) = [numBytes |-> size, dataSectors |-> data]
      BY <1>1, <2>1, <3>2, Zenon DEF Header
    <3> QED
      BY <3>3
  <2>2. CASE i # new
    <3>1. i \in Used(d)
      BY <1>4, <2>2, Zenon
    <3>2. Header(e, i) = Header(d, i)
      BY <1>3, <3>1, Zenon DEF Header, Own
    <3> QED
      BY <3>1, <3>2, GoodHeaders, Zenon DEF HeadersAt
  <2> QED
    BY <2>1, <2>2, Zenon
<1>8. HeadersAt(e)
  BY <1>7, Zenon DEF HeadersAt
<1> QED
  BY <1>3, <1>4, <1>6, <1>8, Zenon DEF Besides

\* When Create has written everything, the disk is good again.
LEMMA CreateGood ==
  ASSUME Setting, NEW d, Good(d), NEW n, NEW size \in Nat,
         NEW h, NEW data, NEW new, NEW dir, NEW w, IsCreate(d, n, size, h, data, new, dir, w),
         NEW e, IsAfter(d, w, 4, e)
  PROVE  Good(e)
<1> DEFINE H == [numBytes |-> size, dataSectors |-> data]
<1>1. /\ IsDisk(e)
      /\ \A i \in Entry \ {new} : At(e, i) = At(d, i) /\ NameOf(e, i) = NameOf(d, i)
      /\ At(e, new) = h /\ NameOf(e, new) = n
      /\ e[h] = H
      /\ e[MapData] = d[MapData] \cup {h} \cup Range(data)
  <2>1. 4 \in 0..4
    OBVIOUS
  <2>2. Creating(d, n, size, h, data, new, 4, e)
    BY <2>1, CreateDisk, Zenon
  <2> QED
    BY <2>2, Zenon DEF Creating
<1>2. /\ \A i \in Used(d) : i # new /\ At(e, i) = At(d, i) /\ \A s \in Own(d, i) : e[s] = d[s]
      /\ \A i \in Used(e) : i = new \/ i \in Used(d)
  <2>1. 4 \in 0..4
    OBVIOUS
  <2>2. Besides(d, e, new)
    BY <2>1, CreateKeeps, Zenon
  <2> QED
    BY <2>2, Zenon DEF Besides
<1>3. /\ h \in Sector \ d[MapData]
      /\ data \in [1..SectorsFor(size) -> Sector \ (d[MapData] \cup {h})]
      /\ \A j, k \in 1..SectorsFor(size) : data[j] = data[k] => j = k
      /\ new \in Entry \ Used(d) /\ \A i \in Entry \ Used(d) : new <= i
      /\ \A i \in Used(d) : NameOf(d, i) # n
  BY Zenon DEF IsCreate
<1>4. H.numBytes = size /\ H.dataSectors = data /\ "dataSectors" \in DOMAIN H
  OBVIOUS
<1> HIDE DEF H
<1>5. h >= 0 /\ Header(e, new) = H
  BY <1>1, <1>3, SectorFinite DEF Header
<1>6. Used(e) = Used(d) \cup {new}
  <2>1. new \in Used(e)
    BY <1>1, <1>3, <1>5, Zenon DEF Used
  <2>2. \A i \in Used(d) : i \in Used(e)
    BY <1>2, Zenon DEF Used
  <2> QED
    BY <1>2, <2>1, <2>2, Zenon
<1>7. Range(data) \subseteq Sector \ (d[MapData] \cup {h})
  BY <1>3, Zenon DEF Range
<1>8. Own(e, new) = {h} \cup Range(data)
  BY <1>1, <1>4, <1>5, Zenon DEF Own
<1>9. ASSUME NEW i \in Used(d)
      PROVE  Header(e, i) = Header(d, i) /\ Own(e, i) = Own(d, i)
  <2>1. Header(e, i) = Header(d, i)
    BY <1>2, Zenon DEF Header, Own
  <2> QED
    BY <1>2, <2>1, Zenon DEF Own
<1>10. \A i \in Entry : At(e, i) \in Sector \cup {-1}
  BY <1>1, <1>3, Zenon DEF Good
<1>11. FilesApart(e)
  <2>1. ASSUME NEW i \in Used(e)
        PROVE  /\ IsHeader(Header(e, i))
               /\ At(e, i) \notin Range(Header(e, i).dataSectors)
               /\ Own(e, i) \cap SystemSectors = {}
    <3>1. CASE i = new
      <4>1. data \in [1..SectorsFor(size) -> Sector]
        BY <1>3, Zenon
      <4>2. IsHeader(H)
        BY <1>3, <1>4, <4>1, Zenon DEF IsHeader
      <4> QED
        <5>1. IsHeader(Header(e, i)) /\ At(e, i) \notin Range(Header(e, i).dataSectors)
          BY <1>1, <1>4, <1>5, <1>7, <3>1, <4>2, Zenon
        <5>2. Own(e, i) \cap SystemSectors = {}
          BY <1>3, <1>7, <1>8, <3>1, Marked
        <5> QED
          BY <5>1, <5>2, Zenon
    <3>2. CASE i # new
      BY <1>2, <1>6, <1>9, <3>2, Zenon DEF Good, FilesApart
    <3> QED
      BY <3>1, <3>2, Zenon
  <2>2. ASSUME NEW i \in Used(d)
        PROVE  Own(e, i) \cap Own(e, new) = {}
    <3>1. Own(d, i) \subseteq d[MapData]
      BY Marked, Zenon
    <3>2. Own(e, i) = Own(d, i)
      BY <1>9, Zenon
    <3> QED
      BY <1>3, <1>7, <1>8, <3>1, <3>2
  <2>3. ASSUME NEW i \in Used(e), NEW j \in Used(e), i # j
        PROVE  Own(e, i) \cap Own(e, j) = {}
    <3>1. CASE i = new
      BY <1>6, <2>2, <2>3, <3>1, Zenon
    <3>2. CASE j = new
      BY <1>6, <2>2, <2>3, <3>2, Zenon
    <3>3. CASE i # new /\ j # new
      <4>1. i \in Used(d) /\ j \in Used(d)
        BY <1>6, <3>3, Zenon
      <4> QED
        BY <1>9, <2>3, <4>1, Zenon DEF Good, FilesApart
    <3> QED
      BY <3>1, <3>2, <3>3, Zenon
  <2> QED
    BY <2>1, <2>3, Zenon DEF FilesApart
<1>12. NamesApart(e)
  <2>1. \A i \in Used(d) : i \in Entry /\ NameOf(e, i) = NameOf(d, i)
    BY <1>1, <1>2, Zenon DEF Used
  <2>2. ASSUME NEW i \in Used(e), NEW j \in Used(e), NameOf(e, i) = NameOf(e, j)
        PROVE  i = j
    BY <1>1, <1>3, <1>6, <2>1, <2>2, Zenon DEF Good, NamesApart
  <2>3. ASSUME NEW i \in Entry \ Used(e), NEW j \in Used(e), NameOf(e, i) = NameOf(e, j)
        PROVE  j < i
    <3>1. i # new /\ i \in Entry \ Used(d) /\ NameOf(e, i) = NameOf(d, i)
      BY <1>1, <1>6, Zenon
    <3>2. CASE j = new
      <4>1. new <= i /\ i # new
        BY <1>3, <3>1, Zenon
      <4>2. i \in Nat /\ new \in Nat
        BY <1>3 DEF Entry
      <4>3. new < i
        BY <4>1, <4>2
      <4> QED
        BY <3>2, <4>3, Zenon
    <3>3. CASE j # new
      <4>1. j \in Used(d) /\ NameOf(d, j) = NameOf(d, i)
        BY <1>6, <2>1, <2>3, <3>1, <3>3, Zenon
      <4> QED
        BY <3>1, <4>1, Zenon DEF Good, NamesApart
    <3> QED
      BY <3>2, <3>3, Zenon
  <2> QED
    BY <2>2, <2>3, Zenon DEF NamesApart
<1>13. MapExact(e)
  <2>1. ASSUME NEW s
        PROVE  s \in UNION {Own(e, i) : i \in Used(e)}
                 <=> (s \in UNION {Own(d, i) : i \in Used(d)} \/ s \in Own(e, new))
    <3>1. (\E i \in Used(e) : s \in Own(e, i))
            <=> ((\E i \in Used(d) : s \in Own(d, i)) \/ s \in Own(e, new))
      BY <1>6, <1>9, Zenon
    <3> QED
      BY <3>1, Zenon
  <2>2. d[MapData] = SystemSectors \cup UNION {Own(d, i) : i \in Used(d)}
    BY Zenon DEF Good, MapExact
  <2> DEFINE X == UNION {Own(e, i) : i \in Used(e)}
             Y == UNION {Own(d, i) : i \in Used(d)}
  <2> HIDE DEF X, Y
  <2>3. \A s : s \in X <=> (s \in Y \/ s \in Own(e, new))
    BY <2>1, Zenon DEF X, Y
  <2>4. d[MapData] = SystemSectors \cup Y
    BY <2>2, Zenon DEF Y
  <2>5. e[MapData] = SystemSectors \cup X
    BY <1>1, <1>8, <2>3, <2>4
  <2> QED
    BY <2>5, Zenon DEF MapExact, X
<1> QED
  BY <1>1, <1>10, <1>11, <1>12, <1>13, Zenon DEF Good

\* Create may stop anywhere, and all of it leaves a good disk.
LEMMA CreateSafe ==
  ASSUME Setting, NEW d, Good(d), NEW n, NEW size \in Nat
  PROVE  Safe(d, CreateWrites(d, n, size), n)
<1> DEFINE w == CreateWrites(d, n, size)
<1>1. CASE w = <<>>
  BY <1>1, NoWrites, Zenon
<1>2. CASE w # <<>>
  <2>1. PICK h, data, new, dir : IsCreate(d, n, size, h, data, new, dir, w)
    BY <1>2, CreateIs, Zenon
  <2> DEFINE H == [numBytes |-> size, dataSectors |-> data]
             A == DirWrites(dir)[1][2]
             B == DirWrites(dir)[2][2]
             M == d[MapData] \cup {h} \cup Range(data)
  <2>2. w = << <<h, H>>, <<3, A>>, <<4, B>>, <<2, M>> >>
    BY <2>1, Zenon DEF IsCreate, MapData
  <2>3. h # 2 /\ h # 3 /\ h # 4 /\ {2, 3, 4} \subseteq Sector /\ h \in Sector
    BY <2>1, Marked, Zenon DEF IsCreate
  <2> HIDE DEF w, H, A, B, M
  <2>4. Len(w) = 4
    BY <2>2
  <2>5. Writes(w)
    <3>1. DOMAIN w = 1..4 /\ w[1] = <<h, H>> /\ w[2] = <<3, A>> /\ w[3] = <<4, B>> /\ w[4] = <<2, M>>
      BY <2>2
    <3> DEFINE V == {w[j][2] : j \in DOMAIN w}
    <3>2. H \in V /\ A \in V /\ B \in V /\ M \in V
      BY <3>1
    <3> HIDE DEF V
    <3>3. w \in Seq(Sector \X V)
      BY <2>2, <2>3, <3>2
    <3>4. \A i, j \in 1..Len(w) : w[i][1] = w[j][1] => i = j
      BY <2>3, <2>4, <3>1
    <3> QED
      BY <3>3, <3>4, Zenon DEF Writes, V
  <2>6. ASSUME NEW e, IsAfter(d, w, 4, e)
        PROVE  Good(e)
    BY <2>1, <2>6, CreateGood
  <2>7. ASSUME NEW k \in 0..4, NEW e, IsAfter(d, w, k, e)
        PROVE  Keeps(d, e, n) /\ HeadersAt(e)
    BY <2>1, <2>7, CreateKeeps, Zenon
  <2> QED
    BY <2>4, <2>5, <2>6, <2>7, Zenon DEF Safe, w
<1> QED
  BY <1>1, <1>2, Zenon

-----------------------------------------------------------------------------
(* FileSystem::Remove.                                                     *)

\* What Remove writes back when the name is that of the entry `gone'.
IsRemove(d, n, gone, dir, w) ==
  /\ gone \in Used(d) /\ NameOf(d, gone) = n
  /\ \A i \in Entry : /\ dir[i].at = IF i = gone THEN -1 ELSE At(d, i)
                      /\ dir[i].name = NameOf(d, i)
  /\ w = << <<2, d[MapData] \ Own(d, gone)>>,
            <<3, DirWrites(dir)[1][2]>>, <<4, DirWrites(dir)[2][2]>> >>

\* Remove writes nothing or is such a choice.
LEMMA RemoveIs ==
  ASSUME Setting, NEW d, Good(d), NEW n, RemoveWrites(d, n) # <<>>
  PROVE  \E gone, dir : IsRemove(d, n, gone, dir, RemoveWrites(d, n))
<1> DEFINE T    == FindIndex(FetchDir(d), n)
           gone == Min(T)
           dir  == Removed(FetchDir(d), gone)
           hdr  == d[FetchDir(d)[gone].at]
<1>1. T # {}
  BY Zenon DEF RemoveWrites
<1>2. RemoveWrites(d, n)
        = << <<MapData, (d[MapData] \ Range(hdr.dataSectors)) \ {FetchDir(d)[gone].at}>> >>
            \o DirWrites(dir)
  BY <1>1, Zenon DEF RemoveWrites, Deallocate, FetchMap, MapWrite
<1>3. gone \in T
  <2>1. T \subseteq Nat
    BY DEF FindIndex, Entry
  <2> HIDE DEF T
  <2> QED
    BY <1>1, <2>1, MinIs, Zenon
<1>4. gone \in Used(d) /\ NameOf(d, gone) = n
  <2> HIDE DEF gone
  <2> QED
    BY <1>3, Zenon DEF FindIndex, Used, NameOf, At
<1> HIDE DEF T, gone
<1>5. ASSUME NEW i \in Entry
      PROVE  /\ dir[i].at = IF i = gone THEN -1 ELSE At(d, i)
             /\ dir[i].name = NameOf(d, i)
  <2>1. dir[i] = [at |-> IF i = gone THEN -1 ELSE FetchDir(d)[i].at, name |-> FetchDir(d)[i].name]
    BY Zenon DEF Removed
  <2> HIDE DEF dir
  <2> QED
    BY <2>1 DEF At, NameOf
<1> DEFINE a == <<2, d[MapData] \ Own(d, gone)>>
           b == DirSector(dir, 1..Straddler, 1..(Straddler - 1))
           c == DirSector(dir, (Straddler + 1)..NumDirEntries, Straddler..NumDirEntries)
<1>6. d[MapData] \ Own(d, gone)
        = (d[MapData] \ Range(hdr.dataSectors)) \ {FetchDir(d)[gone].at}
  BY Zenon DEF Own, Header, At
<1> HIDE DEF dir
<1>7. DirWrites(dir) = << <<3, b>>, <<4, c>> >>
  BY DEF DirWrites, DirData
<1>8. RemoveWrites(d, n) = <<a>> \o << <<3, b>>, <<4, c>> >>
  BY <1>2, <1>6, <1>7, Zenon DEF MapData
<1> HIDE DEF a, b, c
<1>9. DirWrites(dir)[1][2] = b /\ DirWrites(dir)[2][2] = c
  BY <1>7
<1>10. RemoveWrites(d, n) = <<a, <<3, b>>, <<4, c>> >>
  BY <1>8, JoinThree, Zenon
<1>11. IsRemove(d, n, gone, dir, RemoveWrites(d, n))
  BY <1>4, <1>5, <1>9, <1>10, Zenon DEF IsRemove, a
<1> QED
  BY <1>11, Zenon

\* The disk e after the first k of Remove's writes.
Removing(d, gone, k, e) ==
  /\ IsDisk(e)
  /\ \A s \in Sector : s \notin {2, 3, 4} => e[s] = d[s]
  /\ \A i \in Entry : NameOf(e, i) = NameOf(d, i)
  /\ \A i \in Entry \ {gone} : At(e, i) = At(d, i)
  /\ At(e, gone) = At(d, gone) \/ At(e, gone) = -1
  /\ k = 3 => At(e, gone) = -1 /\ e[MapData] = d[MapData] \ Own(d, gone)

\* Every sector and every entry is the old one or the one that was written.
LEMMA RemoveDisk ==
  ASSUME Setting, NEW d, Good(d), NEW n, NEW gone, NEW dir, NEW w, IsRemove(d, n, gone, dir, w),
         NEW k \in 0..3, NEW e, IsAfter(d, w, k, e)
  PROVE  Removing(d, gone, k, e)
<1> DEFINE A == DirWrites(dir)[1][2]
           B == DirWrites(dir)[2][2]
           M == d[MapData] \ Own(d, gone)
<1>1. w = << <<2, M>>, <<3, A>>, <<4, B>> >>
  BY Zenon DEF IsRemove
<1> HIDE DEF A, B, M
<1>2. /\ w[1][1] = 2 /\ w[2][1] = 3 /\ w[3][1] = 4
      /\ w[1][2] = M /\ w[2][2] = A /\ w[3][2] = B
  BY <1>1
<1>3. {2, 3, 4} \subseteq Sector
  BY Marked, Zenon
<1>4. /\ 1 \in 1..k => e[2] = M
      /\ 2 \in 1..k => e[3] = A
      /\ 3 \in 1..k => e[4] = B
  <2>1. \A j \in 1..k : e[w[j][1]] = w[j][2]
    BY Zenon DEF IsAfter
  <2>2. 1 \in 1..k => e[2] = M
    <3>1. 1 \in 1..k => e[w[1][1]] = w[1][2]
      BY <2>1, Zenon
    <3> QED
      BY <1>2, <3>1, Zenon
  <2>3. 2 \in 1..k => e[3] = A
    BY <1>2, <2>1, Zenon
  <2>4. 3 \in 1..k => e[4] = B
    BY <1>2, <2>1, Zenon
  <2> QED
    BY <2>2, <2>3, <2>4, Zenon
<1>5. /\ 2 \notin 1..k => e[3] = d[3]
      /\ 3 \notin 1..k => e[4] = d[4]
      /\ \A s \in Sector : s \notin {2, 3, 4} => e[s] = d[s]
  <2>1. /\ 2 \notin 1..k => \A j \in 1..k : j = 1
        /\ 3 \notin 1..k => \A j \in 1..k : j = 1 \/ j = 2
        /\ \A j \in 1..k : j = 1 \/ j = 2 \/ j = 3
    OBVIOUS
  <2>2. \A s \in Sector : (\A j \in 1..k : w[j][1] # s) => e[s] = d[s]
    BY Zenon DEF IsAfter
  <2>3. w[1][1] # 3 /\ w[1][1] # 4 /\ w[2][1] # 4
    BY <1>2
  <2>4. 2 \notin 1..k => \A j \in 1..k : w[j][1] # 3
    BY <2>1, <2>3, Zenon
  <2>5. 3 \notin 1..k => \A j \in 1..k : w[j][1] # 4
    BY <2>1, <2>3, Zenon
  <2>6. \A s \in Sector : s \notin {2, 3, 4} => \A j \in 1..k : w[j][1] # s
    BY <1>2, <2>1, Zenon
  <2> QED
    BY <1>3, <2>2, <2>4, <2>5, <2>6, Zenon
<1>6. /\ e[3] = A \/ e[3] = d[3]
      /\ e[4] = B \/ e[4] = d[4]
  BY <1>4, <1>5, Zenon
<1>7. k = 3 => 1 \in 1..k /\ 2 \in 1..k /\ 3 \in 1..k
  OBVIOUS
<1>8. ASSUME NEW i \in Entry
      PROVE  /\ At(e, i) = dir[i].at \/ At(e, i) = At(d, i)
             /\ NameOf(e, i) = dir[i].name \/ NameOf(e, i) = NameOf(d, i)
             /\ e[3] = A /\ e[4] = B => At(e, i) = dir[i].at
  <2>1. /\ e[3] = DirWrites(dir)[1][2] \/ e[3] = d[3]
        /\ e[4] = DirWrites(dir)[2][2] \/ e[4] = d[4]
    BY <1>6, Zenon DEF A, B
  <2>2. /\ At(e, i) = dir[i].at \/ At(e, i) = At(d, i)
        /\ NameOf(e, i) = dir[i].name \/ NameOf(e, i) = NameOf(d, i)
        /\ e[3] = DirWrites(dir)[1][2] /\ e[4] = DirWrites(dir)[2][2]
             => At(e, i) = dir[i].at /\ NameOf(e, i) = dir[i].name
    BY <2>1, DirMixed
  <2> QED
    BY <2>2, Zenon DEF A, B
<1>9. /\ gone \in Entry /\ dir[gone].at = -1
      /\ \A i \in Entry : dir[i].name = NameOf(d, i)
      /\ \A i \in Entry \ {gone} : dir[i].at = At(d, i)
  BY Zenon DEF IsRemove, Used
<1>10. /\ \A i \in Entry : NameOf(e, i) = NameOf(d, i)
       /\ \A i \in Entry \ {gone} : At(e, i) = At(d, i)
       /\ At(e, gone) = At(d, gone) \/ At(e, gone) = -1
  BY <1>8, <1>9, Zenon
<1>11. k = 3 => At(e, gone) = -1 /\ e[2] = M
  BY <1>4, <1>7, <1>8, <1>9, Zenon
<1>12. IsDisk(e)
  BY Zenon DEF IsAfter
<1> QED
  BY <1>5, <1>10, <1>11, <1>12, Zenon DEF Removing, M, MapData

\* Whatever Remove has written so far, the other files are as they were.
LEMMA RemoveKeeps ==
  ASSUME Setting, NEW d, Good(d), NEW n, NEW gone \in Used(d), NameOf(d, gone) = n,
         NEW k, NEW e, Removing(d, gone, k, e)
  PROVE  /\ Keeps(d, e, n) /\ HeadersAt(e)
         /\ Used(e) \subseteq Used(d)
         /\ \A i \in Used(d) : \A s \in Own(d, i) : e[s] = d[s]
<1>1. \A i \in Used(d) : \A s \in Own(d, i) : e[s] = d[s]
  <2> SUFFICES ASSUME NEW i \in Used(d), NEW s \in Own(d, i)
               PROVE  e[s] = d[s]
    BY Zenon
  <2>1. s \in Sector /\ s \notin {2, 3, 4}
    BY Marked, OwnSectors, Zenon
  <2> QED
    BY <2>1, Zenon DEF Removing
<1>2. ~(-1 >= 0)
  OBVIOUS
<1>3. ASSUME NEW i \in Used(e)
      PROVE  i \in Used(d) /\ At(e, i) = At(d, i) /\ NameOf(e, i) = NameOf(d, i)
  BY <1>2, <1>3, Zenon DEF Used, Removing
<1>4. ASSUME NEW i \in Used(d), NameOf(d, i) # n
      PROVE  /\ At(e, i) = At(d, i) /\ NameOf(e, i) = NameOf(d, i)
             /\ \A j \in Used(e) : NameOf(e, j) = NameOf(d, i) => i <= j
  <2>1. i # gone /\ i \in Entry
    BY <1>4, Zenon DEF Used
  <2>2. i <= i
    BY DEF Used, Entry
  <2> QED
    BY <1>3, <2>1, <2>2, Zenon DEF Removing, Good, NamesApart
<1>5. Keeps(d, e, n)
  BY <1>1, <1>4, Zenon DEF Keeps
<1>6. ASSUME NEW i \in Used(e)
      PROVE  "dataSectors" \in DOMAIN Header(e, i)
  <2>1. Header(e, i) = Header(d, i)
    BY <1>1, <1>3, Zenon DEF Header, Own
  <2> QED
    BY <1>3, <2>1, GoodHeaders, Zenon DEF HeadersAt
<1> QED
  BY <1>1, <1>3, <1>5, <1>6, Zenon DEF HeadersAt

\* When Remove has written everything, the disk is good again.
LEMMA RemoveGood ==
  ASSUME Setting, NEW d, Good(d), NEW n, NEW gone \in Used(d), NameOf(d, gone) = n,
         NEW e, Removing(d, gone, 3, e)
  PROVE  Good(e)
<1>1. /\ IsDisk(e)
      /\ \A i \in Entry : NameOf(e, i) = NameOf(d, i)
      /\ \A i \in Entry \ {gone} : At(e, i) = At(d, i)
      /\ At(e, gone) = -1 /\ e[MapData] = d[MapData] \ Own(d, gone)
  BY Zenon DEF Removing
<1>2. Used(e) \subseteq Used(d) /\ \A i \in Used(d) : \A s \in Own(d, i) : e[s] = d[s]
  BY RemoveKeeps
<1>3. ~(-1 >= 0)
  OBVIOUS
<1>4. Used(e) = Used(d) \ {gone}
  <2>1. gone \notin Used(e)
    BY <1>1, <1>3, Zenon DEF Used
  <2>2. \A i \in Used(d) \ {gone} : i \in Used(e)
    BY <1>1, Zenon DEF Used
  <2> QED
    BY <1>2, <2>1, <2>2, Zenon
<1>5. ASSUME NEW i \in Used(e)
      PROVE  /\ i \in Entry /\ i # gone /\ i \in Used(d) /\ At(e, i) = At(d, i)
             /\ Header(e, i) = Header(d, i) /\ Own(e, i) = Own(d, i)
  <2>1. i \in Entry /\ i # gone /\ i \in Used(d)
    BY <1>4, Zenon DEF Used
  <2>2. At(e, i) = At(d, i)
    BY <1>1, <2>1, Zenon
  <2>3. Header(e, i) = Header(d, i)
    BY <1>2, <2>1, <2>2, Zenon DEF Header, Own
  <2> QED
    BY <2>1, <2>2, <2>3, Zenon DEF Own
<1>6. \A i \in Entry : At(e, i) \in Sector \cup {-1}
  BY <1>1, Zenon DEF Good
<1>7. FilesApart(e)
  BY <1>5, Zenon DEF Good, FilesApart
<1>8. NamesApart(e)
  <2>1. ASSUME NEW i \in Entry \ Used(e), NEW j \in Used(e), NameOf(e, i) = NameOf(e, j)
        PROVE  j < i
    <3>1. j \in Entry /\ j \in Used(d) /\ j # gone /\ NameOf(d, i) = NameOf(d, j)
      BY <1>1, <1>5, <2>1, Zenon
    <3>2. i # gone
      BY <3>1, Zenon DEF Good, NamesApart
    <3>3. i \in Entry \ Used(d)
      BY <1>4, <3>2, Zenon
    <3> QED
      BY <3>1, <3>3, Zenon DEF Good, NamesApart
  <2>2. ASSUME NEW i \in Used(e), NEW j \in Used(e), NameOf(e, i) = NameOf(e, j)
        PROVE  i = j
    BY <1>1, <1>5, <2>2, Zenon DEF Good, NamesApart
  <2> QED
    BY <2>1, <2>2, Zenon DEF NamesApart
<1>9. MapExact(e)
  <2> DEFINE X == UNION {Own(e, i) : i \in Used(e)}
             Y == UNION {Own(d, i) : i \in Used(d)}
  <2>1. \A s : s \in X <=> (s \in Y /\ s \notin Own(d, gone))
    <3>1. \A s : (\E i \in Used(e) : s \in Own(e, i))
                   => (\E i \in Used(d) : s \in Own(d, i)) /\ s \notin Own(d, gone)
      BY <1>5, Zenon DEF Good, FilesApart
    <3>2. \A s : (\E i \in Used(d) : s \in Own(d, i)) /\ s \notin Own(d, gone)
                   => \E i \in Used(e) : s \in Own(e, i)
      BY <1>4, <1>5, Zenon
    <3> QED
      BY <3>1, <3>2, Zenon
  <2>2. d[MapData] = SystemSectors \cup Y
    BY Zenon DEF Good, MapExact
  <2> HIDE DEF X, Y
  <2>3. SystemSectors \cap Own(d, gone) = {}
    BY Zenon DEF Good, FilesApart
  <2>4. e[MapData] = SystemSectors \cup X
    BY <1>1, <2>1, <2>2, <2>3
  <2> QED
    BY <2>4, Zenon DEF MapExact, X
<1> QED
  BY <1>1, <1>6, <1>7, <1>8, <1>9, Zenon DEF Good

\* Remove may stop anywhere, and all of it leaves a good disk.
LEMMA RemoveSafe ==
  ASSUME Setting, NEW d, Good(d), NEW n
  PROVE  Safe(d, RemoveWrites(d, n), n)
<1> DEFINE w == RemoveWrites(d, n)
<1>1. CASE w = <<>>
  BY <1>1, NoWrites, Zenon
<1>2. CASE w # <<>>
  <2>1. PICK gone, dir : IsRemove(d, n, gone, dir, w)
    BY <1>2, RemoveIs, Zenon
  <2> DEFINE A == DirWrites(dir)[1][2]
             B == DirWrites(dir)[2][2]
             M == d[MapData] \ Own(d, gone)
  <2>2. w = << <<2, M>>, <<3, A>>, <<4, B>> >> /\ gone \in Used(d) /\ NameOf(d, gone) = n
    BY <2>1, Zenon DEF IsRemove
  <2>3. {2, 3, 4} \subseteq Sector
    BY Marked, Zenon
  <2> HIDE DEF w, A, B, M
  <2>4. Len(w) = 3
    BY <2>2
  <2>5. Writes(w)
    <3>1. DOMAIN w = 1..3 /\ w[1] = <<2, M>> /\ w[2] = <<3, A>> /\ w[3] = <<4, B>>
      BY <2>2
    <3> DEFINE V == {w[j][2] : j \in DOMAIN w}
    <3>2. A \in V /\ B \in V /\ M \in V
      BY <3>1
    <3> HIDE DEF V
    <3>3. w \in Seq(Sector \X V)
      BY <2>2, <2>3, <3>2
    <3>4. \A i, j \in 1..Len(w) : w[i][1] = w[j][1] => i = j
      BY <2>4, <3>1
    <3> QED
      BY <3>3, <3>4, Zenon DEF Writes, V
  <2>6. ASSUME NEW k \in 0..3, NEW e, IsAfter(d, w, k, e)
        PROVE  Removing(d, gone, k, e)
    BY <2>1, <2>6, RemoveDisk, Zenon
  <2>7. ASSUME NEW k \in 0..3, NEW e, IsAfter(d, w, k, e)
        PROVE  Keeps(d, e, n) /\ HeadersAt(e)
    BY <2>2, <2>6, <2>7, RemoveKeeps, Zenon
  <2>8. ASSUME NEW e, IsAfter(d, w, 3, e)
        PROVE  Good(e)
    <3>1. 3 \in 0..3
      OBVIOUS
    <3>2. Removing(d, gone, 3, e)
      BY <2>6, <2>8, <3>1, Zenon
    <3> QED
      BY <2>2, <3>2, RemoveGood, Zenon
  <2> QED
    BY <2>4, <2>5, <2>7, <2>8, Zenon DEF Safe, w
<1> QED
  BY <1>1, <1>2, Zenon

-----------------------------------------------------------------------------
(* OpenFile::WriteAt.                                                      *)

\* The smaller of two numbers.
LEMMA MinTwo ==
  ASSUME NEW a \in Int, NEW b \in Int
  PROVE  /\ Min({a, b}) \in Int /\ Min({a, b}) <= a /\ Min({a, b}) <= b
         /\ Min({a, b}) = a \/ Min({a, b}) = b
<1>1. {a, b} \subseteq Int /\ a \in {a, b} /\ b \in {a, b}
  OBVIOUS
<1>2. CASE a <= b
  <2>1. \A y \in {a, b} : a <= y
    BY <1>2
  <2>2. Min({a, b}) = a
    BY <1>1, <2>1, MinOf
  <2> QED
    BY <1>2, <2>2
<1>3. CASE ~(a <= b)
  <2>1. \A y \in {a, b} : b <= y
    BY <1>3
  <2>2. Min({a, b}) = b
    BY <1>1, <2>1, MinOf
  <2> QED
    BY <1>3, <2>2
<1> QED
  BY <1>2, <1>3, Zenon

\* The byte k of the file (from 1) after a write of text at position.
NewByte(d, h, text, position, k) ==
  IF k \in (position + 1)..(position + Len(text)) THEN text[k - position] ELSE Content(d, h)[k]

\* What WriteAt writes: the sectors first to last of the file, each with the bytes
\* that it is to have.
IsWrite(d, h, text, position, first, last, w) ==
  /\ first \in Nat /\ last \in Nat /\ first <= last /\ last + 1 <= SectorsFor(h.numBytes)
  /\ w = [j \in 1..(1 + last - first) |-> w[j]]
  /\ \A j \in 1..(1 + last - first) :
       w[j] = <<h.dataSectors[first + j], w[j][2]>>
  /\ \A k \in 1..h.numBytes :
       LET q == (k - 1) \div SectorSize IN
       IF q \in first..last
       THEN w[1 + q - first][2].bytes[1 + ((k - 1) % SectorSize)]
              = NewByte(d, h, text, position, k)
       ELSE k \notin (position + 1)..(position + Len(text))

\* Where the byte at position p lies.
LEMMA Placed ==
  ASSUME Setting, NEW p \in Nat
  PROVE  /\ p \div SectorSize \in Nat /\ p % SectorSize \in 0..(SectorSize - 1)
         /\ p = ((p \div SectorSize) * SectorSize) + (p % SectorSize)
BY DEF Setting

\* The quotient of a multiple.
LEMMA Quotient ==
  ASSUME Setting, NEW i \in Nat
  PROVE  (i * SectorSize) \div SectorSize = i
BY DEF Setting

\* Sectors follow each other as bytes do.
LEMMA Ordered ==
  ASSUME Setting, NEW i \in Nat, NEW j \in Nat
  PROVE  /\ i < j => (i + 1) * SectorSize <= j * SectorSize
         /\ i <= j => i * SectorSize <= j * SectorSize
         /\ i * SectorSize \in Nat
         /\ (i + 1) * SectorSize = (i * SectorSize) + SectorSize
<1> DEFINE S == SectorSize
<1>1. S \in Nat /\ S > 0
  BY DEF Setting
<1> HIDE DEF S
<1>2. i * S \in Nat /\ j * S \in Nat /\ (i + 1) * S = (i * S) + S
  BY <1>1
<1>3. i <= j => i * S <= j * S
  <2> SUFFICES ASSUME i <= j
               PROVE  i * S <= j * S
    OBVIOUS
  <2>1. (j - i) \in Nat
    OBVIOUS
  <2>2. (j - i) * S \in Nat
    BY <1>1, <2>1
  <2>3. j * S = (i * S) + ((j - i) * S)
    BY <1>1
  <2> QED
    BY <1>2, <2>2, <2>3
<1>4. i < j => (i + 1) * S <= j * S
  <2> SUFFICES ASSUME i < j
               PROVE  (i + 1) * S <= j * S
    OBVIOUS
  <2>1. (j - (i + 1)) \in Nat
    OBVIOUS
  <2>2. (j - (i + 1)) * S \in Nat
    BY <1>1, <2>1
  <2>3. j * S = ((i + 1) * S) + ((j - (i + 1)) * S)
    BY <1>1
  <2> DEFINE x == (i + 1) * S
             y == (j - (i + 1)) * S
             z == j * S
  <2>4. x \in Int /\ y \in Nat /\ z = x + y
    BY <1>1, <2>2, <2>3
  <2> HIDE DEF x, y, z
  <2>5. x <= z
    BY <2>4
  <2> QED
    BY <2>5, Zenon DEF x, z
<1> QED
  BY <1>2, <1>3, <1>4 DEF S

\* What the case distinction of WriteAt comes to for byte k of a file of B bytes, when
\* nb of len bytes are written: bytes of its sectors first to last that are not
\* written are read before.
Buffered(B, k, len, position, nb) ==
  LET first == position \div SectorSize
      last  == (position + nb - 1) \div SectorSize
      q     == (k - 1) \div SectorSize
  IN  /\ k \in (position + 1)..(position + len) <=> k \in (position + 1)..(position + nb)
      /\ q \notin first..last => k \notin (position + 1)..(position + len)
      /\ q \in first..last /\ k \notin (position + 1)..(position + nb)
           => Partial(first, last, position = first * SectorSize,
                      position + nb = (last + 1) * SectorSize, q)

\* It does, wherever the write begins and ends.
LEMMA BufferByte ==
  ASSUME Setting, NEW B \in Nat, NEW k \in 1..B, NEW len \in Nat, NEW position \in Nat,
         NEW nb \in Nat, nb > 0, nb <= len, nb <= B - position, nb = len \/ nb = B - position
  PROVE  Buffered(B, k, len, position, nb)
<1> DEFINE S == SectorSize
           end == position + nb
           first == position \div S
           last  == (position + nb - 1) \div S
           q     == (k - 1) \div S
<1>0. position + nb - 1 = end - 1
  OBVIOUS
<1>1. S \in Nat /\ S > 0 /\ k - 1 \in Nat /\ end - 1 \in Nat /\ k <= B /\ k \in Nat
  BY DEF Setting
<1>2. /\ position = (first * S) + (position % S) /\ position % S \in 0..(S - 1)
      /\ end - 1 = (last * S) + ((end - 1) % S) /\ (end - 1) % S \in 0..(S - 1)
      /\ k - 1 = (q * S) + ((k - 1) % S) /\ (k - 1) % S \in 0..(S - 1)
  <2>1. position = (first * S) + (position % S) /\ position % S \in 0..(S - 1)
    BY Placed, Zenon
  <2>2. end - 1 = (last * S) + ((end - 1) % S) /\ (end - 1) % S \in 0..(S - 1)
    BY <1>1, <1>0, Placed, Zenon
  <2>3. k - 1 = (q * S) + ((k - 1) % S) /\ (k - 1) % S \in 0..(S - 1)
    BY <1>1, Placed, Zenon
  <2> QED
    BY <2>1, <2>2, <2>3, Zenon
<1>a. first \in Nat /\ last \in Nat /\ q \in Nat
  <2>1. first \in Nat
    BY Placed, Zenon
  <2>2. last \in Nat
    BY <1>1, <1>0, Placed, Zenon
  <2>3. q \in Nat
    BY <1>1, Placed, Zenon
  <2> QED
    BY <2>1, <2>2, <2>3, Zenon
<1>3. /\ first * S \in Nat /\ last * S \in Nat /\ q * S \in Nat
      /\ (last + 1) * S = (last * S) + S
      /\ q < first => (q * S) + S <= first * S
      /\ first < q => (first * S) + S <= q * S
      /\ q < last => (q * S) + S <= last * S
      /\ last < q => (last * S) + S <= q * S
  <2>1. \A i, j \in Nat : /\ i * S \in Nat /\ (i + 1) * S = (i * S) + S
                          /\ i < j => (i + 1) * S <= j * S
    BY Ordered
  <2> HIDE DEF S, first, last, q
  <2> QED
    BY <1>a, <2>1, Zenon
<1> DEFINE x == first * S
           y == last * S
           z == q * S
           a == position % S
           b == (end - 1) % S
           c == (k - 1) % S
<1>4. /\ position = x + a /\ a \in 0..(S - 1) /\ end - 1 = y + b /\ b \in 0..(S - 1)
      /\ k - 1 = z + c /\ c \in 0..(S - 1)
      /\ x \in Nat /\ y \in Nat /\ z \in Nat
      /\ (last + 1) * S = y + S
      /\ q < first => z + S <= x
      /\ first < q => x + S <= z
      /\ q < last => z + S <= y
      /\ last < q => y + S <= z
  BY <1>2, <1>3, Zenon
<1> HIDE DEF x, y, z, a, b, c, S, first, last, q
<1>5. k \in (position + 1)..(position + len) <=> k \in (position + 1)..(position + nb)
  BY <1>1
<1>6. ASSUME q \notin first..last
      PROVE  k \notin (position + 1)..(position + nb)
  <2>1. q < first \/ last < q
    BY <1>a, <1>6
  <2> QED
    BY <1>1, <1>4, <2>1
<1>7. ASSUME q \in first..last, k \notin (position + 1)..(position + nb)
      PROVE  Partial(first, last, position = x, end = y + S, q)
  <2>1. CASE k <= position
    <3>1. q = first
      BY <1>1, <1>a, <1>4, <1>7, <2>1
    <3>2. position # x
      BY <1>1, <1>4, <2>1, <3>1 DEF x, z
    <3> QED
      BY <3>1, <3>2, Zenon DEF Partial
  <2>2. CASE ~(k <= position)
    <3>1. k > end
      BY <1>1, <1>7, <2>2
    <3>2. q = last
      BY <1>1, <1>a, <1>4, <1>7, <3>1
    <3>3. end # y + S
      BY <1>1, <1>4, <3>1, <3>2 DEF y, z
    <3> QED
      BY <3>2, <3>3, Zenon DEF Partial
  <2> QED
    BY <2>1, <2>2, Zenon
<1> QED
  BY <1>4, <1>5, <1>6, <1>7, Zenon DEF Buffered, S, x, first, last, q

\* WriteAt writes nothing only when no byte of the file is to change; else it is a
\* write of whole sectors with the right bytes.
LEMMA WriteIs ==
  ASSUME Setting, NEW d, NEW h, IsHeader(h), NEW text, Len(text) \in Nat, NEW position \in Nat
  PROVE  LET w == WriteAt(d, h, text, position) IN
         \/ /\ w = <<>>
            /\ \A k \in 1..h.numBytes : k \notin (position + 1)..(position + Len(text))
         \/ \E first, last : IsWrite(d, h, text, position, first, last, w)
<1> DEFINE S == SectorSize
           B == h.numBytes
           nb == Min({Len(text), B - position})
           first == position \div S
           last == (position + nb - 1) \div S
           firstAligned == position = first * S
           lastAligned == position + nb = (last + 1) * S
           old == Content(d, h)
           byte(i, k) ==
             LET at == (i * S) + k
             IN  CASE at \in (position + 1)..(position + nb) -> text[at - position]
                   [] at \notin (position + 1)..(position + nb)
                      /\ Partial(first, last, firstAligned, lastAligned, i)
                      /\ at <= B -> old[at]
                   [] OTHER -> Garbage
           w == WriteAt(d, h, text, position)
           row(j) == <<ByteToSector(h, (first + j - 1) * S),
                       [bytes |-> [k \in 1..S |-> byte(first + j - 1, k)]]>>
<1>1. w = IF nb <= 0 THEN <<>> ELSE [j \in 1..(1 + last - first) |-> row(j)]
  BY Zenon DEF WriteAt
<1>2. S \in Nat /\ S > 0 /\ B \in Nat
  BY DEF Setting, IsHeader
<1>3. nb \in Int /\ nb <= Len(text) /\ nb <= B - position /\ (nb = Len(text) \/ nb = B - position)
  <2>1. Len(text) \in Int /\ B - position \in Int
    BY <1>2
  <2> HIDE DEF B
  <2> QED
    BY <2>1, MinTwo, Zenon
<1> HIDE DEF w, nb
<1>4. CASE nb <= 0
  <2>1. w = <<>>
    BY <1>1, <1>4, Zenon
  <2>2. \A k \in 1..B : k \notin (position + 1)..(position + Len(text))
    <3> HIDE DEF B
    <3> QED
      BY <1>2, <1>3, <1>4
  <2> QED
    BY <2>1, <2>2, Zenon DEF w
<1>5. CASE ~(nb <= 0)
  <2>1. nb \in Nat /\ nb > 0 /\ position + nb - 1 \in Nat /\ position + nb \in 1..B
    BY <1>2, <1>3, <1>5
  <2>2. first \in Nat /\ last \in Nat /\ first <= last
    BY <1>2, <2>1
  <2>3. last + 1 <= SectorsFor(B)
    <3> DEFINE l == last
               z == SectorsFor(B)
    <3>1. 1 + l \in 1..z /\ z \in Nat /\ l \in Nat
      <4>1. z \in Nat /\ \A k \in 1..B : 1 + ((k - 1) \div SectorSize) \in 1..z
        BY <1>2, SectorsAre, Zenon
      <4>2. (position + nb) - 1 = position + nb - 1
        BY <2>1
      <4>3. 1 + l \in 1..z
        BY <2>1, <4>1, <4>2, Zenon
      <4> QED
        BY <2>2, <4>1, <4>3, Zenon
    <3> HIDE DEF l, z
    <3>2. l + 1 <= z
      BY <3>1
    <3> QED
      BY <3>2, Zenon DEF l, z
  <2>4. w = [j \in 1..(1 + last - first) |-> row(j)]
    BY <1>1, <1>5, Zenon
  <2>5. ASSUME NEW j \in 1..(1 + last - first)
        PROVE  w[j] = <<h.dataSectors[first + j], w[j][2]>>
    <3>1. w[j] = row(j)
      BY <2>4, Zenon
    <3> DEFINE v == [bytes |-> [k \in 1..S |-> byte(first + j - 1, k)]]
               f == first
    <3>2. f + j - 1 \in Nat /\ 1 + (f + j - 1) = f + j
      <4>1. f \in Nat
        BY <2>2, Zenon
      <4>2. j \in Nat /\ j >= 1
        BY <2>2
      <4> HIDE DEF f
      <4> QED
        BY <4>1, <4>2
    <3>3. ((f + j - 1) * S) \div S = f + j - 1
      <4> HIDE DEF f
      <4> QED
        BY <3>2, Quotient, Zenon
    <3>4. ByteToSector(h, (f + j - 1) * S) = h.dataSectors[f + j]
      BY <3>2, <3>3, Zenon DEF ByteToSector
    <3>5. w[j] = <<h.dataSectors[f + j], v>>
      BY <3>1, <3>4, Zenon
    <3> HIDE DEF v, f
    <3>6. w[j][2] = v
      BY <3>5
    <3> QED
      BY <3>5, <3>6, Zenon DEF f
  <2>6. ASSUME NEW k \in 1..B
        PROVE  LET q == (k - 1) \div SectorSize IN
               IF q \in first..last
               THEN w[1 + q - first][2].bytes[1 + ((k - 1) % SectorSize)]
                      = NewByte(d, h, text, position, k)
               ELSE k \notin (position + 1)..(position + Len(text))
    <3> DEFINE q == (k - 1) \div S
               r == (k - 1) % S
               inside == k \in (position + 1)..(position + nb)
    <3>1. q \in Nat /\ r \in 0..(S - 1) /\ k - 1 = (q * S) + r /\ k \in Nat
      <4>1. k \in Nat /\ k - 1 \in Nat
        BY <1>2
      <4> QED
        BY <4>1, Placed, Zenon
    <3>2. /\ k \in (position + 1)..(position + Len(text)) <=> inside
          /\ q \notin first..last => k \notin (position + 1)..(position + Len(text))
          /\ q \in first..last /\ ~inside
               => Partial(first, last, firstAligned, lastAligned, q)
      <4>1. Buffered(B, k, Len(text), position, nb)
        <5> HIDE DEF B
        <5> QED
          BY <1>2, <1>3, <2>1, BufferByte, Zenon
      <4> QED
        BY <4>1, Zenon DEF Buffered
    <3>3. ASSUME q \in first..last
          PROVE  w[1 + q - first][2].bytes[1 + r] = NewByte(d, h, text, position, k)
      <4> DEFINE j == 1 + q - first
                 m == 1 + r
      <4>1. /\ j \in 1..(1 + last - first) /\ first + j - 1 = q
            /\ m \in 1..S /\ (q * S) + m = k
        <5> DEFINE t == q * S
                   f == first
                   l == last
        <5>1. /\ f \in Nat /\ l \in Nat /\ q \in f..l /\ t \in Nat /\ k - 1 = t + r
              /\ q \in Nat /\ r \in 0..(S - 1) /\ k \in Nat
          BY <1>2, <2>2, <3>1, <3>3
        <5> HIDE DEF t, f, l, q, r
        <5>2. 1 + q - f \in 1..(1 + l - f) /\ f + (1 + q - f) - 1 = q
          BY <5>1
        <5>3. 1 + r \in 1..S /\ t + (1 + r) = k
          BY <1>2, <5>1
        <5> QED
          BY <5>2, <5>3, Zenon DEF t, f, l
      <4> DEFINE v == [kk \in 1..S |-> byte(q, kk)]
      <4>2. w[j] = <<ByteToSector(h, q * S), [bytes |-> v]>>
        BY <2>4, <4>1, Zenon
      <4>3. v[m] = byte(q, m)
        BY <4>1, Zenon
      <4>4. w[j][2].bytes = v
        <5> DEFINE u == w[j]
                   x == ByteToSector(h, q * S)
        <5>1. u = <<x, [bytes |-> v]>>
          BY <4>2, Zenon
        <5> HIDE DEF v, u, x
        <5>2. u[2].bytes = v
          BY <5>1
        <5> QED
          BY <5>2, Zenon DEF u
      <4>5. byte(q, m) = IF inside THEN text[k - position] ELSE old[k]
        <5>1. k <= B
          BY <1>2
        <5>2. CASE inside
          BY <4>1, <5>2, Zenon
        <5>3. CASE ~inside
          BY <3>2, <3>3, <4>1, <5>1, <5>3, Zenon
        <5> QED
          BY <5>2, <5>3, Zenon
      <4>6. NewByte(d, h, text, position, k) = IF inside THEN text[k - position] ELSE old[k]
        BY <3>2, Zenon DEF NewByte
      <4> QED
        BY <4>3, <4>4, <4>5, <4>6, Zenon
    <3> QED
      BY <3>2, <3>3, Zenon
  <2>7. w = [j \in 1..(1 + last - first) |-> w[j]]
    BY <2>4, Zenon
  <2> HIDE DEF first, last
  <2>8. IsWrite(d, h, text, position, first, last, w)
    BY <2>2, <2>3, <2>5, <2>6, <2>7, Zenon DEF IsWrite
  <2> QED
    BY <2>8, Zenon DEF w
<1> QED
  BY <1>4, <1>5, Zenon

\* The file that Open finds.
LEMMA OpenIs ==
  ASSUME Setting, NEW d, Good(d), NEW n, FindIndex(FetchDir(d), n) # {}
  PROVE  \E i \in Used(d) : NameOf(d, i) = n /\ Open(d, n) = Header(d, i)
<1> DEFINE T == FindIndex(FetchDir(d), n)
<1>1. T \subseteq Nat
  BY DEF FindIndex, Entry
<1>2. Min(T) \in T
  <2> HIDE DEF T
  <2> QED
    BY <1>1, MinIs, Zenon DEF T
<1>3. \A i \in T : i \in Used(d) /\ NameOf(d, i) = n
  BY Zenon DEF FindIndex, Used, NameOf, At
<1>4. Open(d, n) = Header(d, Min(T))
  BY Zenon DEF Open, Header, At
<1> QED
  BY <1>2, <1>3, <1>4, Zenon

\* A change of nothing but a file's data leaves a good disk and the other files.
LEMMA DataOnly ==
  ASSUME Setting, NEW d, Good(d), NEW f \in Used(d), NEW e, IsDisk(e),
         \A s \in Sector \ Range(Header(d, f).dataSectors) : e[s] = d[s]
  PROVE  /\ Good(e) /\ Keeps(d, e, NameOf(d, f)) /\ HeadersAt(e)
         /\ f \in Used(e) /\ NameOf(e, f) = NameOf(d, f) /\ Header(e, f) = Header(d, f)
<1>1. Range(Header(d, f).dataSectors) \subseteq Own(d, f)
  BY Zenon DEF Own
<1>2. {2, 3, 4} \subseteq Sector /\ {2, 3, 4} \cap Own(d, f) = {}
  BY Marked, Zenon
<1>3. e[2] = d[2] /\ e[3] = d[3] /\ e[4] = d[4]
  BY <1>1, <1>2, Zenon
<1>4. /\ \A i \in Entry : At(e, i) = At(d, i) /\ NameOf(e, i) = NameOf(d, i)
      /\ Used(e) = Used(d)
  BY <1>3, SameDir, Zenon
<1>5. ASSUME NEW i \in Used(d)
      PROVE  i \in Entry /\ Header(e, i) = Header(d, i) /\ Own(e, i) = Own(d, i)
  <2>1. i \in Entry /\ At(e, i) = At(d, i)
    BY <1>4, Zenon DEF Used
  <2>2. At(d, i) \in Sector /\ At(d, i) \in Own(d, i)
    BY OwnSectors, Zenon DEF Own
  <2>3. At(d, i) \notin Range(Header(d, f).dataSectors)
    <3>1. CASE i = f
      BY <3>1, Zenon DEF Good, FilesApart
    <3>2. CASE i # f
      <4>1. Own(d, i) \cap Own(d, f) = {}
        BY <3>2, Zenon DEF Good, FilesApart
      <4> QED
        BY <1>1, <2>2, <4>1, Zenon
    <3> QED
      BY <3>1, <3>2, Zenon
  <2>4. Header(e, i) = Header(d, i)
    BY <2>1, <2>2, <2>3, Zenon DEF Header
  <2> QED
    BY <2>1, <2>4, Zenon DEF Own
<1>6. FilesApart(e)
  <2>1. ASSUME NEW i \in Used(e)
        PROVE  /\ IsHeader(Header(e, i))
               /\ At(e, i) \notin Range(Header(e, i).dataSectors)
               /\ Own(e, i) \cap SystemSectors = {}
    <3>1. i \in Used(d) /\ At(e, i) = At(d, i) /\ Header(e, i) = Header(d, i) /\ Own(e, i) = Own(d, i)
      BY <1>4, <1>5, Zenon
    <3> QED
      BY <3>1, Zenon DEF Good, FilesApart
  <2>2. ASSUME NEW i \in Used(e), NEW j \in Used(e), i # j
        PROVE  Own(e, i) \cap Own(e, j) = {}
    <3>1. i \in Used(d) /\ j \in Used(d) /\ Own(e, i) = Own(d, i) /\ Own(e, j) = Own(d, j)
      BY <1>4, <1>5, Zenon
    <3> QED
      BY <2>2, <3>1, Zenon DEF Good, FilesApart
  <2> QED
    BY <2>1, <2>2, Zenon DEF FilesApart
<1>7. NamesApart(e)
  <2>1. \A i \in Used(d) : i \in Entry
    BY <1>5, Zenon
  <2> QED
    BY <1>4, <2>1, Zenon DEF Good, NamesApart
<1>8. MapExact(e)
  <2>1. {Own(e, i) : i \in Used(e)} = {Own(d, i) : i \in Used(d)}
    BY <1>4, <1>5, Zenon
  <2> QED
    BY <1>3, <2>1, Zenon DEF Good, MapExact, MapData
<1>9. Good(e)
  BY <1>4, <1>6, <1>7, <1>8, Zenon DEF Good
<1>10. Keeps(d, e, NameOf(d, f))
  <2>1. ASSUME NEW i \in Used(d), NameOf(d, i) # NameOf(d, f)
        PROVE  /\ At(e, i) = At(d, i) /\ NameOf(e, i) = NameOf(d, i)
               /\ \A j \in Used(e) : NameOf(e, j) = NameOf(d, i) => i <= j
               /\ \A s \in Own(d, i) : e[s] = d[s]
    <3>1. At(e, i) = At(d, i) /\ NameOf(e, i) = NameOf(d, i) /\ i # f
      BY <1>4, <1>5, <2>1, Zenon
    <3>2. i <= i
      BY DEF Used, Entry
    <3>3. \A j \in Used(e) : NameOf(e, j) = NameOf(d, i) => i <= j
      BY <1>4, <1>5, <3>2, Zenon DEF Good, NamesApart
    <3>4. Own(d, i) \subseteq Sector /\ Own(d, i) \cap Own(d, f) = {}
      BY <3>1, OwnSectors, Zenon DEF Good, FilesApart
    <3> QED
      BY <1>1, <3>1, <3>3, <3>4, Zenon
  <2> QED
    BY <2>1, Zenon DEF Keeps
<1> QED
  BY <1>4, <1>5, <1>9, <1>10, GoodHeaders, Zenon

\* The writes w are to the sectors first to last of the file with header h.
Listed(h, first, last, w) ==
  /\ Writes(w) /\ Len(w) = 1 + last - first
  /\ \A j \in 1..Len(w) : /\ first + j \in 1..SectorsFor(h.numBytes)
                          /\ w[j][1] = h.dataSectors[first + j]

\* The sectors that WriteAt writes are the file's, each once.
LEMMA WriteList ==
  ASSUME Setting, NEW d, NEW h, IsHeader(h), NEW text, NEW position, NEW first, NEW last,
         NEW w, IsWrite(d, h, text, position, first, last, w)
  PROVE  Listed(h, first, last, w)
<1> DEFINE N == 1 + last - first
           Z == SectorsFor(h.numBytes)
           V == {w[j][2] : j \in DOMAIN w}
           D == h.dataSectors
<1>1. /\ first \in Nat /\ last \in Nat /\ first <= last /\ last + 1 <= Z
      /\ w = [j \in 1..N |-> w[j]]
      /\ \A j \in 1..N : w[j] = <<D[first + j], w[j][2]>>
  BY Zenon DEF IsWrite
<1>2. Z \in Nat /\ D \in [1..Z -> Sector] /\ \A j, k \in 1..Z : D[j] = D[k] => j = k
  BY SectorsAre, Zenon DEF IsHeader
<1>3. N \in Nat /\ \A j \in 1..N : j \in Nat /\ first + j \in 1..Z
  <2> HIDE DEF Z
  <2> QED
    BY <1>1, <1>2
<1>4. DOMAIN w = 1..N
  <2> HIDE DEF N
  <2> QED
    BY <1>1, Zenon
<1>5. \A j \in 1..N : w[j][2] \in V
  BY <1>4, Zenon
<1> HIDE DEF N, Z, V, D
<1>6. \A j \in 1..N : w[j] \in Sector \X V /\ w[j][1] = D[first + j]
  <2> SUFFICES ASSUME NEW j \in 1..N
               PROVE  w[j] \in Sector \X V /\ w[j][1] = D[first + j]
    BY Zenon
  <2> DEFINE v == w[j][2]
             u == w[j]
             a == D[first + j]
  <2>1. u = <<a, v>> /\ a \in Sector /\ v \in V
    BY <1>1, <1>2, <1>3, <1>5, Zenon
  <2> HIDE DEF u, v, a
  <2>2. u \in Sector \X V /\ u[1] = a
    BY <2>1
  <2> QED
    BY <2>2, Zenon DEF u, a
<1>7. w \in [1..N -> Sector \X V]
  BY <1>1, <1>6, Zenon
<1>8. w \in Seq(Sector \X V) /\ Len(w) = N
  BY <1>3, <1>7
<1>9. ASSUME NEW i \in 1..N, NEW j \in 1..N, w[i][1] = w[j][1]
      PROVE  i = j
  <2>1. first + i = first + j
    BY <1>2, <1>3, <1>6, <1>9, Zenon
  <2>2. i \in Nat /\ j \in Nat /\ first \in Nat
    BY <1>1, <1>3, Zenon
  <2> QED
    BY <2>1, <2>2
<1>10. Writes(w)
  BY <1>8, <1>9, Zenon DEF Writes, V
<1> QED
  BY <1>3, <1>6, <1>8, <1>10, Zenon DEF Listed, N, Z, D

\* The bytes of the file when all its sectors are written.
LEMMA WriteBytes ==
  ASSUME Setting, NEW d, NEW h, IsHeader(h), NEW text, NEW position, NEW first, NEW last,
         NEW w, IsWrite(d, h, text, position, first, last, w),
         NEW e, IsAfter(d, w, Len(w), e)
  PROVE  Content(e, h) = [k \in 1..h.numBytes |-> NewByte(d, h, text, position, k)]
<1>1. ASSUME NEW k \in 1..h.numBytes
      PROVE  e[ByteToSector(h, k - 1)].bytes[1 + ((k - 1) % SectorSize)]
               = NewByte(d, h, text, position, k)
  <2> DEFINE q == (k - 1) \div SectorSize
             s == h.dataSectors[1 + q]
             r == 1 + ((k - 1) % SectorSize)
             Z == SectorsFor(h.numBytes)
  <2>1. 1 + q \in 1..Z /\ q \in Nat /\ ByteToSector(h, k - 1) = s
    <3>1. h.numBytes \in Nat
      BY Zenon DEF IsHeader
    <3>2. k - 1 \in Nat
      BY <3>1
    <3> QED
      BY <3>1, <3>2, SectorsAre, Placed, Zenon DEF ByteToSector
  <2>2. /\ IF q \in first..last THEN w[1 + q - first][2].bytes[r] = NewByte(d, h, text, position, k)
                                ELSE k \notin (position + 1)..(position + Len(text))
        /\ first \in Nat /\ last \in Nat
    BY Zenon DEF IsWrite
  <2>3. /\ Len(w) = 1 + last - first
        /\ \A j \in 1..Len(w) : first + j \in 1..Z /\ w[j][1] = h.dataSectors[first + j]
    <3>1. Listed(h, first, last, w)
      BY WriteList, Zenon
    <3> QED
      BY <3>1, Zenon DEF Listed
  <2>4. h.dataSectors \in [1..Z -> Sector] /\ \A i, j \in 1..Z : h.dataSectors[i] = h.dataSectors[j] => i = j
    BY Zenon DEF IsHeader
  <2> HIDE DEF q, Z
  <2>5. CASE q \in first..last
    <3> DEFINE j == 1 + q - first
    <3>1. j \in 1..Len(w) /\ first + j = 1 + q
      BY <2>1, <2>2, <2>3, <2>5
    <3>2. e[s] = w[j][2]
      BY <2>3, <3>1, Zenon DEF IsAfter
    <3> QED
      BY <2>1, <2>2, <2>5, <3>2, Zenon
  <2>6. CASE q \notin first..last
    <3>1. \A j \in 1..Len(w) : first + j # 1 + q
      BY <2>1, <2>2, <2>3, <2>6
    <3>2. \A j \in 1..Len(w) : w[j][1] # s
      BY <2>1, <2>3, <2>4, <3>1, Zenon
    <3>3. e[s] = d[s]
      BY <2>1, <2>4, <3>2, Zenon DEF IsAfter
    <3>4. NewByte(d, h, text, position, k) = d[ByteToSector(h, k - 1)].bytes[r]
      BY <2>2, <2>6, Zenon DEF NewByte, Content
    <3> QED
      BY <2>1, <3>3, <3>4, Zenon
  <2> QED
    BY <2>5, <2>6, Zenon
<1> QED
  BY <1>1, Zenon DEF Content

\* The bytes of file n of e are those of d with text written at position.
Wrote(d, e, n, text, position) ==
  Files(e)[n].bytes =
    [k \in DOMAIN Files(d)[n].bytes |->
       IF k \in (position + 1)..(position + Len(text))
       THEN text[k - position] ELSE Files(d)[n].bytes[k]]

\* WriteAt may stop anywhere, and all of it leaves a good disk and the right bytes.
LEMMA WriteSafe ==
  ASSUME Setting, NEW d, Good(d), NEW n, FindIndex(FetchDir(d), n) # {},
         NEW text, Len(text) \in Nat, NEW position \in Nat
  PROVE  LET w == WriteAt(d, Open(d, n), text, position) IN
         /\ Safe(d, w, n)
         /\ \A e : IsAfter(d, w, Len(w), e) => Wrote(d, e, n, text, position)
<1>1. PICK f \in Used(d) : NameOf(d, f) = n /\ Open(d, n) = Header(d, f)
  BY OpenIs, Zenon
<1> DEFINE h == Header(d, f)
           w == WriteAt(d, h, text, position)
           rec(e) == [at |-> At(e, f), hdr |-> Header(e, f), bytes |-> Content(e, Header(e, f))]
<1>2. IsHeader(h)
  BY Zenon DEF Good, FilesApart
<1>3. DOMAIN Content(d, h) = 1..h.numBytes
  BY Zenon DEF Content
<1>4. ASSUME NEW e, Good(e), f \in Used(e), NameOf(e, f) = n, Header(e, f) = h
      PROVE  Files(e)[n].bytes = Content(e, h)
  <2>1. Files(e)[n] = rec(e)
    BY <1>4, GoodFile, Zenon
  <2>2. rec(e).bytes = Content(e, Header(e, f))
    OBVIOUS
  <2> QED
    BY <1>4, <2>1, <2>2, Zenon
<1>5. Files(d)[n].bytes = Content(d, h)
  BY <1>1, <1>4, Zenon
<1>6. ASSUME NEW e, Files(e)[n].bytes = [k \in 1..h.numBytes |-> NewByte(d, h, text, position, k)]
      PROVE  Wrote(d, e, n, text, position)
  BY <1>3, <1>5, <1>6, Zenon DEF Wrote, NewByte
<1>7. \/ /\ w = <<>>
         /\ \A k \in 1..h.numBytes : k \notin (position + 1)..(position + Len(text))
      \/ \E first, last : IsWrite(d, h, text, position, first, last, w)
  BY <1>2, WriteIs, Zenon
<1>8. CASE /\ w = <<>>
           /\ \A k \in 1..h.numBytes : k \notin (position + 1)..(position + Len(text))
  <2>1. Safe(d, w, n)
    BY <1>8, NoWrites, Zenon
  <2>2. ASSUME NEW e, IsAfter(d, w, Len(w), e)
        PROVE  Wrote(d, e, n, text, position)
    <3>1. Len(w) = 0
      <4>1. Len(<<>>) = 0
        OBVIOUS
      <4> QED
        BY <1>8, <4>1, Zenon
    <3>2. e = d
      BY <2>2, <3>1, AfterNone, Zenon DEF Good
    <3>3. Content(d, h) = [k \in 1..h.numBytes |-> NewByte(d, h, text, position, k)]
      <4>1. \A k \in 1..h.numBytes : NewByte(d, h, text, position, k) = Content(d, h)[k]
        BY <1>8, Zenon DEF NewByte
      <4>2. Content(d, h) = [k \in 1..h.numBytes |-> Content(d, h)[k]]
        BY Zenon DEF Content
      <4> QED
        BY <4>1, <4>2, Zenon
    <3> QED
      BY <1>5, <1>6, <3>2, <3>3, Zenon
  <2> QED
    BY <1>1, <2>1, <2>2, Zenon
<1>9. ASSUME NEW first, NEW last, IsWrite(d, h, text, position, first, last, w)
      PROVE  Safe(d, w, n) /\ \A e : IsAfter(d, w, Len(w), e) => Wrote(d, e, n, text, position)
  <2> HIDE DEF w
  <2>1. /\ Writes(w)
        /\ \A j \in 1..Len(w) : /\ first + j \in 1..SectorsFor(h.numBytes)
                                /\ w[j][1] = h.dataSectors[first + j]
    <3> HIDE DEF h
    <3>1. Listed(h, first, last, w)
      BY <1>2, <1>9, WriteList, Zenon
    <3> QED
      BY <3>1, Zenon DEF Listed
  <2>2. Len(w) \in Nat /\ \A j \in 1..Len(w) : w[j][1] \in Range(h.dataSectors)
    <3>1. Len(w) \in Nat
      BY <2>1 DEF Writes
    <3>2. DOMAIN h.dataSectors = 1..SectorsFor(h.numBytes)
      BY <1>2, Zenon DEF IsHeader
    <3> QED
      BY <2>1, <3>1, <3>2, Zenon DEF Range
  <2>3. ASSUME NEW k \in 0..Len(w), NEW e, IsAfter(d, w, k, e)
        PROVE  /\ Good(e) /\ Keeps(d, e, n) /\ HeadersAt(e)
               /\ f \in Used(e) /\ NameOf(e, f) = n /\ Header(e, f) = h
    <3>1. \A j \in 1..k : j \in 1..Len(w)
      BY <2>2
    <3>2. \A s \in Sector \ Range(h.dataSectors) : e[s] = d[s]
      BY <2>2, <2>3, <3>1, Zenon DEF IsAfter
    <3>3. IsDisk(e)
      BY <2>3, Zenon DEF IsAfter
    <3> QED
      BY <1>1, <3>2, <3>3, DataOnly
  <2>4. Len(w) \in 0..Len(w)
    BY <2>2
  <2>5. Safe(d, w, n)
    BY <2>1, <2>3, <2>4, Zenon DEF Safe
  <2>6. ASSUME NEW e, IsAfter(d, w, Len(w), e)
        PROVE  Wrote(d, e, n, text, position)
    <3>1. Content(e, h) = [k \in 1..h.numBytes |-> NewByte(d, h, text, position, k)]
      <4> HIDE DEF h
      <4> QED
        BY <1>2, <1>9, <2>6, WriteBytes
    <3>2. Files(e)[n].bytes = Content(e, h)
      BY <1>4, <2>3, <2>4, <2>6, Zenon
    <3> QED
      BY <1>6, <3>1, <3>2, Zenon
  <2> QED
    BY <2>5, <2>6, Zenon
<1> QED
  BY <1>1, <1>7, <1>8, <1>9, Zenon

-----------------------------------------------------------------------------
(* The disk the constructor makes.                                         *)

\* A formatted disk without files.
LEMMA FreshGood ==
  ASSUME Setting, NEW d, IsDisk(d), d[MapData] = SystemSectors
  PROVE  Good(Written(d, DirWrites(Directory)))
<1> DEFINE w == DirWrites(Directory)
           e == Written(d, w)
           A == DirSector(Directory, 1..Straddler, 1..(Straddler - 1))
           B == DirSector(Directory, (Straddler + 1)..NumDirEntries, Straddler..NumDirEntries)
<1>1. w = << <<3, A>>, <<4, B>> >>
  BY DEF DirWrites, DirData
<1> HIDE DEF A, B
<1>2. w[1] = <<3, A>> /\ w[2] = <<4, B>> /\ DOMAIN w = 1..2 /\ Len(w) = 2
  <2> HIDE DEF w
  <2> QED
    BY <1>1
<1> HIDE DEF w
<1>3. 2 \in Sector /\ 3 \in Sector /\ 4 \in Sector
  BY DEF Sector, Setting
<1>4. Writes(w)
  <2> DEFINE V == {w[j][2] : j \in DOMAIN w}
  <2>1. A \in V /\ B \in V
    BY <1>2
  <2> HIDE DEF V
  <2>2. w \in Seq(Sector \X V)
    BY <1>1, <1>3, <2>1
  <2>3. \A i, j \in 1..Len(w) : w[i][1] = w[j][1] => i = j
    BY <1>2
  <2> QED
    BY <2>2, <2>3, Zenon DEF Writes, V
<1>5. IsAfter(d, w, 2, e)
  BY <1>2, <1>4, AfterAll, Zenon
<1> HIDE DEF e
<1>6. e[3] = w[1][2] /\ e[4] = w[2][2] /\ e[2] = d[2] /\ IsDisk(e)
  <2>1. 1 \in 1..2 /\ 2 \in 1..2 /\ \A j \in 1..2 : j = 1 \/ j = 2
    OBVIOUS
  <2>2. w[1][1] = 3 /\ w[2][1] = 4 /\ w[1][1] # 2 /\ w[2][1] # 2
    BY <1>2
  <2>3. e[w[1][1]] = w[1][2] /\ e[w[2][1]] = w[2][2] /\ IsDisk(e)
    BY <1>5, <2>1, Zenon DEF IsAfter
  <2>4. e[2] = d[2]
    BY <1>3, <1>5, <2>1, <2>2, Zenon DEF IsAfter
  <2> QED
    BY <2>2, <2>3, <2>4, Zenon
<1>7. ASSUME NEW i \in Entry
      PROVE  At(e, i) = -1
  <2>1. At(e, i) = Directory[i].at
    BY <1>6, DirMixed DEF w
  <2>2. Directory[i] = [at |-> -1, name |-> NoName]
    BY Zenon DEF Directory
  <2>3. Directory[i].at = -1
    BY <2>2
  <2> QED
    BY <2>1, <2>3, Zenon
<1>8. Used(e) = {}
  <2>1. ~(-1 >= 0)
    OBVIOUS
  <2> QED
    BY <1>7, <2>1, Zenon DEF Used
<1>9. FilesApart(e) /\ NamesApart(e)
  BY <1>8, Zenon DEF FilesApart, NamesApart
<1>10. MapExact(e)
  <2>1. UNION {Own(e, i) : i \in Used(e)} = {}
    BY <1>8, Zenon
  <2>2. e[MapData] = SystemSectors
    BY <1>6, Zenon DEF MapData
  <2> DEFINE X == UNION {Own(e, i) : i \in Used(e)}
  <2>3. X = {}
    BY <2>1, Zenon
  <2> HIDE DEF X
  <2>4. e[MapData] = SystemSectors \cup X
    BY <2>2, <2>3
  <2> QED
    BY <2>4, Zenon DEF MapExact, X
<1> QED
  BY <1>6, <1>7, <1>9, <1>10, Zenon DEF Good, e, w

\* All the writes of an operation that is safe leave a good disk.
LEMMA SafeGood ==
  ASSUME NEW d, NEW w, NEW n, Safe(d, w, n)
  PROVE  Good(Written(d, w))
BY AfterAll, Zenon DEF Safe

\* The constructor leaves a good disk, with the files of the console.
LEMMA FormattedGood ==
  ASSUME Setting
  PROVE  Good(Formatted)
<1> DEFINE in(s) ==
             CASE s = FreeMapSector -> [numBytes |-> SectorSize, dataSectors |-> <<MapData>>]
               [] s = DirectorySector -> [numBytes |-> 2 * SectorSize, dataSectors |-> DirData]
               [] s = MapData -> SystemSectors
               [] OTHER -> [bytes |-> [k \in 1..SectorSize |-> Garbage]]
           blank == [s \in Sector |-> in(s)]
           fresh == Written(blank, DirWrites(Directory))
           one   == Written(fresh, CreateWrites(fresh, Stdin, 0))
           two   == Written(one, CreateWrites(one, Stdout, 0))
<1>1. two = Formatted
  BY Zenon DEF Formatted
<1>2. IsDisk(blank) /\ blank[MapData] = SystemSectors
  <2>1. IsDisk(blank)
    <3> HIDE DEF in
    <3> QED
      BY Zenon DEF IsDisk
  <2>2. MapData \in Sector /\ MapData # FreeMapSector /\ MapData # DirectorySector
    BY DEF Sector, Setting, MapData, FreeMapSector, DirectorySector
  <2>3. blank[MapData] = SystemSectors
    BY <2>2, Zenon
  <2> QED
    BY <2>1, <2>3, Zenon
<1> HIDE DEF blank
<1>3. Good(fresh)
  BY <1>2, FreshGood, Zenon
<1>4. 0 \in Nat
  OBVIOUS
<1> HIDE DEF fresh
<1>5. Good(one)
  BY <1>3, <1>4, CreateSafe, SafeGood, Zenon
<1> HIDE DEF one
<1>6. Good(two)
  BY <1>4, <1>5, CreateSafe, SafeGood, Zenon
<1> QED
  BY <1>1, <1>6, Zenon

-----------------------------------------------------------------------------
(* The invariant of the system.                                            *)

\* The operation under way began on the good disk d and has made k of its writes w.
\* A machine that has stopped has dropped the rest.
Between(d, w, k) ==
  /\ Good(d) /\ before = Files(d)
  /\ Safe(d, w, op.name)
  /\ op.kind = "write" => \A e : IsAfter(d, w, Len(w), e)
                                   => Wrote(d, e, op.name, op.text, op.position)
  /\ k \in 0..Len(w)
  /\ IsAfter(d, w, k, disk)
  /\ queue = IF stopped THEN <<>> ELSE SubSeq(w, k + 1, Len(w))

FsInv == stopped \in BOOLEAN /\ \E d, w, k : Between(d, w, k)

\* The constructor establishes the invariant.
LEMMA FsInvInit ==
  ASSUME Setting, Init
  PROVE  FsInv
<1>1. disk = Formatted /\ queue = <<>> /\ before = Files(disk) /\ stopped = FALSE
  BY Zenon DEF Init
<1>2. Good(disk)
  BY <1>1, FormattedGood, Zenon
<1>3. op.kind # "write"
  BY DEF Init, Op
<1>4. Len(<<>>) = 0 /\ 0 \in 0..0 /\ SubSeq(<<>>, 0 + 1, 0) = <<>>
  OBVIOUS
<1>5. IsAfter(disk, <<>>, 0, disk)
  BY <1>2, AfterNone, Zenon DEF Good
<1>6. Safe(disk, <<>>, op.name)
  BY <1>2, NoWrites, Zenon
<1>7. Between(disk, <<>>, 0)
  BY <1>1, <1>2, <1>3, <1>4, <1>5, <1>6, Zenon DEF Between
<1> QED
  BY <1>1, <1>7, Zenon DEF FsInv

\* Between operations the disk is good.
LEMMA Settled ==
  ASSUME NEW d, NEW w, NEW k, Between(d, w, k), queue = <<>>, ~stopped
  PROVE  k = Len(w) /\ Good(disk)
<1> DEFINE V == Sector \X {w[j][2] : j \in DOMAIN w}
<1>1. w \in Seq(V) /\ k \in 0..Len(w) /\ queue = SubSeq(w, k + 1, Len(w))
  BY Zenon DEF Between, Safe, Writes
<1> HIDE DEF V
<1>2. k = Len(w)
  BY <1>1, Suffix, Zenon
<1> QED
  BY <1>2, Zenon DEF Between, Safe

\* An operation that begins between operations, with writes that are safe.
LEMMA BeginInv ==
  ASSUME FsInv, NEW o, NEW w, Begin(o, w), Good(disk) => Safe(disk, w, o.name),
         Good(disk) /\ o.kind = "write" =>
           \A e : IsAfter(disk, w, Len(w), e) => Wrote(disk, e, o.name, o.text, o.position)
  PROVE  FsInv'
<1>1. /\ ~stopped /\ queue = <<>> /\ op' = o /\ queue' = w
      /\ before' = Files(disk) /\ disk' = disk /\ stopped' = stopped
  BY Zenon DEF Begin
<1>2. Good(disk)
  BY <1>1, Settled, Zenon DEF FsInv
<1>3. Safe(disk, w, o.name)
  BY <1>2, Zenon
<1>4. IsAfter(disk, w, 0, disk)
  BY <1>2, AfterNone, Zenon DEF Good
<1> DEFINE V == Sector \X {w[j][2] : j \in DOMAIN w}
<1>5. w \in Seq(V)
  BY <1>3, Zenon DEF Safe, Writes
<1> HIDE DEF V
<1>6. 0 \in 0..Len(w) /\ 0 + 1 = 1
  BY <1>5
<1>7. SubSeq(w, 0 + 1, Len(w)) = w
  BY <1>5, <1>6, WholeSuffix, Zenon
<1>8. Between(disk, w, 0)'
  BY <1>1, <1>2, <1>3, <1>4, <1>6, <1>7, Zenon DEF Between
<1> QED
  BY <1>1, <1>8, Zenon DEF FsInv

\* One more sector is written.
LEMMA WriteSectorInv ==
  ASSUME FsInv, WriteSector
  PROVE  FsInv'
<1>1. /\ ~stopped /\ queue # <<>> /\ disk' = [disk EXCEPT ![Head(queue)[1]] = Head(queue)[2]]
      /\ queue' = Tail(queue) /\ op' = op /\ before' = before /\ stopped' = stopped
  BY Zenon DEF WriteSector
<1>2. PICK d, w, k : Between(d, w, k)
  BY Zenon DEF FsInv
<1> DEFINE V == Sector \X {w[j][2] : j \in DOMAIN w}
<1>3. w \in Seq(V) /\ k \in 0..Len(w) /\ queue = SubSeq(w, k + 1, Len(w)) /\ Writes(w)
  BY <1>1, <1>2, Zenon DEF Between, Safe, Writes
<1> HIDE DEF V
<1>4. k + 1 <= Len(w) /\ Head(queue) = w[k + 1] /\ Tail(queue) = SubSeq(w, (k + 1) + 1, Len(w))
  BY <1>1, <1>3, Suffix, Zenon
<1>5. k \in Nat /\ k + 1 \in 0..Len(w)
  BY <1>3, <1>4
<1>6. IsAfter(d, w, k, disk)
  BY <1>2, Zenon DEF Between
<1>7. IsAfter(d, w, k + 1, disk')
  BY <1>1, <1>3, <1>4, <1>5, <1>6, AfterNext, Zenon
<1>8. /\ Good(d) /\ before = Files(d)
      /\ Safe(d, w, op.name)
      /\ op.kind = "write" => \A e : IsAfter(d, w, Len(w), e)
                                       => Wrote(d, e, op.name, op.text, op.position)
  BY <1>2, Zenon DEF Between
<1>9. Between(d, w, k + 1)'
  BY <1>1, <1>4, <1>5, <1>7, <1>8, Zenon DEF Between
<1> QED
  BY <1>1, <1>9, Zenon DEF FsInv

\* The machine stops: the writes that are left are lost.
LEMMA StopInv ==
  ASSUME FsInv, Stop
  PROVE  FsInv'
<1>1. stopped' = TRUE /\ queue' = <<>> /\ disk' = disk /\ op' = op /\ before' = before
  BY Zenon DEF Stop
<1>2. PICK d, w, k : Between(d, w, k)
  BY Zenon DEF FsInv
<1>3. Between(d, w, k)'
  BY <1>1, <1>2, Zenon DEF Between
<1>4. stopped' \in BOOLEAN
  BY <1>1, Zenon
<1> QED
  BY <1>3, <1>4, Zenon DEF FsInv

\* Every step keeps the invariant.
LEMMA FsInvNext ==
  ASSUME Setting, FsInv, [Next]_vars
  PROVE  FsInv'
<1>1. CASE WriteSector
  BY <1>1, WriteSectorInv, Zenon
<1>2. CASE Stop
  BY <1>2, StopInv, Zenon
<1>3. ASSUME NEW n, RemoveFile(n)
      PROVE  FsInv'
  <2> DEFINE o == Op("remove", n, <<>>, 0)
  <2>1. o.name = n /\ o.kind # "write"
    BY DEF Op
  <2> HIDE DEF o
  <2>2. Begin(o, RemoveWrites(disk, n))
    BY <1>3, Zenon DEF RemoveFile, o
  <2>3. Good(disk) => Safe(disk, RemoveWrites(disk, n), n)
    BY RemoveSafe, Zenon
  <2> QED
    BY <2>1, <2>2, <2>3, BeginInv, Zenon
<1>4. ASSUME NEW n, NEW size \in FileSizes, Create(n, size)
      PROVE  FsInv'
  <2> DEFINE o == Op("create", n, <<>>, 0)
  <2>1. o.name = n /\ o.kind # "write"
    BY DEF Op
  <2> HIDE DEF o
  <2>2. Begin(o, CreateWrites(disk, n, size))
    BY <1>4, Zenon DEF Create, o
  <2>3. Good(disk) => Safe(disk, CreateWrites(disk, n, size), n)
    BY CreateSafe, Zenon DEF Setting
  <2> QED
    BY <2>1, <2>2, <2>3, BeginInv, Zenon
<1>5. ASSUME NEW n, NEW text \in Texts, NEW position \in FileSizes, Write(n, text, position)
      PROVE  FsInv'
  <2> DEFINE o == Op("write", n, text, position)
             w == WriteAt(disk, Open(disk, n), text, position)
  <2>1. o.name = n /\ o.text = text /\ o.position = position
    BY DEF Op
  <2> HIDE DEF o
  <2>2. Begin(o, w) /\ FindIndex(FetchDir(disk), n) # {}
    BY <1>5, Zenon DEF Write, o
  <2>3. Len(text) \in Nat /\ position \in Nat
    BY Zenon DEF Setting
  <2>4. Good(disk) => /\ Safe(disk, w, n)
                      /\ \A e : IsAfter(disk, w, Len(w), e) => Wrote(disk, e, n, text, position)
    BY <2>2, <2>3, WriteSafe, Zenon
  <2> HIDE DEF w
  <2> QED
    BY <2>1, <2>2, <2>4, BeginInv, Zenon
<1>6. CASE UNCHANGED vars
  BY <1>6, Zenon DEF vars, FsInv, Between
<1> QED
  BY <1>1, <1>2, <1>3, <1>4, <1>5, <1>6, Zenon DEF Next

\* What the invariant says.
LEMMA FsInvSafe ==
  ASSUME Setting, FsInv
  PROVE  Consistent /\ OthersKept /\ HeadersFirst /\ WriteExact
<1>1. PICK d, w, k : Between(d, w, k)
  BY Zenon DEF FsInv
<1>2. Keeps(d, disk, op.name) /\ HeadersAt(disk) /\ Good(d) /\ before = Files(d)
  BY <1>1, Zenon DEF Between, Safe
<1>3. Consistent
  <2>1. CASE queue = <<>> /\ ~stopped
    BY <1>1, <2>1, Settled, GoodConsistent, Zenon
  <2>2. CASE ~(queue = <<>> /\ ~stopped)
    BY <2>2, Zenon DEF Consistent
  <2> QED
    BY <2>1, <2>2, Zenon
<1>4. OthersKept
  <2> SUFFICES ASSUME NEW n \in DOMAIN before \ {op.name}
               PROVE  n \in DOMAIN Files(disk) /\ Files(disk)[n] = before[n]
    BY Zenon DEF OthersKept
  <2>1. n \in DOMAIN Files(d) /\ n # op.name
    BY <1>2, Zenon
  <2>2. n \in DOMAIN Files(disk) /\ Files(disk)[n] = Files(d)[n]
    BY <1>2, <2>1, KeepsFiles
  <2> QED
    BY <1>2, <2>2, Zenon
<1>5. HeadersFirst
  BY <1>2, Zenon DEF HeadersFirst, HeadersAt, Used, Header, At
<1>6. WriteExact
  <2> SUFFICES ASSUME op.kind = "write", queue = <<>>, ~stopped
               PROVE  Wrote(d, disk, op.name, op.text, op.position)
    BY <1>2, Zenon DEF WriteExact, Wrote
  <2>1. k = Len(w)
    BY <1>1, Settled, Zenon
  <2> QED
    BY <1>1, <2>1, Zenon DEF Between
<1> QED
  BY <1>3, <1>4, <1>5, <1>6, Zenon

\* FileSystem's four promises, on a disk of any size, with a directory of any length and
\* files of any size: between operations the free map, the headers and the directory
\* agree; an operation that is under way or was cut off has left every other file as it
\* was; a name of the directory leads to a header at every moment; and a write changes
\* the bytes it names and no other.
THEOREM FileSystemSafe ==
  ASSUME Setting
  PROVE  Spec => [](Consistent /\ OthersKept /\ HeadersFirst /\ WriteExact)
<1>1. Init => FsInv
  BY FsInvInit, Zenon
<1>2. FsInv /\ [Next]_vars => FsInv'
  BY FsInvNext, Zenon
<1>3. FsInv => Consistent /\ OthersKept /\ HeadersFirst /\ WriteExact
  BY FsInvSafe, Zenon
<1> QED
  BY <1>1, <1>2, <1>3, PTL DEF Spec
=============================================================================
