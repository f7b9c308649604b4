-------------------------- MODULE FileTableProofs --------------------------
(***************************************************************************)
(* Proofs about the files of processes, for any processes, names, slots,   *)
(* buffers, sizes and positions: the kernel and UNIX agree on every        *)
(* position up to the slip of a size -1, a file is open at most once, and  *)
(* the calls do what module Files promises but for the named departures.   *)
(***************************************************************************)
EXTENDS FileTable, WellFoundedInduction, TLAPS

-----------------------------------------------------------------------------
(* The hypothesis and the invariant.                                       *)

Reading == UNION {Reads(n) : n \in Name}
Handle == [name : Name, reads : Reading, type : 0..3, at : Nat,
           currentOffset : Nat \cup {-1}]
Table == [Slot -> Handle \cup {NoHandle}]

\* What the kernel gives: two console files with names of their own, whose ids
\* are in the table; files are bytes; and the two NULLs are nothing else.
Setting ==
  /\ NumSlots \in Nat /\ NumSlots >= 2
  /\ Stdin \in Name /\ Stdout \in Name /\ Stdin # Stdout
  /\ Nul \in Byte
  /\ NoFile \notin Seq(Byte)
  /\ \A n \in Name \ {Stdin, Stdout} : Existing[n] \in Seq(Byte) \cup {NoFile}
  /\ Buffers \subseteq Seq(Byte) /\ Sizes \subseteq Int /\ Positions \subseteq Int
  /\ NoHandle \notin Handle /\ NoHandle \notin Table
  /\ NoHandle \notin [name : Name, type : 0..3, pos : Nat]

Types ==
  /\ file \in [Name -> Seq(Byte) \cup {NoFile}]
  /\ table \in [Proc -> Table \cup {NoHandle}]

\* UNIX has the file of every handle: nothing removes a file.
Backed ==
  \A p \in Proc, i \in Slot : Alive(p) /\ IsOpen(p, i) => file[table[p][i].name] # NoFile

\* The two positions of a handle, as OffsetsAgree has them.
Agree(h) == \/ h.currentOffset = h.at
            \/ -1 \in Sizes /\ h.currentOffset = h.at - 1

\* The step is one of Files, or a departure, or leaves what Files sees alone.
Allowed == F!Next \/ Departs \/ UNCHANGED F!vars

Structure == Types /\ Backed /\ OffsetsAgree /\ ConsoleStays /\ OpenOnce

\* A leaf is given half a minute.
USE SMTT(30)

-----------------------------------------------------------------------------
(* The operators of the model.                                             *)

\* A set of natural numbers that is not empty has a least element.
LEMMA MinIn ==
  ASSUME NEW T, T \subseteq Nat, T # {}
  PROVE  Min(T) \in T /\ \A y \in T : Min(T) <= y
<1> DEFINE R == {ss \in Nat \X Nat : ss[1] < ss[2]}
<1>1. IsWellFoundedOn(R, Nat)
  BY NatLessThanWellFounded, Zenon DEF OpToRel
<1>2. PICK x \in T : \A y \in T : ~(<<y, x>> \in R)
  BY <1>1, WFMin, Zenon
<1>3. \A y \in T : x <= y
  <2> TAKE y \in T
  <2>1. x \in Nat /\ y \in Nat
    BY Zenon
  <2>2. y < x => <<y, x>> \in R
    BY <2>1, Zenon
  <2> QED
    BY <1>2, <2>1, <2>2
<1> QED
  BY <1>3, Zenon DEF Min

\* The lesser and the greater of two numbers.
LEMMA TwoOf ==
  ASSUME NEW a \in Int, NEW b \in Int
  PROVE  /\ Min({a, b}) = IF a <= b THEN a ELSE b
         /\ Max({a, b}) = IF a >= b THEN a ELSE b
<1>1. \A x : (x \in {a, b} /\ \A y \in {a, b} : x <= y) <=> x = IF a <= b THEN a ELSE b
  OBVIOUS
<1>2. \A x : (x \in {a, b} /\ \A y \in {a, b} : x >= y) <=> x = IF a >= b THEN a ELSE b
  OBVIOUS
<1> QED
  BY <1>1, <1>2 DEF Min, Max

\* A text with no zero byte before its last is not cut.
LEMMA UpToNulAll ==
  ASSUME NEW s \in Seq(Byte), ~NulInside(s)
  PROVE  UpToNul(s) = s
<1> DEFINE ends == {i \in DOMAIN s : s[i] = Nul}
<1>1. CASE ends = {}
  BY <1>1, Zenon DEF UpToNul
<1>2. CASE ends # {}
  <2>1. ends \subseteq Nat /\ DOMAIN s = 1..Len(s) /\ Len(s) \in Nat
    OBVIOUS
  <2>2. Min(ends) \in ends
    BY <1>2, <2>1, MinIn, Zenon
  <2>3. \A k \in ends : k = Len(s)
    BY <2>1 DEF NulInside
  <2>4. Min(ends) = Len(s)
    BY <2>2, <2>3, Zenon
  <2>5. UpToNul(s) = SubSeq(s, 1, Len(s))
    BY <1>2, <2>4, Zenon DEF UpToNul
  <2> QED
    BY <2>5
<1> QED
  BY <1>1, <1>2, Zenon

\* The two forms of a write agree.
LEMMA SameOverwrite ==
  ASSUME NEW c \in Seq(Byte), NEW pos \in Nat, NEW w \in Seq(Byte)
  PROVE  F!Overwrite(c, pos, w) = Overwrite(c, pos, w)
<1>1. Len(c) \in Nat /\ Len(w) \in Nat
  OBVIOUS
<1> DEFINE end == pos + Len(w)
<1>2. end \in Int /\ Len(c) \in Int
  BY <1>1
<1> HIDE DEF end
<1>3. Max({Len(c), end}) = IF Len(c) >= end THEN Len(c) ELSE end
  BY <1>2, TwoOf, Zenon
<1>4. Max({Len(c), end}) = IF Len(c) > end THEN Len(c) ELSE end
  BY <1>2, <1>3
<1> QED
  BY <1>4, Zenon DEF F!Overwrite, Overwrite, end

\* A write leaves bytes.
LEMMA OverwriteType ==
  ASSUME NEW c \in Seq(Byte), NEW pos \in Nat, NEW w \in Seq(Byte), Nul \in Byte
  PROVE  Overwrite(c, pos, w) \in Seq(Byte)
<1>1. /\ Len(c) \in Nat /\ Len(w) \in Nat
      /\ \A i \in 1..Len(c) : c[i] \in Byte
      /\ \A i \in 1..Len(w) : w[i] \in Byte
  OBVIOUS
<1> DEFINE n == Max({Len(c), pos + Len(w)})
           b(i) == IF i \in (pos + 1)..(pos + Len(w)) THEN w[i - pos]
                   ELSE IF i <= Len(c) THEN c[i] ELSE Nul
<1>2. n \in Nat
  <2>1. Len(c) \in Int /\ pos + Len(w) \in Int
    BY <1>1
  <2>2. n = IF Len(c) >= pos + Len(w) THEN Len(c) ELSE pos + Len(w)
    BY <2>1, TwoOf, Zenon
  <2> QED
    BY <1>1, <2>2
<1>3. ASSUME NEW i \in 1..n
      PROVE  b(i) \in Byte
  <2>1. i \in (pos + 1)..(pos + Len(w)) => i - pos \in 1..Len(w)
    BY <1>1
  <2>2. i \in Nat /\ (i <= Len(c) => i \in 1..Len(c))
    BY <1>1, <1>2
  <2> QED
    BY <1>1, <2>1, <2>2, Zenon
<1> HIDE DEF n, b
<1>4. [i \in 1..n |-> b(i)] \in [1..n -> Byte]
  BY <1>3, Zenon
<1>5. [i \in 1..n |-> b(i)] \in Seq(Byte)
  BY <1>2, <1>4
<1> QED
  BY <1>5, Zenon DEF Overwrite, n, b

\* What GetCurrentPos and AfterLength do to a handle.
LEMMA Fields ==
  ASSUME NEW o \in Handle
  PROVE  /\ o.name \in Name /\ o.at \in Nat /\ o.currentOffset \in Nat \cup {-1}
         /\ o.type \in 0..3 /\ o.reads \in Reading
         /\ GetCurrentPos(o) \in Handle
         /\ GetCurrentPos(o).name = o.name /\ GetCurrentPos(o).type = o.type
         /\ GetCurrentPos(o).reads = o.reads
         /\ GetCurrentPos(o).at = o.at /\ GetCurrentPos(o).currentOffset = o.at
         /\ AfterLength(o).name = o.name /\ AfterLength(o).type = o.type
         /\ AfterLength(o).reads = o.reads
         /\ AfterLength(o).at = o.currentOffset
         /\ AfterLength(o).currentOffset = o.currentOffset
         /\ o.currentOffset >= 0 => AfterLength(o) \in Handle
  BY DEF Handle, GetCurrentPos, AfterLength

\* What a transfer and a seek do to a handle.
TransferIs(o, n) ==
  /\ Transfer(o, n) \in Handle /\ Agree(Transfer(o, n))
  /\ Transfer(o, n).name = o.name /\ Transfer(o, n).reads = o.reads
  /\ Transfer(o, n).type = o.type
  /\ Transfer(o, n).at = IF n >= 0 THEN o.at + n ELSE o.at
SeekIs(o, n) ==
  /\ OpenFileSeek(o, n) \in Handle /\ Agree(OpenFileSeek(o, n))
  /\ OpenFileSeek(o, n).name = o.name /\ OpenFileSeek(o, n).reads = o.reads
  /\ OpenFileSeek(o, n).type = o.type
  /\ OpenFileSeek(o, n).at = n

\* After GetCurrentPos, a transfer of n bytes moves both positions by n; a size
\* that UNIX refuses moves the kernel's alone, back by one.
LEMMA Transferred ==
  ASSUME NEW o \in Handle, o.at = o.currentOffset, NEW n \in Int, n >= -1,
         n = -1 => -1 \in Sizes
  PROVE  TransferIs(o, n)
<1>1. /\ o.name \in Name /\ o.reads \in Reading /\ o.type \in 0..3 /\ o.at \in Nat
  BY Zenon DEF Handle
<1> DEFINE m == Max({0, n})
<1>2. m = IF n >= 0 THEN n ELSE 0
  <2>1. 0 \in Int /\ m = IF 0 >= n THEN 0 ELSE n
    BY TwoOf
  <2> QED
    BY <2>1
<1>3. Transfer(o, n) = [o EXCEPT !.at = o.at + m, !.currentOffset = o.at + n]
  BY Zenon DEF Transfer
<1> HIDE DEF m
<1>4. /\ Transfer(o, n).name = o.name /\ Transfer(o, n).reads = o.reads
      /\ Transfer(o, n).type = o.type
      /\ Transfer(o, n).at = o.at + m /\ Transfer(o, n).currentOffset = o.at + n
  BY <1>3, Zenon DEF Handle
<1>5. o.at + m \in Nat /\ o.at + n \in Nat \cup {-1}
  BY <1>1, <1>2
<1>6. Transfer(o, n) \in Handle
  BY <1>1, <1>3, <1>5, Zenon DEF Handle
<1>7. Agree(Transfer(o, n))
  BY <1>1, <1>2, <1>4 DEF Agree
<1>8. o.at + m = IF n >= 0 THEN o.at + n ELSE o.at
  BY <1>1, <1>2
<1> QED
  BY <1>4, <1>6, <1>7, <1>8, Zenon DEF TransferIs

\* A seek leaves both positions where it went.
LEMMA Sought ==
  ASSUME NEW o \in Handle, NEW n \in Nat
  PROVE  SeekIs(o, n)
<1>1. /\ OpenFileSeek(o, n).name = o.name /\ OpenFileSeek(o, n).reads = o.reads
      /\ OpenFileSeek(o, n).type = o.type
      /\ OpenFileSeek(o, n).at = n /\ OpenFileSeek(o, n).currentOffset = n
  BY Zenon DEF Handle, OpenFileSeek
<1>2. OpenFileSeek(o, n) \in Handle
  <2>1. n \in Nat \cup {-1}
    BY Zenon
  <2> QED
    BY <2>1, Zenon DEF Handle, OpenFileSeek
<1> QED
  BY <1>1, <1>2, Zenon DEF SeekIs, Agree

\* A process has a table or none.
LEMMA HasTable ==
  ASSUME Setting, Types, NEW p \in Proc
  PROVE  /\ Alive(p) <=> table[p] \in Table
         /\ Alive(p) => \A i \in Slot : /\ table[p][i] \in Handle \cup {NoHandle}
                                        /\ IsOpen(p, i) <=> table[p][i] \in Handle
  BY Zenon DEF Setting, Types, Alive, IsOpen, Table

\* What Files sees of a handle.
Seen(h) == IF h = NoHandle THEN NoHandle
           ELSE [name |-> h.name, type |-> h.type, pos |-> h.at]

\* The handles that Files sees.
LEMMA HandlesAre ==
  /\ Handles = [p \in Proc |-> [i \in Slot |-> Handles[p][i]]]
  /\ \A p \in Proc : Alive(p) => \A i \in Slot : Handles[p][i] = Seen(table[p][i])
  /\ \A p \in Proc : ~Alive(p) => \A i \in Slot : Handles[p][i] = NoHandle
<1>1. \A p \in Proc, i \in Slot :
        Handles[p][i] = IF Alive(p) /\ IsOpen(p, i)
                        THEN [name |-> table[p][i].name, type |-> table[p][i].type,
                              pos |-> table[p][i].at]
                        ELSE NoHandle
  BY Zenon DEF Handles
<1>2. Handles = [p \in Proc |-> [i \in Slot |-> Handles[p][i]]]
  BY Zenon DEF Handles
<1>3. ASSUME NEW p \in Proc, Alive(p), NEW i \in Slot
      PROVE  Handles[p][i] = Seen(table[p][i])
  BY <1>1, <1>3, Zenon DEF IsOpen, Seen
<1>4. ASSUME NEW p \in Proc, ~Alive(p), NEW i \in Slot
      PROVE  Handles[p][i] = NoHandle
  BY <1>1, <1>4, Zenon
<1> QED
  BY <1>2, <1>3, <1>4, Zenon

-----------------------------------------------------------------------------
(* A step that changes one slot of one table.                              *)

\* The table after such a step, slot by slot.
Put(p, i, h) ==
  /\ table' \in [Proc -> Table \cup {NoHandle}]
  /\ \A q \in Proc : q # p => table'[q] = table[q]
  /\ table'[p] \in Table
  /\ \A j \in Slot : table'[p][j] = IF j = i THEN h ELSE table[p][j]

\* The update has this effect.
LEMMA PutIs ==
  ASSUME Setting, Types, NEW p \in Proc, Alive(p), NEW i \in Slot,
         NEW h \in Handle \cup {NoHandle}, table' = [table EXCEPT ![p][i] = h]
  PROVE  Put(p, i, h)
<1>1. table[p] \in Table
  BY HasTable, Zenon
<1>2. /\ [table[p] EXCEPT ![i] = h] \in Table
      /\ \A j \in Slot : [table[p] EXCEPT ![i] = h][j] = IF j = i THEN h ELSE table[p][j]
  BY <1>1, Zenon DEF Table
<1>3. table' = [table EXCEPT ![p] = [table[p] EXCEPT ![i] = h]]
  BY Zenon
<1> HIDE DEF Table
<1>4. table \in [Proc -> Table \cup {NoHandle}]
  BY Zenon DEF Types
<1>5. /\ table' \in [Proc -> Table \cup {NoHandle}]
      /\ \A q \in Proc : table'[q] = IF q = p THEN [table[p] EXCEPT ![i] = h] ELSE table[q]
  BY <1>2, <1>3, <1>4, Zenon
<1> QED
  BY <1>2, <1>5, Zenon DEF Put

\* Who has a table, and which handles are open, after such a step.
LEMMA PutOpen ==
  ASSUME Setting, Types, NEW p \in Proc, Alive(p), NEW i \in Slot,
         NEW h \in Handle \cup {NoHandle}, table' = [table EXCEPT ![p][i] = h]
  PROVE  /\ \A q \in Proc : Alive(q)' <=> Alive(q)
         /\ \A q \in Proc, j \in Slot : q # p => (IsOpen(q, j)' <=> IsOpen(q, j))
         /\ \A j \in Slot : IsOpen(p, j)' <=> IF j = i THEN h # NoHandle ELSE IsOpen(p, j)
<1>0. Put(p, i, h)
  BY PutIs, Zenon
<1>1. /\ \A q \in Proc : q # p => table'[q] = table[q]
      /\ table'[p] # NoHandle /\ table[p] # NoHandle
      /\ \A j \in Slot : table'[p][j] = IF j = i THEN h ELSE table[p][j]
  <2>1. NoHandle \notin Table
    BY Zenon DEF Setting
  <2>2. table'[p] # NoHandle /\ table[p] # NoHandle
    BY <1>0, <2>1, Zenon DEF Put, Alive
  <2> QED
    BY <1>0, <2>2, Zenon DEF Put
<1> QED
  BY <1>1, Zenon DEF Alive, IsOpen

\* Files sees one handle change.
PutSeenAs(p, i, h) ==
  /\ Handles' = [Handles EXCEPT ![p][i] = Seen(h)]
  /\ Handles[p][i] = Seen(table[p][i])
  /\ Seen(h) = Seen(table[p][i]) => Handles' = Handles

\* The update is seen so.
LEMMA PutSeen ==
  ASSUME Setting, Types, NEW p \in Proc, Alive(p), NEW i \in Slot,
         NEW h \in Handle \cup {NoHandle}, table' = [table EXCEPT ![p][i] = h]
  PROVE  PutSeenAs(p, i, h)
<1>0. Put(p, i, h)
  BY PutIs, Zenon
<1>1. /\ \A q \in Proc : q # p => table'[q] = table[q]
      /\ \A j \in Slot : table'[p][j] = IF j = i THEN h ELSE table[p][j]
  BY <1>0, Zenon DEF Put
<1>2. \A q \in Proc : Alive(q)' <=> Alive(q)
  BY PutOpen, Zenon
<1> DEFINE H(q, j) == IF Alive(q) THEN Seen(table[q][j]) ELSE NoHandle
           G(q, j) == IF q = p /\ j = i THEN Seen(h) ELSE H(q, j)
<1>3. Handles = [q \in Proc |-> [j \in Slot |-> H(q, j)]]
  <2>1. \A q \in Proc, j \in Slot : Handles[q][j] = H(q, j)
    BY HandlesAre, Zenon
  <2>2. Handles = [q \in Proc |-> [j \in Slot |-> Handles[q][j]]]
    BY HandlesAre, Zenon
  <2> HIDE DEF H
  <2> QED
    BY <2>1, <2>2, Zenon
<1>4. Handles' = [q \in Proc |-> [j \in Slot |-> G(q, j)]]
  <2>1. /\ \A q \in Proc, j \in Slot :
             Handles'[q][j] = IF Alive(q)' THEN Seen(table'[q][j]) ELSE NoHandle
        /\ Handles' = [q \in Proc |-> [j \in Slot |-> Handles'[q][j]]]
    <3>1. /\ (Handles = [q \in Proc |-> [j \in Slot |-> Handles[q][j]]])'
      BY Zenon DEF Handles
    <3>2. \A q \in Proc, j \in Slot :
            Handles'[q][j] = IF Alive(q)' /\ IsOpen(q, j)'
                             THEN [name |-> table'[q][j].name, type |-> table'[q][j].type,
                                   pos |-> table'[q][j].at]
                             ELSE NoHandle
      BY Zenon DEF Handles
    <3> QED
      BY <3>1, <3>2, Zenon DEF Seen, IsOpen
  <2>2. \A q \in Proc, j \in Slot : Handles'[q][j] = G(q, j)
    BY <1>1, <1>2, <2>1
  <2> HIDE DEF G
  <2> QED
    BY <2>1, <2>2, Zenon
<1>5. Handles[p][i] = Seen(table[p][i])
  BY HandlesAre, Zenon
<1>6. Handles' = [Handles EXCEPT ![p][i] = Seen(h)]
  <2>1. \A q \in Proc, j \in Slot : G(q, j) = IF q = p /\ j = i THEN Seen(h) ELSE H(q, j)
    BY Zenon
  <2> HIDE DEF G, H
  <2> QED
    BY <1>3, <1>4, <2>1, Zenon
<1>7. ASSUME Seen(h) = Seen(table[p][i])
      PROVE  Handles' = Handles
  <2>1. \A q \in Proc, j \in Slot : G(q, j) = H(q, j)
    BY <1>7, Zenon
  <2> HIDE DEF G, H
  <2> QED
    BY <1>3, <1>4, <2>1, Zenon
<1> QED
  BY <1>5, <1>6, <1>7, Zenon DEF PutSeenAs

\* The step keeps the invariant when the two positions of the handle it leaves in
\* the slot agree, and it has a file, the right file in a slot of the console, and a name that
\* no other handle of the process reads as.
LEMMA PutKeeps ==
  ASSUME Setting, Structure, NEW p \in Proc, Alive(p), NEW i \in Slot,
         NEW h \in Handle \cup {NoHandle}, table' = [table EXCEPT ![p][i] = h],
         file' \in [Name -> Seq(Byte) \cup {NoFile}],
         \A n \in Name : file[n] # NoFile => file'[n] # NoFile,
         h # NoHandle => /\ Agree(h)
                         /\ file[h.name] # NoFile
                         /\ i = 0 => h.name = Stdin
                         /\ i = 1 => h.name = Stdout
                         /\ \A j \in Slot :
                              j # i /\ IsOpen(p, j) /\ table[p][j].name = h.name
                              => h.reads # h.name \/ table[p][j].reads # h.name
  PROVE  Structure'
<1>1. Types
  BY Zenon DEF Structure
<1>2. /\ table' \in [Proc -> Table \cup {NoHandle}]
      /\ \A q \in Proc : q # p => table'[q] = table[q]
      /\ \A j \in Slot : table'[p][j] = IF j = i THEN h ELSE table[p][j]
  <2>1. Put(p, i, h)
    BY <1>1, PutIs, Zenon
  <2> QED
    BY <2>1, Zenon DEF Put
<1>3. /\ \A q \in Proc : Alive(q)' <=> Alive(q)
      /\ \A q \in Proc, j \in Slot : q # p => (IsOpen(q, j)' <=> IsOpen(q, j))
      /\ \A j \in Slot : IsOpen(p, j)' <=> IF j = i THEN h # NoHandle ELSE IsOpen(p, j)
  BY <1>1, PutOpen, Zenon
<1>4. \A q \in Proc, j \in Slot : q # p \/ j # i => table'[q][j] = table[q][j]
  BY <1>2, Zenon
<1>5. h # NoHandle => h.name \in Name
  BY Zenon DEF Handle
<1>6. \A q \in Proc, j \in Slot : Alive(q) /\ IsOpen(q, j) => table[q][j].name \in Name
  BY <1>1, HasTable, Zenon DEF Handle
<1>7. table'[p][i] = h
  BY <1>2, Zenon
<1> HIDE DEF Table, Handle, Slot
<1>8. Types'
  BY <1>2, Zenon DEF Types
<1>9. Backed'
  <2> SUFFICES ASSUME NEW q \in Proc, NEW j \in Slot, Alive(q)', IsOpen(q, j)'
               PROVE  file'[table'[q][j].name] # NoFile
    BY Zenon DEF Backed
  <2>1. CASE q = p /\ j = i
    BY <2>1, <1>3, <1>5, <1>7, Zenon
  <2>2. CASE q # p \/ j # i
    BY <2>2, <1>3, <1>4, <1>6 DEF Structure, Backed
  <2> QED
    BY <2>1, <2>2, Zenon
<1>10. OffsetsAgree'
  <2> SUFFICES ASSUME NEW q \in Proc, NEW j \in Slot, Alive(q)', IsOpen(q, j)'
               PROVE  Agree(table'[q][j])
    BY Zenon DEF OffsetsAgree, Agree
  <2>1. CASE q = p /\ j = i
    BY <2>1, <1>3, <1>7, Zenon
  <2>2. CASE q # p \/ j # i
    BY <2>2, <1>3, <1>4 DEF Structure, OffsetsAgree, Agree
  <2> QED
    BY <2>1, <2>2, Zenon
<1>11. ConsoleStays'
  <2> SUFFICES ASSUME NEW q \in Proc, Alive(q)'
               PROVE  /\ IsOpen(q, 0)' => table'[q][0].name = Stdin
                      /\ IsOpen(q, 1)' => table'[q][1].name = Stdout
    BY Zenon DEF ConsoleStays
  <2>1. 0 \in Slot /\ 1 \in Slot
    BY DEF Setting, Slot
  <2>2. ASSUME NEW j \in {0, 1}, IsOpen(q, j)'
        PROVE  table'[q][j].name = IF j = 0 THEN Stdin ELSE Stdout
    <3>1. CASE q = p /\ j = i
      BY <2>1, <2>2, <3>1, <1>3, <1>7, Zenon
    <3>2. CASE q # p \/ j # i
      BY <2>1, <2>2, <3>2, <1>3, <1>4 DEF Structure, ConsoleStays
    <3> QED
      BY <3>1, <3>2, Zenon
  <2> QED
    BY <2>2
<1>12. OpenOnce'
  <2> SUFFICES ASSUME NEW q \in Proc, Alive(q)', NEW j \in Slot, NEW k \in Slot, j # k,
                      IsOpen(q, j)', IsOpen(q, k)',
                      table'[q][j].name = table'[q][k].name
               PROVE  \/ table'[q][j].reads # table'[q][j].name
                      \/ table'[q][k].reads # table'[q][k].name
    BY Zenon DEF OpenOnce
  <2>1. CASE q = p /\ j = i
    BY <2>1, <1>3, <1>4, <1>7
  <2>2. CASE q = p /\ k = i
    BY <2>2, <1>3, <1>4, <1>7
  <2>3. CASE q # p \/ (j # i /\ k # i)
    BY <2>3, <1>3, <1>4 DEF Structure, OpenOnce
  <2> QED
    BY <2>1, <2>2, <2>3, Zenon
<1> QED
  BY <1>8, <1>9, <1>10, <1>11, <1>12, Zenon DEF Structure

\* In particular when the slot's handle moves: the same file, under the same
\* name.
LEMMA MoveKeeps ==
  ASSUME Setting, Structure, NEW p \in Proc, Alive(p), NEW i \in Slot, IsOpen(p, i),
         NEW h \in Handle, table' = [table EXCEPT ![p][i] = h],
         file' \in [Name -> Seq(Byte) \cup {NoFile}],
         \A n \in Name : file[n] # NoFile => file'[n] # NoFile,
         Agree(h), h.name = table[p][i].name, h.reads = table[p][i].reads
  PROVE  Structure'
<1>1. /\ file[h.name] # NoFile
      /\ i = 0 => h.name = Stdin
      /\ i = 1 => h.name = Stdout
  BY Zenon DEF Structure, Backed, ConsoleStays
<1>2. \A j \in Slot : j # i /\ IsOpen(p, j) /\ table[p][j].name = h.name
                      => h.reads # h.name \/ table[p][j].reads # h.name
  BY DEF Structure, OpenOnce
<1> QED
  BY <1>1, <1>2, PutKeeps, Zenon

\* What Files sees of an open handle.
LEMMA SeenIs ==
  ASSUME Setting, NEW o \in Handle
  PROVE  /\ Seen(o) # NoHandle
         /\ Seen(o) = [name |-> o.name, type |-> o.type, pos |-> o.at]
         /\ Seen(o).name = o.name /\ Seen(o).type = o.type /\ Seen(o).pos = o.at
<1>1. o # NoHandle /\ NoHandle \notin [name : Name, type : 0..3, pos : Nat]
  BY Zenon DEF Setting
<1>2. Seen(o) = [name |-> o.name, type |-> o.type, pos |-> o.at]
  BY <1>1, Zenon DEF Seen
<1>3. Seen(o) \in [name : Name, type : 0..3, pos : Nat]
  BY <1>2 DEF Handle
<1> QED
  BY <1>1, <1>2, <1>3

\* Files sees a position change when a handle moves.
MoveSeenAs(p, i, h) ==
  /\ Handles[p][i] # NoHandle
  /\ Handles[p][i].name = h.name /\ Handles[p][i].type = h.type
  /\ Handles[p][i].pos = table[p][i].at
  /\ Handles' = [Handles EXCEPT ![p][i].pos = h.at]

\* The update is seen so.
LEMMA MoveSeen ==
  ASSUME Setting, Types, NEW p \in Proc, Alive(p), NEW i \in Slot, IsOpen(p, i),
         NEW h \in Handle, table' = [table EXCEPT ![p][i] = h],
         h.name = table[p][i].name, h.type = table[p][i].type
  PROVE  MoveSeenAs(p, i, h)
<1>1. table[p][i] \in Handle
  BY HasTable, Zenon
<1>2. /\ Handles' = [Handles EXCEPT ![p][i] = Seen(h)]
      /\ Handles[p][i] = Seen(table[p][i])
  <2>1. PutSeenAs(p, i, h)
    BY PutSeen, Zenon
  <2> QED
    BY <2>1, Zenon DEF PutSeenAs
<1>3. /\ Seen(table[p][i]) # NoHandle
      /\ Seen(table[p][i]) = [name |-> table[p][i].name, type |-> table[p][i].type,
                              pos |-> table[p][i].at]
  BY <1>1, SeenIs, Zenon
<1>4. Seen(h) = [name |-> h.name, type |-> h.type, pos |-> h.at]
  BY SeenIs, Zenon
<1>5. Seen(h) = [Seen(table[p][i]) EXCEPT !.pos = h.at]
  BY <1>3, <1>4
<1>6. Handles' = [Handles EXCEPT ![p][i].pos = h.at]
  BY <1>2, <1>5, Zenon
<1>7. /\ Seen(table[p][i]).name = h.name /\ Seen(table[p][i]).type = h.type
      /\ Seen(table[p][i]).pos = table[p][i].at
  BY <1>3
<1> HIDE DEF Handles, Seen
<1> QED
  BY <1>2, <1>3, <1>6, <1>7, Zenon DEF MoveSeenAs

-----------------------------------------------------------------------------
(* Each call keeps the invariant and is a step of Files.                   *)

\* A call that fails, with a negative code, or one on the console.
LEMMA FailsStep ==
  ASSUME Setting, Structure, (\E r \in {-1, -2} : Fails(r)) \/ (\E r : OnConsole(r))
  PROVE  Structure' /\ Allowed
<1>1. /\ file' = file /\ table' = table
      /\ (result'.ret < 0 /\ result'.data = <<>>) \/ result'.data = NoFile
  BY DEF Fails, OnConsole, Returns
<1>2. Structure'
  BY <1>1, Zenon DEF Structure, Types, Backed, OffsetsAgree, ConsoleStays, OpenOnce, Alive, IsOpen
<1>3. Handles' = Handles
  BY <1>1, Zenon DEF Handles, Alive, IsOpen
<1>4. F!NoEffect
  BY <1>1, <1>3, Zenon DEF F!NoEffect
<1> QED
  BY <1>2, <1>4, Zenon DEF F!Next, Allowed

\* A call that ends the kernel.
LEMMA AbortStep ==
  ASSUME Setting, Structure, Abort
  PROVE  Structure' /\ Allowed
<1>1. file' = file /\ table' = table /\ result' = result
  BY Zenon DEF Abort
<1>2. Structure'
  BY <1>1, Zenon DEF Structure, Types, Backed, OffsetsAgree, ConsoleStays, OpenOnce, Alive, IsOpen
<1>3. Handles' = Handles
  BY <1>1, Zenon DEF Handles, Alive, IsOpen
<1> QED
  BY <1>1, <1>2, <1>3, Zenon DEF F!vars, Allowed

\* The file of an open handle is there, and its two positions agree.
LEMMA Current ==
  ASSUME Setting, Structure, NEW p \in Proc, Alive(p), NEW i, IsOpen(p, i)
  PROVE  /\ i \in Slot /\ table[p][i] \in Handle
         /\ file[table[p][i].name] \in Seq(Byte)
         /\ Agree(table[p][i])
<1>1. i \in Slot
  BY Zenon DEF IsOpen
<1>2. table[p][i] \in Handle
  BY <1>1, HasTable, Zenon DEF Structure
<1>3. table[p][i].name \in Name /\ Agree(table[p][i])
  BY <1>1, <1>2, Zenon DEF Structure, OffsetsAgree, Handle, Agree
<1>4. file[table[p][i].name] \in Seq(Byte)
  BY <1>1, <1>3, Zenon DEF Structure, Types, Backed
<1> QED
  BY <1>1, <1>2, <1>3, <1>4, Zenon

\* PCB::Close and the system call over it.
LEMMA CloseStep ==
  ASSUME Setting, Structure, NEW p \in Proc, NEW id \in Ids, Close(p, id)
  PROVE  Structure' /\ Allowed
<1>1. Alive(p) /\ Types
  BY Zenon DEF Close, Call, Structure
<1>2. CASE ~IsOpen(p, id)
  <2>1. Fails(-1)
    BY <1>2, Zenon DEF Close
  <2> QED
    BY <2>1, FailsStep, Zenon
<1>3. CASE IsOpen(p, id)
  <2>1. /\ table' = [table EXCEPT ![p][id] = NoHandle]
        /\ result' = [ret |-> 0, data |-> <<>>] /\ file' = file
    BY <1>3, Zenon DEF Close, Fails, Returns
  <2>2. id \in Slot /\ table[p][id] \in Handle
    BY <1>1, <1>3, Current, Zenon
  <2>3. file' \in [Name -> Seq(Byte) \cup {NoFile}]
    BY <1>1, <2>1, Zenon DEF Types
  <2>4. Structure'
    BY <1>1, <2>1, <2>2, <2>3, PutKeeps, Zenon
  <2>5. /\ Handles' = [Handles EXCEPT ![p][id] = Seen(NoHandle)]
        /\ Handles[p][id] = Seen(table[p][id])
    <3>1. PutSeenAs(p, id, NoHandle)
      BY <1>1, <2>1, <2>2, PutSeen, Zenon
    <3> QED
      BY <3>1, Zenon DEF PutSeenAs
  <2>6. Seen(table[p][id]) # NoHandle /\ Seen(NoHandle) = NoHandle
    BY <2>2, SeenIs, Zenon DEF Seen
  <2>7. F!Close(p, id, 0)
    BY <2>1, <2>5, <2>6, Zenon DEF F!Close, F!Result
  <2> QED
    BY <1>1, <1>3, <2>2, <2>4, <2>7, Zenon DEF Departs, Allowed
<1> QED
  BY <1>2, <1>3, Zenon

\* Files sees at most the handles of p change when only p's table does.
LEMMA RenewSeen ==
  ASSUME NEW p \in Proc, \A q \in Proc : q # p => table'[q] = table[q]
  PROVE  Handles' = [Handles EXCEPT ![p] = Handles'[p]]
<1> DEFINE E(q) == [i \in Slot |-> IF Alive(q) /\ IsOpen(q, i)
                                   THEN [name |-> table[q][i].name, type |-> table[q][i].type,
                                         pos |-> table[q][i].at]
                                   ELSE NoHandle]
           G(q) == [i \in Slot |-> IF table'[q] # NoHandle /\ i \in Slot /\ table'[q][i] # NoHandle
                                   THEN [name |-> table'[q][i].name, type |-> table'[q][i].type,
                                         pos |-> table'[q][i].at]
                                   ELSE NoHandle]
<1>1. Handles = [q \in Proc |-> E(q)]
  BY Zenon DEF Handles
<1>2. Handles' = [q \in Proc |-> G(q)]
  BY Zenon DEF Handles, Alive, IsOpen
<1>3. \A q \in Proc : q # p => G(q) = E(q)
  BY Zenon DEF Alive, IsOpen
<1> HIDE DEF E, G, Handles
<1> QED
  BY <1>1, <1>2, <1>3, Zenon

\* A function after an update at one point.
LEMMA Updated ==
  ASSUME NEW S, NEW T, NEW f \in [S -> T], NEW e \in T, NEW a \in S
  PROVE  /\ [f EXCEPT ![a] = e] \in [S -> T]
         /\ \A n \in S : [f EXCEPT ![a] = e][n] = IF n = a THEN e ELSE f[n]
  BY Zenon

\* PCB::PCB.
LEMMA NewPCBStep ==
  ASSUME Setting, Structure, NEW p \in Proc, NewPCB(p)
  PROVE  Structure' /\ Allowed
<1>1. PICK rIn \in Reads(Stdin), rOut \in Reads(Stdout) :
        table' = [table EXCEPT ![p] = Console(rIn, rOut)]
  BY Zenon DEF NewPCB
<1>2. /\ file' = [file EXCEPT ![Stdin] = <<>>, ![Stdout] = <<>>]
      /\ result' = result
  BY Zenon DEF NewPCB
<1> DEFINE c == Console(rIn, rOut)
<1>3. /\ Stdin \in Name /\ Stdout \in Name /\ Stdin # Stdout
      /\ 0 \in Slot /\ 1 \in Slot /\ Slot \subseteq Nat
      /\ NoFile # <<>> /\ NoHandle \notin Table
  <2>1. <<>> \in Seq(Byte)
    OBVIOUS
  <2>2. NoFile # <<>> /\ NoHandle \notin Table
    BY <2>1, Zenon DEF Setting
  <2>3. Stdin \in Name /\ Stdout \in Name /\ Stdin # Stdout
    BY Zenon DEF Setting
  <2>4. 0 \in Slot /\ 1 \in Slot /\ Slot \subseteq Nat
    BY DEF Setting, Slot
  <2> QED
    BY <2>2, <2>3, <2>4, Zenon
<1>4. /\ NewOpenFile(Stdin, 2, rIn) \in Handle /\ NewOpenFile(Stdout, 3, rOut) \in Handle
      /\ Agree(NewOpenFile(Stdin, 2, rIn)) /\ Agree(NewOpenFile(Stdout, 3, rOut))
      /\ NewOpenFile(Stdin, 2, rIn).name = Stdin /\ NewOpenFile(Stdout, 3, rOut).name = Stdout
  <2>1. rIn \in Reading /\ rOut \in Reading
    BY <1>3, Zenon DEF Reading
  <2> QED
    BY <1>3, <2>1 DEF NewOpenFile, Handle, Agree
<1>5. \A i \in Slot : c[i] = IF i = 0 THEN NewOpenFile(Stdin, 2, rIn)
                             ELSE IF i = 1 THEN NewOpenFile(Stdout, 3, rOut) ELSE NoHandle
  BY <1>3 DEF Console
<1>6. c \in Table
  <2>1. \A i \in Slot : c[i] \in Handle \cup {NoHandle}
    BY <1>4, <1>5, Zenon
  <2>2. c = [i \in Slot |-> c[i]]
    BY DEF Console
  <2> HIDE DEF c
  <2> QED
    BY <2>1, <2>2, Zenon DEF Table
<1> HIDE DEF c, Slot, Handle, Table
<1>7. /\ table \in [Proc -> Table \cup {NoHandle}]
      /\ file \in [Name -> Seq(Byte) \cup {NoFile}]
  BY Zenon DEF Structure, Types
<1>8. /\ table' \in [Proc -> Table \cup {NoHandle}]
      /\ \A q \in Proc : table'[q] = IF q = p THEN c ELSE table[q]
  BY <1>1, <1>6, <1>7, Zenon DEF c
<1>9. /\ file' \in [Name -> Seq(Byte) \cup {NoFile}]
      /\ \A n \in Name : file'[n] = IF n \in {Stdin, Stdout} THEN <<>> ELSE file[n]
  <2>1. <<>> \in Seq(Byte)
    OBVIOUS
  <2> DEFINE S == Seq(Byte) \cup {NoFile}
             e == <<>>
             g == [file EXCEPT ![Stdin] = e]
  <2>2. file \in [Name -> S] /\ e \in S
    BY <1>7, <2>1, Zenon
  <2>3. file' = [g EXCEPT ![Stdout] = e]
    BY <1>2, Zenon
  <2> HIDE DEF S, e
  <2>4. /\ g \in [Name -> S]
        /\ \A n \in Name : g[n] = IF n = Stdin THEN e ELSE file[n]
    BY <1>3, <2>2, Updated, Zenon
  <2> HIDE DEF g
  <2>5. /\ file' \in [Name -> S]
        /\ \A n \in Name : file'[n] = IF n = Stdout THEN e ELSE g[n]
    BY <1>3, <2>2, <2>3, <2>4, Updated, Zenon
  <2>6. \A n \in Name : file'[n] = IF n \in {Stdin, Stdout} THEN e ELSE file[n]
    BY <2>4, <2>5, Zenon
  <2> QED
    BY <2>5, <2>6, Zenon DEF S, e
<1>10. \A n \in Name : file[n] # NoFile => file'[n] # NoFile
  BY <1>3, <1>9, Zenon
<1>11. \A i \in Slot : table'[p][i] # NoHandle =>
         /\ i \in {0, 1}
         /\ table'[p][i] = IF i = 0 THEN NewOpenFile(Stdin, 2, rIn)
                           ELSE NewOpenFile(Stdout, 3, rOut)
  BY <1>5, <1>8, Zenon
<1> HIDE DEF NewOpenFile
<1>12. \A q \in Proc, i \in Slot : Alive(q) /\ IsOpen(q, i) => table[q][i].name \in Name
  <2>1. Types
    BY Zenon DEF Structure
  <2> QED
    BY <2>1, HasTable, Zenon DEF Handle
<1>13. Types'
  BY <1>8, <1>9, Zenon DEF Types
<1>14. Backed'
  <2> SUFFICES ASSUME NEW q \in Proc, NEW i \in Slot, Alive(q)', IsOpen(q, i)'
               PROVE  file'[table'[q][i].name] # NoFile
    BY Zenon DEF Backed
  <2>1. CASE q = p
    BY <1>3, <1>4, <1>9, <1>11, <2>1, Zenon DEF IsOpen
  <2>2. CASE q # p
    BY <1>8, <1>10, <1>12, <2>2, Zenon DEF Structure, Backed, Alive, IsOpen
  <2> QED
    BY <2>1, <2>2, Zenon
<1>15. OffsetsAgree'
  <2> SUFFICES ASSUME NEW q \in Proc, NEW i \in Slot, Alive(q)', IsOpen(q, i)'
               PROVE  Agree(table'[q][i])
    BY Zenon DEF OffsetsAgree, Agree
  <2>1. CASE q = p
    BY <1>4, <1>11, <2>1, Zenon DEF IsOpen
  <2>2. CASE q # p
    BY <1>8, <2>2, Zenon DEF Structure, OffsetsAgree, Agree, Alive, IsOpen
  <2> QED
    BY <2>1, <2>2, Zenon
<1>16. ConsoleStays'
  <2> SUFFICES ASSUME NEW q \in Proc, Alive(q)'
               PROVE  /\ IsOpen(q, 0)' => table'[q][0].name = Stdin
                      /\ IsOpen(q, 1)' => table'[q][1].name = Stdout
    BY Zenon DEF ConsoleStays
  <2>1. CASE q = p
    BY <1>3, <1>4, <1>11, <2>1 DEF IsOpen
  <2>2. CASE q # p
    BY <1>8, <2>2, Zenon DEF Structure, ConsoleStays, Alive, IsOpen
  <2> QED
    BY <2>1, <2>2, Zenon
<1>17. OpenOnce'
  <2> SUFFICES ASSUME NEW q \in Proc, Alive(q)', NEW j \in Slot, NEW k \in Slot, j # k,
                      IsOpen(q, j)', IsOpen(q, k)',
                      table'[q][j].name = table'[q][k].name
               PROVE  \/ table'[q][j].reads # table'[q][j].name
                      \/ table'[q][k].reads # table'[q][k].name
    BY Zenon DEF OpenOnce
  <2>1. CASE q = p
    BY <1>3, <1>4, <1>11, <2>1, Zenon DEF IsOpen
  <2>2. CASE q # p
    BY <1>8, <2>2 DEF Structure, OpenOnce, Alive, IsOpen
  <2> QED
    BY <2>1, <2>2, Zenon
<1>18. F!Renew(p)
  <2>1. Handles' = [Handles EXCEPT ![p] = Handles'[p]]
    BY <1>8, RenewSeen, Zenon
  <2>2. \A n \in Name : file'[n] \in {file[n], <<>>}
    BY <1>9, Zenon
  <2> QED
    BY <1>2, <2>1, <2>2, Zenon DEF F!Renew
<1> QED
  BY <1>13, <1>14, <1>15, <1>16, <1>17, <1>18, Zenon DEF Structure, F!Next, Allowed

\* PCB::~PCB.
LEMMA DeletePCBStep ==
  ASSUME Setting, Structure, NEW p \in Proc, DeletePCB(p)
  PROVE  Structure' /\ Allowed
<1>1. table' = [table EXCEPT ![p] = NoHandle] /\ file' = file /\ result' = result
  BY Zenon DEF DeletePCB
<1>2. /\ table \in [Proc -> Table \cup {NoHandle}]
      /\ file \in [Name -> Seq(Byte) \cup {NoFile}]
  BY Zenon DEF Structure, Types
<1>3. /\ table' \in [Proc -> Table \cup {NoHandle}]
      /\ table'[p] = NoHandle
      /\ \A q \in Proc : q # p => table'[q] = table[q]
  BY <1>1, <1>2, Zenon
<1>4. \A q \in Proc : Alive(q)' => q # p /\ Alive(q) /\ table'[q] = table[q]
  BY <1>3, Zenon DEF Alive
<1>5. Types'
  BY <1>1, <1>2, <1>3, Zenon DEF Types
<1>6. Backed' /\ OffsetsAgree' /\ ConsoleStays'
  BY <1>1, <1>4 DEF Structure, Backed, OffsetsAgree, ConsoleStays, IsOpen
<1>7. OpenOnce'
  BY <1>4 DEF Structure, OpenOnce, IsOpen
<1>8. F!Renew(p)
  <2>1. Handles' = [Handles EXCEPT ![p] = Handles'[p]]
    BY <1>3, RenewSeen, Zenon
  <2>2. \A n \in Name : file'[n] \in {file[n], <<>>}
    BY <1>1, Zenon
  <2> QED
    BY <1>1, <2>1, <2>2, Zenon DEF F!Renew
<1> QED
  BY <1>5, <1>6, <1>7, <1>8, Zenon DEF Structure, F!Next, Allowed

\* SysCreateFile.
LEMMA CreateFileStep ==
  ASSUME Setting, Structure, NEW p \in Proc, NEW n \in Name, CreateFile(p, n)
  PROVE  Structure' /\ Allowed
<1>0. SUFFICES ASSUME file' = [file EXCEPT ![n] = <<>>], table' = table,
                      result' = [ret |-> 0, data |-> <<>>]
               PROVE  Structure' /\ Allowed
  <2>1. \/ Fails(-1) \/ Abort
        \/ /\ file' = [file EXCEPT ![n] = <<>>] /\ table' = table
           /\ result' = [ret |-> 0, data |-> <<>>]
    BY Zenon DEF CreateFile, Returns
  <2> QED
    BY <1>0, <2>1, FailsStep, AbortStep, Zenon
<1>1. /\ file' = [file EXCEPT ![n] = <<>>] /\ table' = table
      /\ result' = [ret |-> 0, data |-> <<>>]
  BY <1>0, Zenon
<1>2. <<>> \in Seq(Byte)
  OBVIOUS
<1>3. NoFile # <<>>
  BY <1>2, Zenon DEF Setting
<1>4. /\ file' \in [Name -> Seq(Byte) \cup {NoFile}]
      /\ \A m \in Name : file'[m] = IF m = n THEN <<>> ELSE file[m]
  BY <1>1, <1>2, Zenon DEF Structure, Types
<1>5. Types' /\ OffsetsAgree' /\ ConsoleStays' /\ OpenOnce'
  BY <1>1, <1>4 DEF Structure, Types, OffsetsAgree, ConsoleStays, OpenOnce, Alive, IsOpen
<1>6. Backed'
  <2>1. \A q \in Proc, i \in Slot : Alive(q) /\ IsOpen(q, i) => table[q][i].name \in Name
    <3>1. Types
      BY Zenon DEF Structure
    <3> QED
      BY <3>1, HasTable, Zenon DEF Handle
  <2> QED
    BY <1>1, <1>3, <1>4, <2>1 DEF Structure, Backed, Alive, IsOpen
<1>7. Handles' = Handles
  BY <1>1, Zenon DEF Handles, Alive, IsOpen
<1>8. F!Create(n)
  BY <1>1, <1>7, Zenon DEF F!Create, F!Result
<1> QED
  BY <1>5, <1>6, <1>8, Zenon DEF Structure, F!Next, Allowed

\* PCB::Open and FileSystem::Open.
LEMMA OpenStep ==
  ASSUME Setting, Structure, NEW p \in Proc, NEW n \in Name, NEW type \in 0..3,
         Open(p, n, type)
  PROVE  Structure' /\ Allowed
<1> DEFINE free == FindFreeSlot(p)
           opens == ~NameInUse(p, n) /\ free # {}
           i == Min(free)
<1>1. Alive(p) /\ Types
  BY Zenon DEF Open, Call, Structure
<1>2. \/ Fails(-1) \/ \E r : OnConsole(r)
      \/ /\ opens /\ type \in {0, 1} /\ file[n] # NoFile
         /\ \E r \in Reads(n) : table' = [table EXCEPT ![p][i] = NewOpenFile(n, type, r)]
         /\ Returns(i, <<>>)
         /\ UNCHANGED file
  BY Zenon DEF Open
<1>3. CASE Fails(-1) \/ \E r : OnConsole(r)
  BY <1>3, FailsStep, Zenon
<1>4. CASE /\ opens /\ type \in {0, 1} /\ file[n] # NoFile
           /\ \E r \in Reads(n) : table' = [table EXCEPT ![p][i] = NewOpenFile(n, type, r)]
           /\ Returns(i, <<>>)
           /\ UNCHANGED file
  <2>1. PICK r \in Reads(n) : table' = [table EXCEPT ![p][i] = NewOpenFile(n, type, r)]
    BY <1>4, Zenon
  <2>2. i \in free
    <3>1. free \subseteq Nat /\ free # {}
      BY <1>4 DEF FindFreeSlot, Slot
    <3> HIDE DEF free
    <3> QED
      BY <3>1, MinIn, Zenon
  <2>3. i \in Slot /\ i # 0 /\ i # 1 /\ table[p][i] = NoHandle
    BY <2>2 DEF FindFreeSlot, Slot
  <2>4. /\ result' = [ret |-> i, data |-> <<>>] /\ file' = file /\ file[n] # NoFile
        /\ type \in {0, 1} /\ ~NameInUse(p, n)
    BY <1>4, Zenon DEF Returns
  <2> HIDE DEF i, free
  <2> DEFINE h == NewOpenFile(n, type, r)
  <2>5. h \in Handle
    <3>1. r \in Reading
      BY Zenon DEF Reading
    <3> QED
      BY <3>1, Zenon DEF NewOpenFile, Handle
  <2>6. /\ Agree(h) /\ h.name = n /\ h.type = type /\ h.at = 0
    BY Zenon DEF NewOpenFile, Agree
  <2>7. \A j \in Slot : j # i /\ IsOpen(p, j) /\ table[p][j].name = n => table[p][j].reads # n
    BY <2>4, Zenon DEF NameInUse, IsOpen
  <2>8. table' = [table EXCEPT ![p][i] = h]
    BY <2>1, Zenon
  <2>9. h \in Handle \cup {NoHandle} /\ file' \in [Name -> Seq(Byte) \cup {NoFile}]
    BY <1>1, <2>4, <2>5, Zenon DEF Types
  <2> HIDE DEF h
  <2>10. Structure'
    BY <1>1, <2>3, <2>4, <2>6, <2>7, <2>8, <2>9, PutKeeps, Zenon
  <2>11. PutSeenAs(p, i, h)
    BY <1>1, <2>3, <2>8, <2>9, PutSeen, Zenon
  <2>12. Seen(h) = [name |-> n, type |-> type, pos |-> 0]
    <3>1. Seen(h) = [name |-> h.name, type |-> h.type, pos |-> h.at]
      BY <2>5, SeenIs, Zenon
    <3> QED
      BY <2>6, <3>1, Zenon
  <2>13. /\ Handles' = [Handles EXCEPT ![p][i] = [name |-> n, type |-> type, pos |-> 0]]
         /\ Handles[p][i] = NoHandle
    BY <2>3, <2>11, <2>12, Zenon DEF PutSeenAs, Seen
  <2>14. F!Open(p, i, n, type)
    BY <2>4, <2>13, Zenon DEF F!Open, F!Result
  <2> QED
    BY <2>3, <2>4, <2>10, <2>14, Zenon DEF F!Next, Allowed
<1> QED
  BY <1>2, <1>3, <1>4, Zenon

\* What read(2) moves: no more than is asked for or than is there, and -1 when
\* it is asked for -1.
LEMMA AvailableIs ==
  ASSUME NEW o \in Handle, o.currentOffset \in Nat, file[o.name] \in Seq(Byte),
         NEW size \in Int, size >= -1
  PROVE  /\ Available(o, size) \in Int /\ Available(o, size) >= -1
         /\ Available(o, size) = -1 => size = -1
         /\ Available(o, size) > 0 =>
              /\ size >= 0 /\ o.currentOffset + Available(o, size) <= Len(file[o.name])
              /\ o.currentOffset + Available(o, size)
                   = IF o.currentOffset + size < Len(file[o.name]) THEN o.currentOffset + size
                     ELSE Len(file[o.name])
<1> DEFINE d == Len(file[o.name]) - o.currentOffset
           m == Max({0, d})
<1>1. o.currentOffset \in Nat /\ Len(file[o.name]) \in Nat
  OBVIOUS
<1>2. d \in Int /\ 0 \in Int /\ size \in Int
  BY <1>1
<1> HIDE DEF d
<1>3. m = IF 0 >= d THEN 0 ELSE d
  BY <1>2, TwoOf, Zenon
<1>4. m \in Int
  BY <1>2, <1>3, Zenon
<1> HIDE DEF m
<1>5. Min({size, m}) = IF size <= m THEN size ELSE m
  BY <1>2, <1>4, TwoOf, Zenon
<1>6. Available(o, size) = Min({size, m})
  BY Zenon DEF Available, m, d
<1> QED
  BY <1>1, <1>2, <1>3, <1>5, <1>6 DEF d

\* A call that leaves the bytes, and the position in UNIX, as they were.
LEMMA StaysStep ==
  ASSUME Setting, Structure, NEW p \in Proc, Alive(p), NEW i \in Slot, IsOpen(p, i),
         NEW h \in Handle, table' = [table EXCEPT ![p][i] = h], file' = file,
         h.name = table[p][i].name, h.type = table[p][i].type, h.at = table[p][i].at,
         result'.ret < 0, result'.data = <<>>
  PROVE  F!NoEffect
<1>1. Types /\ table[p][i] \in Handle
  BY Current, Zenon DEF Structure
<1>2. Seen(h) = Seen(table[p][i])
  <2> DEFINE o == table[p][i]
  <2>1. /\ Seen(o) = [name |-> o.name, type |-> o.type, pos |-> o.at]
        /\ Seen(h) = [name |-> h.name, type |-> h.type, pos |-> h.at]
    BY <1>1, SeenIs, Zenon
  <2> QED
    BY <2>1, Zenon
<1>3. PutSeenAs(p, i, h)
  <2>1. h \in Handle \cup {NoHandle}
    BY Zenon
  <2> QED
    BY <1>1, <2>1, PutSeen, Zenon
<1> QED
  BY <1>2, <1>3, Zenon DEF PutSeenAs, F!NoEffect

\* PCB::Read and OpenFile::Read.
LEMMA ReadStep ==
  ASSUME Setting, Structure, NEW p \in Proc, NEW id \in Ids, NEW size \in Sizes,
         Read(p, id, size)
  PROVE  Structure' /\ Allowed
<1> DEFINE o == GetCurrentPos(table[p][id])
           n == Available(o, size)
           h == Transfer(o, n)
<1>1. Alive(p) /\ Types /\ size \in Int
  BY Zenon DEF Read, Call, Structure, Setting
<1>2. CASE ~(HasBuffer(size) /\ IsOpen(p, id) /\ id > 1)
  <2>1. Abort \/ Fails(-1) \/ \E r : OnConsole(r)
    <3>1. ~HasBuffer(size) \/ ~IsOpen(p, id) \/ id = 1 \/ id = 0
      BY <1>2 DEF IsOpen, Slot, Ids
    <3>2. CASE ~HasBuffer(size) \/ ~IsOpen(p, id) \/ id = 1
      BY <3>2, Zenon DEF Read
    <3>3. CASE id = 0 /\ IsOpen(p, id)
      <4>1. id # 1 /\ ~(id > 1)
        BY <3>3
      <4> QED
        BY <3>3, <4>1, Zenon DEF Read
    <3> QED
      BY <3>1, <3>2, <3>3, Zenon
  <2> QED
    BY <2>1, FailsStep, AbortStep, Zenon
<1>3. CASE HasBuffer(size) /\ IsOpen(p, id) /\ id > 1
  <2>1. id \in Slot /\ table[p][id] \in Handle /\ file[table[p][id].name] \in Seq(Byte)
    BY <1>1, <1>3, Current, Zenon
  <2>2. id # 0 /\ id # 1 /\ size >= -1
    BY <1>3 DEF HasBuffer
  <2>3. /\ table' = [table EXCEPT ![p][id] = h] /\ file' = file
        /\ result' = IF n > 0
                     THEN [ret |-> n,
                           data |-> UpToNul(SubSeq(file[o.name], o.currentOffset + 1,
                                                   o.currentOffset + n))]
                     ELSE [ret |-> -2, data |-> <<>>]
    BY <1>3, <2>2, Zenon DEF Read, Returns
  <2>4. /\ o \in Handle /\ o.name = table[p][id].name /\ o.reads = table[p][id].reads
        /\ o.type = table[p][id].type
        /\ o.at = table[p][id].at /\ o.currentOffset = o.at /\ o.at \in Nat
    <3> DEFINE g == table[p][id]
    <3>1. g \in Handle
      BY <2>1, Zenon
    <3> HIDE DEF g
    <3>2. /\ GetCurrentPos(g) \in Handle /\ GetCurrentPos(g).name = g.name
          /\ GetCurrentPos(g).reads = g.reads /\ GetCurrentPos(g).type = g.type
          /\ GetCurrentPos(g).at = g.at /\ GetCurrentPos(g).currentOffset = g.at
          /\ g.at \in Nat
      BY <3>1, Fields, Zenon
    <3> QED
      BY <3>2, Zenon DEF g
  <2> HIDE DEF o
  <2>5. /\ n \in Int /\ n >= -1 /\ (n = -1 => size = -1)
        /\ n > 0 => /\ size >= 0 /\ o.at + n <= Len(file[o.name])
                    /\ o.at + n = IF o.at + size < Len(file[o.name]) THEN o.at + size
                                  ELSE Len(file[o.name])
    BY <1>1, <2>1, <2>2, <2>4, AvailableIs, Zenon
  <2> HIDE DEF n
  <2>6. /\ h \in Handle /\ Agree(h)
        /\ h.name = o.name /\ h.reads = o.reads /\ h.type = o.type
        /\ h.at = IF n >= 0 THEN o.at + n ELSE o.at
    <3>1. TransferIs(o, n)
      BY <2>4, <2>5, Transferred, Zenon
    <3> QED
      BY <3>1, Zenon DEF TransferIs
  <2>7. file' \in [Name -> Seq(Byte) \cup {NoFile}]
    BY <1>1, <2>3, Zenon DEF Types
  <2> HIDE DEF h
  <2>8. Structure'
    BY <1>1, <1>3, <2>1, <2>3, <2>4, <2>6, <2>7, MoveKeeps, Zenon
  <2>9. CASE n > 0
    <3>1. /\ Handles[p][id] # NoHandle
          /\ Handles[p][id].name = o.name
          /\ Handles[p][id].pos = o.at
          /\ Handles' = [Handles EXCEPT ![p][id].pos = h.at]
      <4>1. MoveSeenAs(p, id, h)
        BY <1>1, <1>3, <2>1, <2>3, <2>4, <2>6, MoveSeen, Zenon
      <4> QED
        BY <2>4, <2>6, <4>1, Zenon DEF MoveSeenAs
    <3> DEFINE t == SubSeq(file[o.name], o.at + 1, o.at + n)
    <3>2. F!Text(p, id, size) = t
      BY <2>5, <2>9, <3>1, Zenon DEF F!Text
    <3>3. t \in Seq(Byte) /\ Len(t) = n
      BY <2>1, <2>4, <2>5, <2>9
    <3>4. result' = [ret |-> n, data |-> UpToNul(t)] /\ h.at = o.at + n
      BY <2>3, <2>4, <2>5, <2>6, <2>9
    <3> HIDE DEF t, Handles
    <3>5. F!Read(p, id, size, UpToNul(t))
      BY <2>3, <3>1, <3>2, <3>3, <3>4, Zenon DEF F!Read, F!Result
    <3>6. CASE NulInside(t)
      <4>1. ReadCut(p, id, size)
        BY <3>2, <3>5, <3>6, Zenon DEF ReadCut
      <4> QED
        BY <1>1, <1>3, <2>1, <2>8, <4>1, Zenon DEF Departs, Allowed
    <3>7. CASE ~NulInside(t)
      <4>1. UpToNul(t) = t
        BY <3>3, <3>7, UpToNulAll, Zenon
      <4>2. F!Read(p, id, size, F!Text(p, id, size))
        BY <3>2, <3>5, <4>1, Zenon
      <4> QED
        BY <2>1, <2>5, <2>8, <2>9, <3>1, <4>2, Zenon DEF F!Next, Allowed
    <3> QED
      BY <3>6, <3>7, Zenon
  <2>10. CASE ~(n > 0)
    <3>1. h.at = table[p][id].at
      BY <2>4, <2>5, <2>6, <2>10
    <3>2. result'.ret < 0 /\ result'.data = <<>>
      BY <2>3, <2>10
    <3>3. F!NoEffect
      BY <1>1, <1>3, <2>1, <2>3, <2>4, <2>6, <3>1, <3>2, StaysStep, Zenon
    <3> QED
      BY <2>8, <3>3, Zenon DEF F!Next, Allowed
  <2> QED
    BY <2>9, <2>10, Zenon
<1> QED
  BY <1>2, <1>3, Zenon

\* What User2System leaves in the kernel's buffer: as many bytes, and the text
\* itself when there is no zero byte inside.
LEMMA User2SystemIs ==
  ASSUME NEW b \in Seq(Byte), NEW size \in Nat, size <= Len(b), NEW w \in User2System(b, size)
  PROVE  /\ w \in Seq(Byte) /\ Len(w) = size
         /\ ~NulInside(SubSeq(b, 1, size)) => w = SubSeq(b, 1, size)
<1> DEFINE t == SubSeq(b, 1, size)
<1>1. t \in Seq(Byte) /\ Len(t) = size /\ DOMAIN t = 1..size
  OBVIOUS
<1>2. /\ w \in [DOMAIN t -> Byte]
      /\ \A i \in 1..Len(UpToNul(t)) : w[i] = t[i]
  BY Zenon DEF User2System
<1> HIDE DEF t
<1>3. w \in Seq(Byte) /\ Len(w) = size
  BY <1>1, <1>2
<1>4. ASSUME ~NulInside(t)
      PROVE  w = t
  <2>1. UpToNul(t) = t
    BY <1>1, <1>4, UpToNulAll, Zenon
  <2>2. \A i \in 1..size : w[i] = t[i]
    BY <1>1, <1>2, <2>1, Zenon
  <2> QED
    BY <1>1, <1>3, <2>2
<1> QED
  BY <1>3, <1>4, Zenon DEF t

\* PCB::Write and OpenFile::Write.
LEMMA WriteStep ==
  ASSUME Setting, Structure, NEW p \in Proc, NEW id \in Ids, NEW b \in Buffers,
         NEW size \in Sizes, Write(p, id, b, size)
  PROVE  Structure' /\ Allowed
<1> DEFINE o == GetCurrentPos(table[p][id])
           h == Transfer(o, size)
<1>1. /\ Alive(p) /\ Types /\ b \in Seq(Byte) /\ size \in Int /\ Nul \in Byte
      /\ size <= Len(b)
  BY Zenon DEF Write, Call, Structure, Setting
<1>2. Abort \/ ~Abort
  BY Zenon
<1>3. CASE Abort
  BY <1>3, AbortStep, Zenon
<1>4. CASE ~Abort /\ ~(Writable(p, id) /\ id > 1)
  <2>1. Fails(-1) \/ \E r : OnConsole(r)
    <3>1. ~Writable(p, id) \/ id = 1
      BY <1>4 DEF Writable, IsOpen, Slot, Ids
    <3>2. CASE ~Writable(p, id)
      BY <1>4, <3>2, Zenon DEF Write
    <3>3. CASE id = 1 /\ Writable(p, id)
      <4>1. ~(id > 1)
        BY <3>3
      <4> QED
        BY <1>4, <3>3, <4>1, Zenon DEF Write
    <3> QED
      BY <3>1, <3>2, <3>3, Zenon
  <2> QED
    BY <2>1, FailsStep, Zenon
<1>5. CASE ~Abort /\ Writable(p, id) /\ id > 1
  <2>0. /\ IsOpen(p, id) /\ table[p][id].type # 1 /\ id # 1
        /\ HasBuffer(size)
    <3>1. IsOpen(p, id) /\ table[p][id].type # 1 /\ id # 1
      BY <1>5 DEF Writable
    <3> QED
      BY <1>5, <3>1, Zenon DEF Write
  <2>1. id \in Slot /\ table[p][id] \in Handle /\ file[table[p][id].name] \in Seq(Byte)
    BY <1>1, <2>0, Current, Zenon
  <2>2. PICK w \in User2System(b, size) :
          file' = [file EXCEPT ![o.name] =
                     IF size > 0 THEN Overwrite(@, o.currentOffset, w) ELSE @]
    BY <1>5, <2>0, Zenon DEF Write
  <2>3. /\ table' = [table EXCEPT ![p][id] = h]
        /\ result' = [ret |-> IF size > 0 THEN size ELSE -1, data |-> <<>>]
    BY <1>5, <2>0, Zenon DEF Write, Returns
  <2>4. /\ o \in Handle /\ o.name = table[p][id].name /\ o.reads = table[p][id].reads
        /\ o.type = table[p][id].type
        /\ o.at = table[p][id].at /\ o.currentOffset = o.at /\ o.at \in Nat
    <3> DEFINE g == table[p][id]
    <3>1. g \in Handle
      BY <2>1, Zenon
    <3> HIDE DEF g
    <3>2. /\ GetCurrentPos(g) \in Handle /\ GetCurrentPos(g).name = g.name
          /\ GetCurrentPos(g).reads = g.reads /\ GetCurrentPos(g).type = g.type
          /\ GetCurrentPos(g).at = g.at /\ GetCurrentPos(g).currentOffset = g.at
          /\ g.at \in Nat
      BY <3>1, Fields, Zenon
    <3> QED
      BY <3>2, Zenon DEF g
  <2>5. o.name \in Name
    BY <2>4, Fields, Zenon
  <2> HIDE DEF o
  <2>6. /\ h \in Handle /\ Agree(h)
        /\ h.name = o.name /\ h.reads = o.reads /\ h.type = o.type
        /\ h.at = IF size >= 0 THEN o.at + size ELSE o.at
    <3>1. size >= -1 /\ (size = -1 => -1 \in Sizes)
      BY <2>0, Zenon DEF HasBuffer
    <3>2. TransferIs(o, size)
      BY <1>1, <2>4, <3>1, Transferred, Zenon
    <3> QED
      BY <3>2, Zenon DEF TransferIs
  <2> HIDE DEF h
  <2> DEFINE c == IF size > 0 THEN Overwrite(file[o.name], o.at, w) ELSE file[o.name]
  <2>7. size > 0 => /\ w \in Seq(Byte) /\ Len(w) = size
                    /\ ~NulInside(SubSeq(b, 1, size)) => w = SubSeq(b, 1, size)
    <3>1. size > 0 => size \in Nat
      BY <1>1
    <3> QED
      BY <1>1, <3>1, User2SystemIs, Zenon
  <2>8. c \in Seq(Byte)
    BY <1>1, <2>1, <2>4, <2>7, OverwriteType, Zenon
  <2>9. /\ file' \in [Name -> Seq(Byte) \cup {NoFile}]
        /\ \A m \in Name : file'[m] = IF m = o.name THEN c ELSE file[m]
        /\ file' = [file EXCEPT ![o.name] = c]
    <3> DEFINE S == Seq(Byte) \cup {NoFile}
    <3>1. c \in S /\ file \in [Name -> S]
      BY <1>1, <2>8, Zenon DEF Types
    <3>2. file' = [file EXCEPT ![o.name] = c]
      BY <2>2, <2>4, Zenon
    <3> HIDE DEF c, S
    <3>3. /\ file' \in [Name -> S]
          /\ \A m \in Name : file'[m] = IF m = o.name THEN c ELSE file[m]
      BY <2>5, <3>1, <3>2, Updated, Zenon
    <3> QED
      BY <3>2, <3>3, Zenon DEF S
  <2>10. \A m \in Name : file[m] # NoFile => file'[m] # NoFile
    <3>1. c # NoFile
      BY <2>8, Zenon DEF Setting
    <3> HIDE DEF c
    <3> QED
      BY <2>9, <3>1, Zenon
  <2> HIDE DEF c
  <2>11. Structure'
    BY <1>1, <2>0, <2>1, <2>3, <2>4, <2>6, <2>9, <2>10, MoveKeeps, Zenon
  <2>12. CASE size > 0
    <3>1. /\ Handles[p][id] # NoHandle
          /\ Handles[p][id].name = o.name /\ Handles[p][id].type # 1
          /\ Handles[p][id].pos = o.at
          /\ Handles' = [Handles EXCEPT ![p][id].pos = h.at]
      <4>1. MoveSeenAs(p, id, h)
        BY <1>1, <2>0, <2>1, <2>3, <2>4, <2>6, MoveSeen, Zenon
      <4> QED
        BY <2>0, <2>4, <2>6, <4>1, Zenon DEF MoveSeenAs
    <3>2. c = F!Overwrite(file[o.name], o.at, w)
      <4>1. c = Overwrite(file[o.name], o.at, w)
        BY <2>12, Zenon DEF c
      <4> QED
        BY <2>1, <2>4, <2>7, <2>12, <4>1, SameOverwrite, Zenon
    <3>3. result' = [ret |-> size, data |-> <<>>] /\ h.at = o.at + size
      BY <1>1, <2>3, <2>6, <2>12
    <3> HIDE DEF Handles
    <3>4. F!Write(p, id, w)
      BY <2>7, <2>9, <2>12, <3>1, <3>2, <3>3, Zenon DEF F!Write, F!Result
    <3>5. CASE NulInside(SubSeq(b, 1, size))
      <4>1. WriteGarbled(p, id, b, size)
        BY <3>4, <3>5, Zenon DEF WriteGarbled
      <4> QED
        BY <1>1, <2>0, <2>1, <2>11, <4>1, Zenon DEF Departs, Allowed
    <3>6. CASE ~NulInside(SubSeq(b, 1, size))
      <4>1. F!Write(p, id, SubSeq(b, 1, size))
        BY <2>7, <2>12, <3>4, <3>6, Zenon
      <4>2. size \in 1..Len(b)
        BY <1>1, <2>12
      <4> QED
        BY <2>1, <2>11, <4>1, <4>2, Zenon DEF F!Next, Allowed
    <3> QED
      BY <3>5, <3>6, Zenon
  <2>13. CASE ~(size > 0)
    <3>1. h.at = table[p][id].at
      BY <1>1, <2>4, <2>6, <2>13
    <3>2. file' = file
      BY <1>1, <2>5, <2>9, <2>13, Zenon DEF Types, c
    <3>3. result'.ret < 0 /\ result'.data = <<>>
      BY <2>3, <2>13
    <3>4. F!NoEffect
      BY <1>1, <2>0, <2>1, <2>3, <2>4, <2>6, <3>1, <3>2, <3>3, StaysStep, Zenon
    <3> QED
      BY <2>11, <3>4, Zenon DEF F!Next, Allowed
  <2> QED
    BY <2>12, <2>13, Zenon
<1> QED
  BY <1>3, <1>4, <1>5, Zenon

\* PCB::Seek, OpenFile::Length and OpenFile::Seek.
LEMMA SeekStep ==
  ASSUME Setting, Structure, NEW p \in Proc, NEW id \in Ids, NEW position \in Positions,
         Seek(p, id, position)
  PROVE  Structure' /\ Allowed
<1> DEFINE g == table[p][id]
           o == AfterLength(g)
           length == Len(file[o.name])
           pos == IF position = -1 THEN length ELSE position
           seekable == IsOpen(p, id) /\ id > 1
<1>1. Alive(p) /\ Types
  BY Zenon DEF Seek, Call, Structure
<1>2. CASE Abort \/ ~seekable
  <2>1. Abort \/ Fails(-1)
    BY <1>2, Zenon DEF Seek
  <2> QED
    BY <2>1, FailsStep, AbortStep, Zenon
<1>3. CASE ~Abort /\ seekable
  <2>1. id \in Slot /\ g \in Handle /\ file[g.name] \in Seq(Byte) /\ Agree(g)
    BY <1>1, <1>3, Current, Zenon
  <2>2. o.currentOffset >= 0
    BY <1>3, Zenon DEF Seek
  <2>3. /\ g.at \in Nat /\ g.currentOffset \in Nat \cup {-1}
        /\ o.name = g.name /\ o.reads = g.reads /\ o.type = g.type
        /\ o.at = g.currentOffset /\ o.currentOffset = g.currentOffset
        /\ g.name \in Name
        /\ g.currentOffset >= 0 => o \in Handle
    <3> HIDE DEF g
    <3> QED
      BY <2>1, Fields, Zenon
  <2>4. o \in Handle /\ g.currentOffset \in Nat
    BY <2>2, <2>3
  <2>5. length \in Nat
    BY <2>1, <2>3
  <2>6. CASE pos \in 0..length
    <3> DEFINE h == OpenFileSeek(o, pos)
    <3>1. /\ table' = [table EXCEPT ![p][id] = h] /\ file' = file
          /\ result' = [ret |-> pos, data |-> <<>>]
      BY <1>3, <2>6, Zenon DEF Seek, Returns
    <3>2. pos \in Nat
      BY <2>5, <2>6
    <3> HIDE DEF pos, o
    <3>3. /\ h \in Handle /\ Agree(h)
          /\ h.name = g.name /\ h.reads = g.reads /\ h.type = g.type /\ h.at = pos
      <4>1. SeekIs(o, pos)
        BY <2>4, <3>2, Sought, Zenon
      <4> QED
        BY <2>3, <4>1, Zenon DEF SeekIs
    <3>4. file' \in [Name -> Seq(Byte) \cup {NoFile}]
      BY <1>1, <3>1, Zenon DEF Types
    <3> HIDE DEF h
    <3>5. Structure'
      BY <1>1, <1>3, <2>1, <3>1, <3>3, <3>4, MoveKeeps, Zenon
    <3>6. MoveSeenAs(p, id, h)
      BY <1>1, <1>3, <2>1, <3>1, <3>3, MoveSeen, Zenon
    <3>7. F!Seek(p, id, pos)
      BY <2>3, <2>6, <3>1, <3>3, <3>6, Zenon DEF MoveSeenAs, F!Seek, F!Result
    <3>8. result'.ret = pos
      BY <3>1, Zenon
    <3> QED
      BY <2>1, <3>5, <3>7, <3>8, Zenon DEF F!Next, Allowed
  <2>7. CASE ~(pos \in 0..length)
    <3>1. /\ table' = [table EXCEPT ![p][id] = o] /\ file' = file
          /\ result' = [ret |-> -1, data |-> <<>>]
      BY <1>3, <2>7, Zenon DEF Seek, Returns
    <3>2. /\ Agree(o)
          /\ file' \in [Name -> Seq(Byte) \cup {NoFile}]
      BY <1>1, <2>3, <3>1, Zenon DEF Types, Agree
    <3> HIDE DEF o
    <3>3. Structure'
      BY <1>1, <1>3, <2>1, <2>3, <2>4, <3>1, <3>2, MoveKeeps, Zenon
    <3>4. result'.ret < 0 /\ result'.data = <<>>
      BY <3>1
    <3>5. CASE g.currentOffset = g.at
      <4>1. F!NoEffect
        BY <1>1, <1>3, <2>1, <2>3, <2>4, <3>1, <3>4, <3>5, StaysStep, Zenon
      <4> QED
        BY <3>3, <4>1, Zenon DEF F!Next, Allowed
    <3>6. CASE g.currentOffset # g.at
      <4>1. -1 \in Sizes /\ g.currentOffset = g.at - 1 /\ g.at = g.currentOffset + 1
        BY <2>1, <2>3, <3>6 DEF Agree
      <4>2. MoveSeenAs(p, id, o)
        BY <1>1, <1>3, <2>1, <2>3, <2>4, <3>1, MoveSeen, Zenon
      <4>3. F!Back(p, id)
        BY <2>3, <3>1, <4>1, <4>2, Zenon DEF MoveSeenAs, F!Back, F!Result
      <4>4. SlippedSeek(p, id)
        BY <4>1, <4>3, Zenon DEF SlippedSeek
      <4> QED
        BY <1>1, <1>3, <2>1, <3>3, <4>1, <4>4, Zenon DEF Departs, Allowed
    <3> QED
      BY <3>5, <3>6, Zenon
  <2> QED
    BY <2>6, <2>7, Zenon
<1> QED
  BY <1>2, <1>3, Zenon

-----------------------------------------------------------------------------
(* The theorems.                                                           *)

\* The invariant holds before the first process.
LEMMA StructureInit ==
  ASSUME Setting, Init
  PROVE  Structure
<1>1. /\ file = [n \in Name |-> IF n \in {Stdin, Stdout} THEN <<>> ELSE Existing[n]]
      /\ table = [p \in Proc |-> NoHandle]
  BY Zenon DEF Init
<1>2. \A p \in Proc : ~Alive(p)
  BY <1>1, Zenon DEF Alive
<1>3. Types
  <2>1. \A n \in Name : (IF n \in {Stdin, Stdout} THEN <<>> ELSE Existing[n])
                          \in Seq(Byte) \cup {NoFile}
    BY DEF Setting
  <2>2. file \in [Name -> Seq(Byte) \cup {NoFile}]
    BY <1>1, <2>1, Zenon
  <2>3. table \in [Proc -> Table \cup {NoHandle}]
    BY <1>1, Zenon
  <2> QED
    BY <2>2, <2>3, Zenon DEF Types
<1> QED
  BY <1>2, <1>3, Zenon DEF Structure, Backed, OffsetsAgree, ConsoleStays, OpenOnce

\* Every step keeps the invariant and does what Files allows.
LEMMA StructureNext ==
  ASSUME Setting, Structure, [Next]_vars
  PROVE  Structure' /\ Allowed
<1>1. CASE UNCHANGED vars
  <2>1. file' = file /\ table' = table /\ result' = result
    BY <1>1, Zenon DEF vars
  <2>2. Structure'
    BY <2>1, Zenon DEF Structure, Types, Backed, OffsetsAgree, ConsoleStays, OpenOnce, Alive, IsOpen
  <2>3. Handles' = Handles
    BY <2>1, Zenon DEF Handles, Alive, IsOpen
  <2> QED
    BY <2>1, <2>2, <2>3, Zenon DEF F!vars, Allowed
<1>2. CASE Next
  <2>1. PICK p \in Proc :
          \/ NewPCB(p) \/ DeletePCB(p)
          \/ \E n \in Name : CreateFile(p, n) \/ \E type \in 0..3 : Open(p, n, type)
          \/ \E id \in Ids : \/ Close(p, id)
                             \/ \E size \in Sizes :
                                  Read(p, id, size) \/ \E b \in Buffers : Write(p, id, b, size)
                             \/ \E pos \in Positions : Seek(p, id, pos)
    BY <1>2, Zenon DEF Next
  <2>2. CASE NewPCB(p)
    BY <2>2, NewPCBStep, Zenon
  <2>3. CASE DeletePCB(p)
    BY <2>3, DeletePCBStep, Zenon
  <2>4. CASE \E n \in Name : CreateFile(p, n)
    BY <2>4, CreateFileStep, Zenon
  <2>5. CASE \E n \in Name : \E type \in 0..3 : Open(p, n, type)
    BY <2>5, OpenStep, Zenon
  <2>6. CASE \E id \in Ids : Close(p, id)
    BY <2>6, CloseStep, Zenon
  <2>7. CASE \E id \in Ids : \E size \in Sizes : Read(p, id, size)
    BY <2>7, ReadStep, Zenon
  <2>8. CASE \E id \in Ids : \E size \in Sizes : \E b \in Buffers : Write(p, id, b, size)
    BY <2>8, WriteStep, Zenon
  <2>9. CASE \E id \in Ids : \E pos \in Positions : Seek(p, id, pos)
    BY <2>9, SeekStep, Zenon
  <2> QED
    BY <2>1, <2>2, <2>3, <2>4, <2>5, <2>6, <2>7, <2>8, <2>9, Zenon
<1> QED
  BY <1>1, <1>2, Zenon

\* In every reachable state the kernel and UNIX agree on every position, or the
\* kernel's is one less after a size of -1, which no further such call makes two;
\* ids 0 and 1 mean the console or nothing; and a process has a file open at most
\* once as long as the copied names read right.
THEOREM FilesSafe ==
  ASSUME Setting
  PROVE  Spec => [](OffsetsAgree /\ ConsoleStays /\ OpenOnce)
<1>1. Init => Structure
  BY StructureInit, Zenon
<1>2. Structure /\ [Next]_vars => Structure'
  BY StructureNext, Zenon
<1>3. Structure => OffsetsAgree /\ ConsoleStays /\ OpenOnce
  BY Zenon DEF Structure
<1> QED
  BY <1>1, <1>2, <1>3, PTL DEF Spec

\* For every size a program may pass, negative ones too, a file call does what
\* userprog/syscall.h promises (module Files), or departs from it in one of the
\* ways that Departs names: 0 from Close, a Read cut at a zero byte, a Write
\* garbled behind one, a failed Seek that slips by one after a size of -1.
THEOREM FilesRefined ==
  ASSUME Setting
  PROVE  Spec => ImplementsFiles
<1>1. Init => Structure
  BY StructureInit, Zenon
<1>2. Structure /\ [Next]_vars => Structure'
  BY StructureNext, Zenon
<1>3. Structure /\ [Next]_vars => [F!Next \/ Departs]_(F!vars)
  BY StructureNext, Zenon DEF Allowed
<1> QED
  BY <1>1, <1>2, <1>3, PTL DEF Spec, ImplementsFiles
=============================================================================
