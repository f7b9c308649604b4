------------------------------ MODULE LibTest ------------------------------
(***************************************************************************)
(* LibSelfTest (lib/libtest.cc): the self tests of Bitmap, List,           *)
(* SortedList and HashTable, each on an object of its own, over the        *)
(* operations of modules WordBitmap, LinkedList and HashTable.  A test is  *)
(* the sequence of its calls, some with the result the code asserts.       *)
(***************************************************************************)
EXTENDS Integers, SequencesExt, FiniteSetsExt

CONSTANTS BitsInWord, NumBits,   \* of the bitmap; HighBit is 31 in the code
          HighBit,
          Addr, NULL, Closed

VARIABLES map, marked,
          sorted, heap, first, last, numInList, expected,
          buckets, numBuckets, numItems, iter, seen,
          test,     \* the object under test
          script,   \* the calls that are left
          q,        \* SortedList::SelfTest: what RemoveFront returned
          failed    \* an ASSERT of the test did not hold

bitVars == <<map, marked>>
listVars == <<sorted, heap, first, last, numInList, expected>>
hashVars == <<buckets, numBuckets, numItems, iter, seen>>
vars == <<bitVars, listVars, hashVars, test, script, q, failed>>

listTestVector == <<9, 5, 7>>

\* hashTestVector, converted by HashKey; enough to force a ReHash.
hashTestVector == [k \in 1..15 |-> k - 1]

\* IntCompare orders the items by themselves.
IntCompareKey(x) == x

Bit == INSTANCE WordBitmap
Lst == INSTANCE LinkedList WITH Items <- Range(listTestVector), Key <- IntCompareKey
Hsh == INSTANCE HashTable
       WITH Keys <- Range(hashTestVector), InitialBuckets <- 4, ResizeRatio <- 3,
            IncreaseSizeBy <- 4

----------------------------------------------------------------------------
\* A call, and a call with the result that is asserted.
Call(op, arg) == <<[op |-> op, arg |-> arg, checked |-> FALSE, gives |-> 0]>>
Check(op, arg, v) == <<[op |-> op, arg |-> arg, checked |-> TRUE, gives |-> v]>>
Each(n, f(_)) == FlattenSeq([k \in 1..n |-> f(k)])

BitmapSelfTest ==
  LET marks(k) == Call("Mark", k - 1)
      clears(k) == Call("Clear", k - 1)
  IN  Check("NumClear", 0, NumBits) \o Check("FindAndSet", 0, 0) \o Call("Mark", HighBit)
      \o Check("Test", 0, TRUE) \o Check("Test", HighBit, TRUE) \o Check("FindAndSet", 0, 1)
      \o Call("Clear", 0) \o Call("Clear", 1) \o Call("Clear", HighBit)
      \o Each(NumBits, marks) \o Check("FindAndSet", 0, -1) \o Each(NumBits, clears)

ListSelfTest(p) ==
  LET in(k) == Call("Append", p[k]) \o Check("IsInList", p[k], TRUE) \o Check("IsEmpty", 0, FALSE)
      out(k) == Call("Remove", p[k]) \o Check("IsInList", p[k], FALSE)
      sane == Check("SanityCheck", 0, TRUE)
      empty == Check("IsEmpty", 0, TRUE)
  IN  sane \o empty \o Check("IsDone", 0, TRUE) \o Each(Len(p), in) \o sane
      \o Each(Len(p), out) \o empty \o sane

SortedListSelfTest(p) ==
  LET in(k) == Call("Insert", p[k]) \o Check("IsInList", p[k], TRUE)
      out(k) == Call("RemoveFront", 0) \o Check("TakenIsInList", k, FALSE)
      inOrder(k) == Check("TakenInOrder", k, TRUE)
      sane == Check("SanityCheck", 0, TRUE)
  IN  ListSelfTest(p) \o Each(Len(p), in) \o sane \o Each(Len(p), out)
      \o Check("IsEmpty", 0, TRUE) \o Each(Len(p) - 1, inOrder) \o sane

HashTableSelfTest(p) ==
  LET in(k) == Call("HashInsert", p[k]) \o Check("IsInTable", p[k], TRUE)
               \o Check("IsEmptyTable", 0, FALSE)
      out(k) == Check("HashRemove", p[k], p[k])
      sane == Check("SanityCheckTable", 0, TRUE)
      empty == Check("IsEmptyTable", 0, TRUE)
  IN  sane \o empty \o Check("IteratorIsDone", 0, TRUE) \o Each(Len(p), in) \o Each(Len(p), out)
      \o empty \o sane

\* LibSelfTest.
Init ==
  /\ Bit!Init /\ Lst!Init /\ Hsh!Init
  /\ test \in {"Bitmap", "List", "SortedList", "HashTable"}
  /\ sorted <=> test = "SortedList"
  /\ script = CASE test = "Bitmap" -> BitmapSelfTest
                [] test = "List" -> ListSelfTest(listTestVector)
                [] test = "SortedList" -> SortedListSelfTest(listTestVector)
                [] test = "HashTable" -> HashTableSelfTest(hashTestVector)
  /\ q = <<>>
  /\ failed = FALSE

----------------------------------------------------------------------------
\* What the call returns in this state.
Result(c) ==
  CASE c.op = "NumClear" -> Bit!NumClear
    [] c.op = "Test" -> Bit!Test(c.arg)
    [] c.op = "FindAndSet" ->
         IF Bit!NumClear = 0 THEN -1 ELSE Min({b \in Bit!Bit : ~Bit!Test(b)})
    [] c.op = "IsInList" -> Lst!IsInList(c.arg)
    [] c.op = "IsEmpty" -> Lst!IsEmpty
    [] c.op = "IsDone" -> first = NULL
    [] c.op = "SanityCheck" -> Lst!SanityCheck /\ (sorted => Lst!SortedCheck)
    [] c.op = "TakenIsInList" -> Lst!IsInList(q[c.arg])
    [] c.op = "TakenInOrder" -> q[c.arg] <= q[c.arg + 1]
    [] c.op = "IsInTable" -> Hsh!Find(c.arg)
    [] c.op = "IsEmptyTable" -> numItems = 0
    [] c.op = "SanityCheckTable" -> Hsh!SanityCheck
    [] c.op = "IteratorIsDone" -> Hsh!FindNextFullBucket(0).bucket = numBuckets
    [] c.op = "HashRemove" -> IF Hsh!Find(c.arg) THEN c.arg ELSE -1
    [] OTHER -> 0

\* What the call changes.  SortedList::Append inserts.
Effect(c) ==
  \/ c.op = "Mark" /\ Bit!Mark(c.arg) /\ UNCHANGED <<listVars, hashVars, q>>
  \/ c.op = "Clear" /\ Bit!Clear(c.arg) /\ UNCHANGED <<listVars, hashVars, q>>
  \/ c.op = "FindAndSet" /\ Bit!FindAndSet /\ UNCHANGED <<listVars, hashVars, q>>
  \/ c.op = "Append" /\ Lst!ListAppend(c.arg) /\ UNCHANGED <<bitVars, hashVars, q>>
  \/ c.op \in {"Append", "Insert"} /\ Lst!Insert(c.arg) /\ UNCHANGED <<bitVars, hashVars, q>>
  \/ c.op = "Remove" /\ Lst!RemoveItem(c.arg) /\ UNCHANGED <<bitVars, hashVars, q>>
  \/ /\ c.op = "Remove" /\ heap[first].item = c.arg
     /\ Lst!RemoveFront /\ UNCHANGED <<bitVars, hashVars, q>>
  \/ /\ c.op = "RemoveFront" /\ Lst!RemoveFront
     /\ q' = Append(q, heap[first].item) /\ UNCHANGED <<bitVars, hashVars>>
  \/ c.op = "HashInsert" /\ Hsh!Insert(c.arg) /\ UNCHANGED <<bitVars, listVars, q>>
  \/ c.op = "HashRemove" /\ Hsh!Delete(c.arg) /\ UNCHANGED <<bitVars, listVars, q>>

Changes == {"Mark", "Clear", "FindAndSet", "Append", "Insert", "Remove", "RemoveFront",
            "HashInsert", "HashRemove"}

Step ==
  /\ script # <<>>
  /\ ~failed
  /\ LET c == Head(script) IN
       /\ IF c.op \in Changes THEN Effect(c) ELSE UNCHANGED <<bitVars, listVars, hashVars, q>>
       /\ failed' = (c.checked /\ Result(c) # c.gives)
  /\ script' = Tail(script)
  /\ UNCHANGED test

Next == Step

Spec == Init /\ [][Next]_vars

----------------------------------------------------------------------------
\* The self tests of the library pass: no ASSERT of theirs fails, and none of the
\* operations they call finds an item twice or not at all.
SelfTestsPass ==
  /\ ~failed
  /\ script # <<>> =>
       LET c == Head(script) IN
       /\ c.op \in {"Append", "Insert"} => ~Lst!IsInList(c.arg)
       /\ c.op = "Remove" => Lst!IsInList(c.arg)
       /\ c.op = "RemoveFront" => ~Lst!IsEmpty
       /\ c.op = "HashInsert" => ~Hsh!Find(c.arg)
       /\ c.op = "HashRemove" => Hsh!Find(c.arg)
=============================================================================
