---------------------------- MODULE LinkedList ----------------------------
(***************************************************************************)
(* List and SortedList (lib/list.h, lib/list.cc) as elements in memory,    *)
(* linked by next and reached from first and last.  The kernel's queues    *)
(* are these lists; the other modules take them as sequences.              *)
(***************************************************************************)
EXTENDS Integers, SequencesExt, FiniteSetsExt

CONSTANTS Items, Key(_),   \* what is put in, and what compare looks at
          Addr, NULL       \* addresses of elements; bounds the length

VARIABLES
  sorted,                  \* a SortedList or a plain List
  heap,                    \* the elements that are allocated
  first, last, numInList,
  expected                 \* the items that should be in the list, in order

vars == <<sorted, heap, first, last, numInList, expected>>

Element(i, n) == [item |-> i, next |-> n]

\* ListElement's constructor, at some free address.
Fresh == Min(Addr \ DOMAIN heap)
Alloc(a, e) == [x \in DOMAIN heap \cup {a} |-> IF x = a THEN e ELSE heap[x]]
Linked(h, a, n) == [h EXCEPT ![a].next = n]
Deleted(h, a) == [x \in DOMAIN h \ {a} |-> h[x]]

RECURSIVE Chain(_)
\* The elements from a on, as the loops of the code walk them.
Chain(a) == IF a = NULL THEN <<>> ELSE <<a>> \o Chain(heap[a].next)

Elements == Chain(first)
Contents == [k \in DOMAIN Elements |-> heap[Elements[k]].item]
IsInList(i) == i \in Range(Contents)
IsEmpty == numInList = 0

Init ==
  /\ sorted \in BOOLEAN
  /\ heap = <<>>
  /\ first = NULL /\ last = NULL
  /\ numInList = 0
  /\ expected = <<>>

\* The assertions at the head of the operations that add an item.
Adds(i) == ~IsInList(i) /\ Addr # DOMAIN heap

ListAppend(i) ==
  /\ ~sorted
  /\ Adds(i)
  /\ LET e == Fresh IN
       /\ heap' = IF IsEmpty THEN Alloc(e, Element(i, NULL))
                  ELSE Linked(Alloc(e, Element(i, NULL)), last, e)
       /\ first' = IF IsEmpty THEN e ELSE first
       /\ last' = e
  /\ numInList' = numInList + 1
  /\ expected' = Append(expected, i)
  /\ UNCHANGED sorted

Prepend(i) ==
  /\ ~sorted
  /\ Adds(i)
  /\ LET e == Fresh IN
       /\ heap' = Alloc(e, Element(i, IF IsEmpty THEN NULL ELSE first))
       /\ first' = e
       /\ last' = IF IsEmpty THEN e ELSE last
  /\ numInList' = numInList + 1
  /\ expected' = <<i>> \o expected
  /\ UNCHANGED sorted

\* Mutant: behind the first that is not smaller.
GoesBeforeEqual(i, a) == Key(i) <= Key(heap[a].item)

\* compare(item, ...) < 0
GoesBefore(i, a) == Key(i) < Key(heap[a].item)

\* Where the loop of Insert stops: the last element, or the one whose successor
\* is the first that is bigger.
InsertAfter(i) ==
  LET bigger == {k \in 2..Len(Elements) : GoesBefore(i, Elements[k])}
  IN  IF bigger = {} THEN last ELSE Elements[Min(bigger) - 1]

Insert(i) ==
  /\ sorted
  /\ Adds(i)
  /\ LET e == Fresh
         front == ~IsEmpty /\ GoesBefore(i, first)
         p == InsertAfter(i)
     IN  /\ heap' = IF IsEmpty \/ front THEN Alloc(e, Element(i, first))
                    ELSE Linked(Alloc(e, Element(i, heap[p].next)), p, e)
         /\ first' = IF IsEmpty \/ front THEN e ELSE first
         /\ last' = IF IsEmpty \/ (~front /\ p = last) THEN e ELSE last
  /\ numInList' = numInList + 1
  /\ LET k == Cardinality({j \in DOMAIN expected : Key(expected[j]) <= Key(i)})
     IN  expected' = InsertAt(expected, k + 1, i)
  /\ UNCHANGED sorted

RemoveFront ==
  /\ ~IsEmpty
  /\ heap' = Deleted(heap, first)
  /\ first' = IF first = last THEN NULL ELSE heap[first].next
  /\ last' = IF first = last THEN NULL ELSE last
  /\ numInList' = numInList - 1
  /\ expected' = Tail(expected)
  /\ UNCHANGED sorted

\* Mutant: last still points to the element that is gone.
RemoveItemStale(i) ==
  /\ IsInList(i)
  /\ heap[first].item # i
  /\ LET k == CHOOSE j \in DOMAIN Elements : heap[Elements[j]].item = i
         prev == Elements[k - 1]
         ptr == Elements[k]
     IN  heap' = Deleted(Linked(heap, prev, heap[ptr].next), ptr)
  /\ numInList' = numInList - 1
  /\ expected' = SelectSeq(expected, LAMBDA x : x # i)
  /\ UNCHANGED <<sorted, first, last>>

\* List::Remove of an item that is not the first.
RemoveItem(i) ==
  /\ IsInList(i)
  /\ heap[first].item # i
  /\ LET k == CHOOSE j \in DOMAIN Elements : heap[Elements[j]].item = i
         prev == Elements[k - 1]
         ptr == Elements[k]
     IN  /\ heap' = Deleted(Linked(heap, prev, heap[ptr].next), ptr)
         /\ last' = IF heap[ptr].next = NULL THEN prev ELSE last
  /\ numInList' = numInList - 1
  /\ expected' = SelectSeq(expected, LAMBDA x : x # i)
  /\ UNCHANGED <<sorted, first>>

Next ==
  \/ RemoveFront
  \/ \E i \in Items : ListAppend(i) \/ Prepend(i) \/ Insert(i) \/ RemoveItem(i)

Spec == Init /\ [][Next]_vars

----------------------------------------------------------------------------
\* The list holds what was put in and not taken out, in the order of a queue,
\* or sorted with equal keys in order of insertion, after any sequence of calls.
HoldsExpected == Contents = expected

\* List::SanityCheck: last is the end of the chain that begins at first, and
\* numInList is its length; and no other element is allocated.
SanityCheck ==
  /\ numInList = Len(Elements)
  /\ Range(Elements) = DOMAIN heap
  /\ last = IF first = NULL THEN NULL ELSE Elements[Len(Elements)]

\* SortedList::SanityCheck.
SortedCheck == \A k \in 2..Len(Contents) : Key(Contents[k - 1]) <= Key(Contents[k])
=============================================================================
