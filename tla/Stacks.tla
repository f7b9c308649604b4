------------------------------- MODULE Stacks -------------------------------
(***************************************************************************)
(* The stacks of c++example: the abstract class Stack (inheritstack.h),    *)
(* its ArrayStack and its ListStack over the List of list.cc, and their    *)
(* self test.  Another client pushes and pops what it likes, within the    *)
(* assertions.                                                             *)
(***************************************************************************)
EXTENDS Integers, Sequences, FiniteSetsExt

CONSTANTS Size,       \* of the array: the argument of ArrayStack
          Addr, NULL, \* addresses of list elements; their number bounds ListStack
          Values,     \* what the other client pushes
          Undefined   \* an int that was never assigned

VARIABLES class,      \* "ArrayStack" or "ListStack"
          top, stack, \* ArrayStack
          heap, first, last, \* List
          client,     \* "any", "push" or "pop" (the self test), "done"
          given,      \* what was pushed and not popped, the latest first
          count,      \* of SelfTest
          popped      \* the last result of Pop, and what it should be

arrayVars == <<top, stack>>
listVars == <<heap, first, last>>
vars == <<class, arrayVars, listVars, client, given, count, popped>>

\* ArrayStack's constructor: the array is not cleared.
ArrayStack == top = 0 /\ stack = [k \in 0..(Size - 1) |-> Undefined]

\* List's constructor.
List == heap = <<>> /\ first = NULL /\ last = NULL

Init ==
  /\ class \in {"ArrayStack", "ListStack"}
  /\ ArrayStack
  /\ List
  /\ client \in {"any", "push"}
  /\ given = <<>>
  /\ count = 17
  /\ popped = <<Undefined, Undefined>>

----------------------------------------------------------------------------
ArrayFull == top = Size
ArrayEmpty == top = 0

\* Mutant: the index is incremented before it is used.
ArrayPushNext(v) ==
  /\ stack' = [stack EXCEPT ![(top + 1) % Size] = v]
  /\ top' = top + 1
  /\ UNCHANGED listVars

ArrayPush(v) ==
  /\ stack' = [stack EXCEPT ![top] = v]
  /\ top' = top + 1
  /\ UNCHANGED listVars

ArrayPop ==
  /\ top' = top - 1
  /\ UNCHANGED <<stack, listVars>>

----------------------------------------------------------------------------
ListEmpty == first = NULL
ListElement(v) == [item |-> v, next |-> NULL]

\* List::Prepend.
Prepend(v) ==
  LET e == Min(Addr \ DOMAIN heap)
      element == [ListElement(v) EXCEPT !.next = first]
  IN  /\ heap' = [x \in DOMAIN heap \cup {e} |-> IF x = e THEN element ELSE heap[x]]
      /\ first' = e
      /\ last' = IF ListEmpty THEN e ELSE last
      /\ UNCHANGED arrayVars

\* List::Remove.
Remove ==
  /\ first' = IF first = last THEN NULL ELSE heap[first].next
  /\ last' = IF first = last THEN NULL ELSE last
  /\ heap' = [x \in DOMAIN heap \ {first} |-> heap[x]]
  /\ UNCHANGED arrayVars

----------------------------------------------------------------------------
\* The virtual functions.  ListStack::Full is FALSE: a list cannot overflow, and
\* here it ends where the addresses do.
Full == class = "ArrayStack" /\ ArrayFull
Empty == IF class = "ArrayStack" THEN ArrayEmpty ELSE ListEmpty
TopItem == IF class = "ArrayStack" THEN stack[top - 1] ELSE heap[first].item

Push(v) ==
  /\ ~Full
  /\ class = "ListStack" => DOMAIN heap # Addr
  /\ IF class = "ArrayStack" THEN ArrayPush(v) ELSE Prepend(v)
  /\ given' = <<v>> \o given
  /\ UNCHANGED <<class, popped>>

Pop ==
  /\ ~Empty
  /\ IF class = "ArrayStack" THEN ArrayPop ELSE Remove
  /\ popped' = <<TopItem, Head(given)>>
  /\ given' = Tail(given)
  /\ UNCHANGED <<class, count>>

\* Stack::SelfTest pushes Size numbers from 17 on,
SelfTestPush ==
  /\ client = "push"
  /\ Len(given) < Size
  /\ Push(count)
  /\ count' = count + 1
  /\ UNCHANGED client

\* and pops until the stack is empty.
SelfTestPop ==
  /\ client = "pop" \/ (client = "push" /\ Len(given) = Size)
  /\ Pop
  /\ client' = "pop"

\* main deletes the stack; ~List removes what is left.
Delete ==
  /\ client = "any" \/ (client = "pop" /\ Empty)
  /\ client' = "done"
  /\ top' = 0
  /\ heap' = <<>> /\ first' = NULL /\ last' = NULL
  /\ given' = <<>>
  /\ UNCHANGED <<class, stack, count, popped>>

Any ==
  /\ client = "any"
  /\ Pop \/ (\E v \in Values : Push(v) /\ UNCHANGED count)
  /\ UNCHANGED client

Next == SelfTestPush \/ SelfTestPop \/ Delete \/ Any

Spec == Init /\ [][Next]_vars

----------------------------------------------------------------------------
\* Both implementations are the same stack: Pop gives what was pushed last, Empty
\* is right, and a list has no element that is not on the stack.
LastInFirstOut ==
  /\ popped[1] = popped[2]
  /\ Empty <=> given = <<>>
  /\ ~Empty => TopItem = Head(given)
  /\ Cardinality(DOMAIN heap) = IF class = "ListStack" THEN Len(given) ELSE 0
=============================================================================
