----------------------------- MODULE HashTable -----------------------------
(***************************************************************************)
(* HashTable and HashIterator (lib/hash.h, lib/hash.cc).  A bucket is a    *)
(* list, taken as a sequence (module LinkedList); the hash function is the *)
(* one of lib/libtest.cc, the key itself.                                  *)
(***************************************************************************)
EXTENDS Integers, SequencesExt, FiniteSetsExt

CONSTANTS Keys,             \* an item is its key
          InitialBuckets, ResizeRatio, IncreaseSizeBy,
          Closed            \* no iterator

VARIABLES buckets, numBuckets, numItems,
          iter,             \* HashIterator: bucket and place in the bucket
          seen              \* what the iterator has given

vars == <<buckets, numBuckets, numItems, iter, seen>>

Buckets(n) == 0..(n - 1)
HashValue(key, n) == key % n
Find(key) == key \in Range(buckets[HashValue(key, numBuckets)])

Init ==
  /\ numBuckets = InitialBuckets
  /\ buckets = [b \in Buckets(InitialBuckets) |-> <<>>]
  /\ numItems = 0
  /\ iter = Closed
  /\ seen = <<>>

\* All items, in the order in which ReHash takes them out.
AllItems == FlattenSeq([b \in 1..numBuckets |-> buckets[b - 1]])

\* Mutant: the items go where they hashed to before.
ReHashedOld ==
  [b \in Buckets(numBuckets * IncreaseSizeBy) |->
     SelectSeq(AllItems, LAMBDA k : HashValue(k, numBuckets) = b)]

\* HashTable::ReHash.
ReHashed ==
  [b \in Buckets(numBuckets * IncreaseSizeBy) |->
     SelectSeq(AllItems, LAMBDA k : HashValue(k, numBuckets * IncreaseSizeBy) = b)]

\* Mutant: the table grows one insertion too late.
GrowsLate == numItems \div numBuckets > ResizeRatio

Grows == numItems \div numBuckets >= ResizeRatio

\* HashTable::Insert; an iterator does not outlive it (ReHash deletes buckets).
Insert(key) ==
  /\ ~Find(key)
  /\ LET n == IF Grows THEN numBuckets * IncreaseSizeBy ELSE numBuckets
         table == IF Grows THEN ReHashed ELSE buckets
     IN  /\ numBuckets' = n
         /\ buckets' = [table EXCEPT ![HashValue(key, n)] = Append(@, key)]
  /\ numItems' = numItems + 1
  /\ iter' = Closed
  /\ seen' = <<>>

\* HashTable::Remove; the table never shrinks.
Delete(key) ==
  /\ Find(key)
  /\ buckets' = [buckets EXCEPT ![HashValue(key, numBuckets)] =
                   SelectSeq(@, LAMBDA k : k # key)]
  /\ numItems' = numItems - 1
  /\ iter' = Closed
  /\ seen' = <<>>
  /\ UNCHANGED numBuckets

\* The iterator at the head of bucket b, or of the next that has an item.
FindNextFullBucket(b) ==
  [bucket |-> Min({c \in b..numBuckets : c < numBuckets => buckets[c] # <<>>}), at |-> 1]

Iterate ==
  /\ iter = Closed
  /\ iter' = FindNextFullBucket(0)
  /\ seen' = <<>>
  /\ UNCHANGED <<buckets, numBuckets, numItems>>

IsDone == iter.bucket = numBuckets

\* Mutant: a bucket is passed over.
AfterSkips == FindNextFullBucket(Min({iter.bucket + 2, numBuckets}))

\* Where the iterator goes from the end of a bucket.
After == FindNextFullBucket(iter.bucket + 1)

\* HashIterator::Item and Next.
IterNext ==
  /\ iter # Closed
  /\ ~IsDone
  /\ seen' = Append(seen, buckets[iter.bucket][iter.at])
  /\ iter' = IF iter.at < Len(buckets[iter.bucket]) THEN [iter EXCEPT !.at = @ + 1] ELSE After
  /\ UNCHANGED <<buckets, numBuckets, numItems>>

Close ==
  /\ iter # Closed
  /\ iter' = Closed
  /\ seen' = <<>>
  /\ UNCHANGED <<buckets, numBuckets, numItems>>

Next == Iterate \/ IterNext \/ Close \/ \E k \in Keys : Insert(k) \/ Delete(k)

Spec == Init /\ [][Next]_vars

----------------------------------------------------------------------------
\* HashTable::SanityCheck: every item is where Find looks for it, also after
\* the table has grown, and numItems counts them.
SanityCheck ==
  /\ numItems = Len(AllItems)
  /\ \A b \in DOMAIN buckets : \A k \in Range(buckets[b]) : HashValue(k, numBuckets) = b

\* The table grows in time: never more than ResizeRatio items to a bucket.
LoadBound == numItems <= ResizeRatio * numBuckets

\* An iterator that is done has given every item of the table once.
IteratesAll ==
  iter # Closed /\ IsDone => IsInjective(seen) /\ Range(seen) = Range(AllItems)
=============================================================================
