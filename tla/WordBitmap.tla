----------------------------- MODULE WordBitmap -----------------------------
(***************************************************************************)
(* Bitmap (lib/bitmap.h, lib/bitmap.cc): bits in an array of words.  The   *)
(* other modules take a bitmap as the set of its marked bits.              *)
(***************************************************************************)
EXTENDS Integers, FiniteSetsExt, Bitwise

CONSTANTS BitsInWord, NumBits

VARIABLES map,      \* the words
          marked    \* the bits that should be set

vars == <<map, marked>>

numWords == (NumBits + BitsInWord - 1) \div BitsInWord
Bit == 0..(NumBits - 1)
Word(which) == which \div BitsInWord

\* 1 << (which % BitsInWord)
Mask(which) == 2^(which % BitsInWord)

Complement(x) == (2^BitsInWord) - 1 - x

Test(which) == (map[Word(which)] & Mask(which)) # 0

Marked(which) == [map EXCEPT ![Word(which)] = @ | Mask(which)]

Init ==
  /\ map = [w \in 0..(numWords - 1) |-> 0]
  /\ marked = {}

Mark(which) ==
  /\ map' = Marked(which)
  /\ marked' = marked \cup {which}

\* Mutant: the other bits of the word are cleared.
ClearOthers(which) ==
  /\ map' = [map EXCEPT ![Word(which)] = @ & Mask(which)]
  /\ marked' = marked \ {which}

Clear(which) ==
  /\ map' = [map EXCEPT ![Word(which)] = @ & Complement(Mask(which))]
  /\ marked' = marked \ {which}

\* Bitmap::NumClear counts what FindAndSet would find.
NumClear == Cardinality({b \in Bit : ~Test(b)})

FindAndSet ==
  LET clear == {b \in Bit : ~Test(b)} IN
  /\ map' = IF clear = {} THEN map ELSE Marked(Min(clear))
  /\ marked' = IF clear = {} THEN marked ELSE marked \cup {Min(clear)}

Next == FindAndSet \/ \E b \in Bit : Mark(b) \/ Clear(b)

Spec == Init /\ [][Next]_vars

\* The words represent the set of the marked bits, also where a word ends and
\* in a last word that is used in part, and NumClear counts the others.
Represents ==
  /\ \A b \in Bit : Test(b) <=> b \in marked
  /\ NumClear = NumBits - Cardinality(marked)
=============================================================================
