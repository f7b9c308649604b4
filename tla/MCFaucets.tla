----------------------------- MODULE MCFaucets -----------------------------
(***************************************************************************)
(* Module Faucets on its own, with an input line whose first amount has    *)
(* two digits, so that a shorter text may be written over a longer one in  *)
(* request.txt.  Digits are those of Base.                                 *)
(***************************************************************************)
EXTENDS Faucets

CONSTANTS main, pipe

\* Two lines of input: amounts 10 and 2, then 3.
MCInputsLong == { << <<<<1, 0>>, <<2>>>>, <<<<3>>>> >> }
=============================================================================
