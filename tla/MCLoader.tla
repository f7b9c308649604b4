------------------------------ MODULE MCLoader ------------------------------
(***************************************************************************)
(* Module Loader on its own, with programs that have both initialised and  *)
(* read-only data, for the run that compares the places Load uses with the *)
(* places the linker chose.                                                *)
(***************************************************************************)
EXTENDS Loader

\* Page p of the program in frames that run the other way.
MCFrame(p) == 19 - p
=============================================================================
