---------------------------- MODULE MCTransfer ----------------------------
(* Module Transfer on its own: UNIX files of up to three bytes.            *)
EXTENDS Transfer

MCTexts == UNION {[1..n -> {1, 2}] : n \in 0..3}
MCOld == <<7, 7>>
=============================================================================
