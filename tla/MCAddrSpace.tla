---------------------------- MODULE MCAddrSpace ----------------------------
(* Small instances of the address spaces for TLC.                          *)
EXTENDS AddrSpace

CONSTANTS p1, p2, p3
=============================================================================
