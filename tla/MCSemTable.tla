----------------------------- MODULE MCSemTable -----------------------------
(* Three names for two slots, so that Create runs out of them.             *)
EXTENDS SemTable

CONSTANTS a, b, c

AnyInitialValue == {-1, 0, 1}
=============================================================================
