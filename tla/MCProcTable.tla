---------------------------- MODULE MCProcTable ----------------------------
(***************************************************************************)
(* Instances of ProcTable.  As in the kernel, the bitmap has twice the     *)
(* bits of the physical pages.  The shell and two copies of "big" do not   *)
(* fit, and "huge" never does.                                             *)
(***************************************************************************)
EXTENDS ProcTable

MCPages == [f \in Prog |-> CASE f = "big" -> 2 [] f = "huge" -> 3 [] OTHER -> 1]
=============================================================================
