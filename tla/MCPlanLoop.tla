------------------------------ MODULE MCPlanLoop ------------------------------
(***************************************************************************)
(* Every file of up to MaxFileSize bytes with every number of connections  *)
(* from below zero to above the file size.                                 *)
(***************************************************************************)
EXTENDS PlanLoop

CONSTANT MaxFileSize

MCFileSizes    == 0 .. MaxFileSize
MCArguments    == -2 .. MaxFileSize + 2
MCServerCounts == {1, 3}
=============================================================================
