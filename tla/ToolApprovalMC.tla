--------------------------- MODULE ToolApprovalMC ---------------------------
(***************************************************************************)
(* ToolApproval for TLC: clients differ by nothing but their names.        *)
(***************************************************************************)
EXTENDS ToolApproval, TLC

ClientSymmetry == Permutations(Clients)
=============================================================================
