-------------------------- MODULE MCOperatorConsole --------------------------
(* Values for OperatorConsole.                                             *)
EXTENDS OperatorConsole

CONSTANTS r1, r2, a1, a2

\* Two runs of different incidents.
TwoApprovals == r1 :> a1 @@ r2 :> a2
==============================================================================
