------------------------- MODULE MCDaemonProcesses -------------------------
(* DaemonProcesses with two daemons.                                       *)
EXTENDS DaemonProcesses, TLC

CONSTANTS p1, p2
MCProcesses == {p1, p2}
Symmetry == Permutations(MCProcesses)
=============================================================================
