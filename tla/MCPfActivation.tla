--------------------------- MODULE MCPfActivation ---------------------------
(* PfActivation on small instances.                                       *)
EXTENDS PfActivation

CONSTANTS r1, r2, r3, o1, o2

MCRevisions == {r1, r2, r3}
TwoRevisions == {r1, r2}
OneOperation == {o1}
MCOperations == {o1, o2}
MCFaults == {"begin", "advance", "mark", "clear"}
MCCommitFault == {"commit"}
NoFaults == {}
=============================================================================
