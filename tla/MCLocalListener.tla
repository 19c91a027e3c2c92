--------------------------- MODULE MCLocalListener ---------------------------
(* LocalListener with three threads.  Not symmetric: CallsReturn is checked *)
(* in the same run.                                                         *)
EXTENDS LocalListener
CONSTANTS t1, t2, t3

ThreeThreads == {t1, t2, t3}
==============================================================================
