----------------------------- MODULE StopToken -----------------------------
(***************************************************************************)
(* The std::stop_source of the signal bridge and its tokens: the one       *)
(* variable the bridge's worker and the service share.                     *)
(***************************************************************************)
VARIABLE stopRequested  \* stop_requested(), never withdrawn
=============================================================================
