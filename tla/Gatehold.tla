------------------------------ MODULE Gatehold ------------------------------
(***************************************************************************)
(* Vocabulary shared by the modules: PF revisions, activation operations   *)
(* and the file-system faults the durable stores can meet.                 *)
(***************************************************************************)
EXTENDS Integers

CONSTANTS
  Revisions,       \* revision numbers held by the revision store
  NoRevision,      \* "no revision": marker absent, or PF rules of other origin
  Operations,      \* operation ids of activation requests
  NoTransaction,   \* the pending-activation file does not exist
  DirSyncMayFail   \* store operations whose final directory fsync may fail
                   \* after the rename, link or unlink already took effect

(***************************************************************************)
(* The operations that end in fsync(directory).  "commit" is the advance   *)
(* to phase committed; "advance" is every other advance.                   *)
(***************************************************************************)
StoreOperations == {"begin", "advance", "commit", "mark", "clear"}

Phases == {"prepared_for_load", "target_loaded", "verified",
           "awaiting_confirmation", "committing", "committed"}

\* The fields of the file pending-activation.
PendingActivation ==
  [op : Operations, target : Revisions, rollback : Revisions, phase : Phases]

ASSUME RevisionsAssumption == NoRevision \notin Revisions
ASSUME TransactionAssumption == NoTransaction \notin PendingActivation
ASSUME FaultAssumption == DirSyncMayFail \subseteq StoreOperations
=============================================================================
