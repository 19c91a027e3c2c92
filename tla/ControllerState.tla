--------------------------- MODULE ControllerState ---------------------------
(***************************************************************************)
(* The controller's states, the statuses an activation can end with, and   *)
(* which of them take the controller out of service.                       *)
(***************************************************************************)
ControllerStates == {"created", "starting", "ready", "read_only", "blocked"}

RolledBackStatuses ==
  {"activation_failed", "verification_failed_rolled_back",
   "confirmation_failed_rolled_back", "commit_failed_rolled_back",
   "transaction_store_failed"}
CommittedStatuses ==
  {"committed", "committed_with_warning", "committed_cleanup_pending"}
ActivationStatuses ==
  CommittedStatuses \cup RolledBackStatuses \cup
  {"invalid_request", "authorization_denied", "authorization_error",
   "last_known_good_unavailable", "target_unavailable",
   "native_revalidation_failed", "transaction_conflict", "audit_failed",
   "audit_failed_rolled_back", "rollback_failed"}

\* Plausible bug: a commit whose record is still on disk does not degrade.
requires_read_only_lenient(s) ==
  s \in {"transaction_conflict", "transaction_store_failed", "audit_failed",
         "committed_with_warning", "audit_failed_rolled_back"}

requires_read_only(s) ==
  s \in {"transaction_conflict", "transaction_store_failed",
         "committed_with_warning", "committed_cleanup_pending", "audit_failed",
         "audit_failed_rolled_back"}
==============================================================================
