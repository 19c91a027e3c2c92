---------------------------- MODULE PfActivation ----------------------------
(***************************************************************************)
(* The privileged controller's activation workflow: one controller process *)
(* that replaces the running PF ruleset, verifies and confirms it, and     *)
(* commits or rolls back, and that recovers an interrupted activation when *)
(* it starts.  The process can die between any two steps; PF, the marker   *)
(* and the pending-activation file survive it.                             *)
(*                                                                         *)
(* A call that changes a store or PF is an action of its own together with *)
(* the audit append that follows it, since nothing but the audit trail is  *)
(* lost by dying between the two.                                          *)
(***************************************************************************)
EXTENDS
  ActivationTransactionStore, LastKnownGood, PfctlLoader, ControllerState

CONSTANT ProbeCount  \* number of configured health probes
ASSUME ProbeAssumption == ProbeCount \in Nat \ {0}

VARIABLES
  pf,              \* ruleset the kernel runs
  lkg,             \* last-known-good marker on disk
  txn,             \* content of the pending-activation file
  children,        \* revisions that pfctl children without a parent may still load
  state,           \* PrivilegedPfController::state_, or "down": no process
  pc,              \* next step of start(), recover_pending() or activate()
  op, target,      \* the request, or the pending record under recovery
  previous,        \* revision to restore on rollback
  probed,          \* health probes passed so far
  desired,         \* status to report once the rollback succeeds
  compromised,     \* an audit append this call relies on has failed
  startupAudited,  \* the startup event of start() was appended
  status,          \* status of the last call of activate() or recover_pending()
  journal,         \* history: events appended for the current operation
  lost,            \* history: some append of the current operation failed
  accepted         \* history: the revision whose activation last committed

kernel == <<pf, children>>
disk == <<lkg, txn, accepted>>
request == <<op, target, previous, probed>>
rolling == <<desired, compromised>>
trail == <<journal, lost>>
process == <<state, pc, status>>
vars == <<kernel, disk, request, rolling, trail, process, startupAudited>>

ActivationSteps ==
  {"authorize", "resolve", "revalidate", "begin", "unbegin", "intent", "load",
   "target_loaded", "probe", "verified", "awaiting_confirmation", "confirm",
   "committing", "commit", "mark", "committed", "clear"}
RollbackSteps == {"rb_validate", "rb_load", "rb_mark", "rb_clear"}
RecoverySteps ==
  {"start", "recover", "rec_committed", "rec_cleanup", "rec_validate", "rec_load",
   "rec_mark", "rec_clear"}
Steps == {"idle"} \cup ActivationSteps \cup RollbackSteps \cup RecoverySteps

RecoveryStatuses ==
  {"no_pending", "rolled_back", "committed_cleaned", "audit_failed_recovered",
   "failed"}
Statuses ==
  {"none", "controller_not_ready"} \cup ActivationStatuses \cup RecoveryStatuses

\* The events whose presence in the journal the properties speak of.
Events ==
  {"GH-ACT-0001", "GH-AUTH-0001", "GH-ACT-0003", "GH-CONF-0001",
   "GH-ACT-0006", "GH-ACT-0007"}

-----------------------------------------------------------------------------
(* OperationJournal::append, which can fail at any call.                   *)
Record(e) == journal' = journal \cup {e} /\ UNCHANGED lost
RecordOther == UNCHANGED trail
Lose == lost' = TRUE /\ UNCHANGED journal
Audit(ok) == lost' = (lost \/ ~ ok) /\ UNCHANGED journal

Goto(step) == pc' = step /\ UNCHANGED <<state, status>>

\* activate() returns s to the controller, which degrades its state at once.
Return(s) ==
  /\ pc' = "idle"
  /\ status' = s
  /\ state' = IF s = "rollback_failed" THEN "blocked"
              ELSE IF requires_read_only(s) THEN "read_only" ELSE state

\* Enter rollback_to_previous(s, audit_compromised).
Rollback(s, c) == Goto("rb_validate") /\ desired' = s /\ compromised' = c

-----------------------------------------------------------------------------
(* PrivilegedPfController::activate and PfActivationService::activate.     *)

\* Dispatch is refused unless start() left the controller ready.
RefuseDispatch ==
  /\ pc = "idle" /\ state \in {"read_only", "blocked"}
  /\ status' = "controller_not_ready"
  /\ UNCHANGED <<kernel, disk, request, rolling, trail, state, pc, startupAudited>>

\* A request arrives; it can be malformed, and its first event can be lost.
Activate(o, t) ==
  /\ pc = "idle" /\ state = "ready"
  /\ op' = o /\ target' = t /\ previous' = NoRevision /\ probed' = 0
  /\ compromised' = FALSE
  /\ \/ journal' = {} /\ lost' = FALSE /\ Return("invalid_request")
     \/ journal' = {} /\ lost' = TRUE /\ Return("audit_failed")
     \/ journal' = {"GH-ACT-0001"} /\ lost' = FALSE /\ Goto("authorize")
  /\ UNCHANGED <<kernel, disk, desired, startupAudited>>

Authorize ==
  /\ pc = "authorize"
  /\ \/ Record("GH-AUTH-0001") /\ Goto("resolve")
     \/ RecordOther /\ Return("authorization_denied")
     \/ RecordOther /\ Return("authorization_error")
     \/ Lose /\ Return("audit_failed")
  /\ UNCHANGED <<kernel, disk, request, rolling, startupAudited>>

\* Read the marker, refuse a request for the revision it names, load the target.
ResolveRevisions ==
  /\ pc = "resolve"
  /\ \E found \in last_known_good(lkg) :
       \/ /\ found = NoRevision
          /\ \/ RecordOther /\ Return("last_known_good_unavailable")
             \/ Lose /\ Return("audit_failed")
          /\ UNCHANGED previous
       \/ /\ found # NoRevision /\ previous' = found
          /\ \/ /\ found = target
                /\ \/ RecordOther /\ Return("invalid_request")
                   \/ Lose /\ Return("audit_failed")
             \/ /\ found # target
                /\ \/ RecordOther /\ Return("target_unavailable")
                   \/ Lose /\ Return("audit_failed")
                   \/ RecordOther /\ Goto("revalidate")
  /\ UNCHANGED <<kernel, disk, op, target, probed, rolling, startupAudited>>

Revalidate ==
  /\ pc = "revalidate"
  /\ \/ RecordOther /\ Goto("begin")
     \/ RecordOther /\ Return("native_revalidation_failed")
     \/ Lose /\ Return("audit_failed")
  /\ UNCHANGED <<kernel, disk, request, rolling, startupAudited>>

\* How activate() goes on from the outcome of begin() and its audit append.
AfterBegin(outcome, audited) ==
  IF outcome = "created" THEN Goto(IF audited THEN "intent" ELSE "unbegin")
  ELSE Return(IF ~ audited THEN "audit_failed"
              ELSE IF outcome = "conflict" THEN "transaction_conflict"
              ELSE "transaction_store_failed")

BeginTransaction ==
  /\ pc = "begin"
  /\ \/ Lose /\ Return("audit_failed") /\ UNCHANGED txn
     \/ \E r \in begin(txn, [op |-> op, target |-> target, rollback |-> previous,
                             phase |-> "prepared_for_load"]),
          audited \in BOOLEAN :
          /\ txn' = r.file
          /\ Audit(audited)
          /\ AfterBegin(r.status, audited)
  /\ UNCHANGED <<kernel, lkg, accepted, request, rolling, startupAudited>>

\* The record was created but its event, or the load intent, was lost: withdraw it.
WithdrawTransaction ==
  /\ pc = "unbegin"
  /\ \E r \in clear(txn, op) :
       /\ txn' = r.file
       /\ Return(IF r.status = "cleared" THEN "audit_failed"
                 ELSE "transaction_store_failed")
  /\ UNCHANGED <<kernel, lkg, accepted, request, rolling, trail, startupAudited>>

AnnounceLoad ==
  /\ pc = "intent"
  /\ \/ Record("GH-ACT-0003") /\ Goto("load")
     \/ Lose /\ Goto("unbegin")
  /\ UNCHANGED <<kernel, disk, request, rolling, startupAudited>>

LoadTarget ==
  /\ pc = "load"
  /\ \E r \in LoadRevision(pf, target), audited \in BOOLEAN :
       /\ pf' = r.pf /\ children' = children \cup r.late
       /\ Audit(audited)
       /\ IF r.status = "loaded" /\ audited
          THEN Goto("target_loaded") /\ UNCHANGED rolling
          ELSE Rollback("activation_failed", ~ audited)
  /\ UNCHANGED <<disk, request, startupAudited>>

\* The four advances before committed; the step is named after the phase.
Advance(phase, next) ==
  /\ pc = phase
  /\ \E r \in advance(txn, op, phase), audited \in BOOLEAN :
       /\ txn' = r.file
       /\ Audit(audited)
       /\ IF r.status = "advanced" /\ audited
          THEN Goto(next) /\ UNCHANGED rolling
          ELSE Rollback("transaction_store_failed", ~ audited)
  /\ UNCHANGED <<kernel, lkg, accepted, request, startupAudited>>

AdvanceTargetLoaded == Advance("target_loaded", "probe")
AdvanceVerified == Advance("verified", "awaiting_confirmation")
AdvanceAwaiting == Advance("awaiting_confirmation", "confirm")
AdvanceCommitting == Advance("committing", "commit")

\* Plausible bug: the loop over the probes has no end.
RunProbeForever ==
  /\ pc = "probe" /\ probed' = probed + 1 /\ RecordOther /\ Goto("probe")
  /\ UNCHANGED <<kernel, disk, op, target, previous, rolling, startupAudited>>

\* Plausible bug: a failed probe starts the verification again.
RunProbeAgain ==
  /\ pc = "probe" /\ RecordOther
  /\ \/ probed' = probed + 1 /\ Goto(IF probed + 1 = ProbeCount THEN "verified" ELSE "probe")
     \/ probed' = 0 /\ Goto("probe")
  /\ UNCHANGED <<kernel, disk, op, target, previous, rolling, startupAudited>>

\* One probe: its intent event, the probe itself, its result event.
RunProbe ==
  /\ pc = "probe"
  /\ \/ /\ probed' = probed + 1 /\ RecordOther
        /\ Goto(IF probed + 1 = ProbeCount THEN "verified" ELSE "probe")
        /\ UNCHANGED rolling
     \/ /\ RecordOther /\ Rollback("verification_failed_rolled_back", FALSE)
        /\ UNCHANGED probed
     \/ /\ Lose /\ Rollback("verification_failed_rolled_back", TRUE)
        /\ UNCHANGED probed
  /\ UNCHANGED <<kernel, disk, op, target, previous, startupAudited>>

\* Plausible bug: a gate that times out counts as confirmed.
AwaitConfirmationLenient ==
  /\ pc = "confirm"
  /\ (Record("GH-CONF-0001") \/ RecordOther) /\ Goto("committing")
  /\ UNCHANGED <<kernel, disk, request, rolling, startupAudited>>

\* Rejection, timeout and an unavailable gate all end in rollback.
AwaitConfirmation ==
  /\ pc = "confirm"
  /\ \/ Record("GH-CONF-0001") /\ Goto("committing") /\ UNCHANGED rolling
     \/ RecordOther /\ Rollback("confirmation_failed_rolled_back", FALSE)
     \/ Lose /\ Rollback("confirmation_failed_rolled_back", TRUE)
  /\ UNCHANGED <<kernel, disk, request, startupAudited>>

AnnounceCommit ==
  /\ pc = "commit"
  /\ \/ Record("GH-ACT-0006") /\ Goto("mark") /\ UNCHANGED rolling
     \/ Lose /\ Rollback("commit_failed_rolled_back", TRUE)
  /\ UNCHANGED <<kernel, disk, request, startupAudited>>

\* Plausible bug: a failed mark_last_known_good is not noticed.
MarkTargetUnchecked ==
  /\ pc = "mark" /\ Goto("committed")
  /\ \E r \in mark_last_known_good(lkg, target) : lkg' = r.marker
  /\ UNCHANGED <<kernel, txn, accepted, request, rolling, trail, startupAudited>>

MarkTarget ==
  /\ pc = "mark"
  /\ \E r \in mark_last_known_good(lkg, target), audited \in BOOLEAN :
       /\ lkg' = r.marker
       /\ Audit(audited)
       /\ IF r.status = "marked" /\ audited
          THEN Goto("committed") /\ UNCHANGED rolling
          ELSE Rollback("commit_failed_rolled_back", ~ audited)
  /\ UNCHANGED <<kernel, txn, accepted, request, startupAudited>>

\* The durable commit point.  Its own event and GH-ACT-0007 may be lost without
\* undoing it; if the advance itself fails, the outcome of its event is ignored.
AdvanceCommitted ==
  /\ pc = "committed"
  /\ \E r \in advance(txn, op, "committed"), a1 \in BOOLEAN, a2 \in BOOLEAN :
       /\ txn' = r.file
       /\ \/ /\ r.status = "advanced"
             /\ accepted' = target
             /\ journal' = IF a2 THEN journal \cup {"GH-ACT-0007"} ELSE journal
             /\ lost' = (lost \/ ~ a1 \/ ~ a2)
             /\ compromised' = (~ a1 \/ ~ a2) /\ UNCHANGED desired
             /\ Goto("clear")
          \/ /\ r.status # "advanced"
             /\ Audit(a1)
             /\ Rollback("transaction_store_failed", FALSE)
             /\ UNCHANGED accepted
  /\ UNCHANGED <<kernel, lkg, request, startupAudited>>

\* Plausible bug: a lost event after the commit point is forgotten.
ClearCommittedSilently ==
  /\ pc = "clear"
  /\ \E r \in clear(txn, op) :
       /\ txn' = r.file
       /\ Return(IF r.status = "cleared" THEN "committed" ELSE "committed_cleanup_pending")
  /\ UNCHANGED <<kernel, lkg, accepted, request, rolling, trail, startupAudited>>

ClearCommitted ==
  /\ pc = "clear"
  /\ \E r \in clear(txn, op) :
       /\ txn' = r.file
       /\ Return(IF r.status # "cleared" THEN "committed_cleanup_pending"
                 ELSE IF compromised THEN "committed_with_warning"
                 ELSE "committed")
  /\ UNCHANGED <<kernel, lkg, accepted, request, rolling, trail, startupAudited>>

-----------------------------------------------------------------------------
(* The lambda rollback_to_previous: validate, load and mark the previous   *)
(* revision, then clear the record.  A lost event changes only the status. *)

RollbackValidate ==
  /\ pc = "rb_validate"
  /\ \E audited \in BOOLEAN :
       /\ Audit(audited) /\ compromised' = (compromised \/ ~ audited)
       /\ Goto("rb_load") \/ Return("rollback_failed")
  /\ UNCHANGED <<kernel, disk, request, desired, startupAudited>>

\* Plausible bug: the rollback goes on although pfctl failed.
RollbackLoadUnchecked ==
  /\ pc = "rb_load" /\ Goto("rb_mark")
  /\ \E r \in LoadRevision(pf, previous) : pf' = r.pf /\ children' = children \cup r.late
  /\ UNCHANGED <<disk, request, rolling, trail, startupAudited>>

RollbackLoad ==
  /\ pc = "rb_load"
  /\ \E r \in LoadRevision(pf, previous), audited \in BOOLEAN :
       /\ pf' = r.pf /\ children' = children \cup r.late
       /\ Audit(audited) /\ compromised' = (compromised \/ ~ audited)
       /\ IF r.status = "loaded" THEN Goto("rb_mark") ELSE Return("rollback_failed")
  /\ UNCHANGED <<disk, request, desired, startupAudited>>

RollbackMark ==
  /\ pc = "rb_mark"
  /\ \E r \in mark_last_known_good(lkg, previous), audited \in BOOLEAN :
       /\ lkg' = r.marker
       /\ Audit(audited) /\ compromised' = (compromised \/ ~ audited)
       /\ IF r.status = "marked" THEN Goto("rb_clear") ELSE Return("rollback_failed")
  /\ UNCHANGED <<kernel, txn, accepted, request, desired, startupAudited>>

\* Plausible bug: the rollback reports success although the record is still there.
RollbackClearUnchecked ==
  /\ pc = "rb_clear"
  /\ \E r \in clear(txn, op) :
       txn' = r.file /\ Return(IF compromised THEN "audit_failed_rolled_back" ELSE desired)
  /\ UNCHANGED <<kernel, lkg, accepted, request, rolling, trail, startupAudited>>

RollbackClear ==
  /\ pc = "rb_clear"
  /\ \E r \in clear(txn, op), audited \in BOOLEAN :
       /\ txn' = r.file
       /\ Audit(audited) /\ compromised' = (compromised \/ ~ audited)
       /\ Return(IF r.status # "cleared" THEN "rollback_failed"
                 ELSE IF compromised' THEN "audit_failed_rolled_back"
                 ELSE desired)
  /\ UNCHANGED <<kernel, lkg, accepted, request, desired, startupAudited>>

-----------------------------------------------------------------------------
(* PrivilegedPfController::start and PfActivationService::recover_pending. *)

\* A new controller process is composed; start() runs next.
Boot ==
  /\ state = "down"
  /\ state' = "created" /\ pc' = "start"
  /\ UNCHANGED <<kernel, disk, request, rolling, trail, status, startupAudited>>

StartController ==
  /\ pc = "start"
  /\ state' = "starting" /\ pc' = "recover"
  /\ journal' = {}
  /\ \E audited \in BOOLEAN : startupAudited' = audited /\ lost' = ~ audited
  /\ UNCHANGED <<kernel, disk, request, rolling, status>>

\* recover_pending() returns s, with some append lost if l; start() appends a last
\* event.  Only a fully audited recovery opens dispatch.
FinishStart(s, l) ==
  /\ pc' = "idle" /\ status' = s
  /\ \E audited \in BOOLEAN :
       /\ state' = IF s = "failed" THEN "blocked"
                   ELSE IF startupAudited /\ s # "audit_failed_recovered" /\ audited
                   THEN "ready" ELSE "read_only"
       /\ lost' = (l \/ ~ audited)
  /\ UNCHANGED journal

RecoverPending ==
  /\ pc = "recover"
  /\ \E found \in load(txn) :
       \/ /\ found = "no_pending" /\ FinishStart("no_pending", lost)
          /\ UNCHANGED <<request, compromised>>
       \/ /\ found = "unreadable" /\ FinishStart("failed", lost)
          /\ UNCHANGED <<request, compromised>>
       \/ /\ found = "loaded"
          /\ op' = txn.op /\ target' = txn.target /\ previous' = txn.rollback
          /\ \E audited \in BOOLEAN : Audit(audited) /\ compromised' = ~ audited
          /\ Goto(IF txn.phase = "committed" THEN "rec_committed" ELSE "rec_validate")
          /\ UNCHANGED probed
  /\ UNCHANGED <<kernel, disk, desired, startupAudited>>

\* Plausible bug: the marker is compared with the wrong side of the record.
RecoverCommittedWrongSide ==
  /\ pc = "rec_committed"
  /\ IF lkg = previous THEN Goto("rec_cleanup") /\ UNCHANGED trail
     ELSE FinishStart("failed", lost)
  /\ UNCHANGED <<kernel, disk, request, rolling, startupAudited>>

\* A committed record is only cleaned up, and only if the marker agrees with it.
RecoverCommitted ==
  /\ pc = "rec_committed"
  /\ \E found \in last_known_good(lkg) :
       IF found = target THEN Goto("rec_cleanup") /\ UNCHANGED trail
       ELSE FinishStart("failed", lost)
  /\ UNCHANGED <<kernel, disk, request, rolling, startupAudited>>

RecoverValidate ==
  /\ pc = "rec_validate"
  /\ \/ FinishStart("failed", lost) /\ UNCHANGED compromised
     \/ \E audited \in BOOLEAN :
          /\ Audit(audited) /\ compromised' = (compromised \/ ~ audited)
          /\ Goto("rec_load")
  /\ UNCHANGED <<kernel, disk, request, desired, startupAudited>>

\* Plausible bug: recovery restores PF but not the marker.
RecoverLoadWithoutMark ==
  /\ pc = "rec_load"
  /\ \E r \in LoadRevision(pf, previous) :
       /\ pf' = r.pf /\ children' = children \cup r.late
       /\ \/ r.status = "loaded" /\ Goto("rec_clear") /\ UNCHANGED trail
          \/ r.status # "loaded" /\ FinishStart("failed", lost)
  /\ UNCHANGED <<disk, request, rolling, startupAudited>>

RecoverLoad ==
  /\ pc = "rec_load"
  /\ \E r \in LoadRevision(pf, previous) :
       /\ pf' = r.pf /\ children' = children \cup r.late
       /\ \/ /\ r.status = "loaded"
             /\ \E audited \in BOOLEAN :
                  Audit(audited) /\ compromised' = (compromised \/ ~ audited)
             /\ Goto("rec_mark")
          \/ r.status # "loaded" /\ FinishStart("failed", lost) /\ UNCHANGED compromised
  /\ UNCHANGED <<disk, request, desired, startupAudited>>

RecoverMark ==
  /\ pc = "rec_mark"
  /\ \E r \in mark_last_known_good(lkg, previous) :
       /\ lkg' = r.marker
       /\ \/ /\ r.status = "marked"
             /\ \E audited \in BOOLEAN :
                  Audit(audited) /\ compromised' = (compromised \/ ~ audited)
             /\ Goto("rec_clear")
          \/ r.status # "marked" /\ FinishStart("failed", lost) /\ UNCHANGED compromised
  /\ UNCHANGED <<kernel, txn, accepted, request, desired, startupAudited>>

\* The last step of both recoveries; done is the status of a clean finish.
RecoverClear(step, done) ==
  /\ pc = step
  /\ \E r \in clear(txn, op), audited \in BOOLEAN :
       /\ txn' = r.file
       /\ compromised' = (compromised \/ ~ audited)
       /\ FinishStart(IF r.status # "cleared" THEN "failed"
                      ELSE IF compromised' THEN "audit_failed_recovered" ELSE done,
                      lost \/ ~ audited)
  /\ UNCHANGED <<kernel, lkg, accepted, request, desired, startupAudited>>

CleanCommitted == RecoverClear("rec_cleanup", "committed_cleaned")
ClearRolledBack == RecoverClear("rec_clear", "rolled_back")

-----------------------------------------------------------------------------
(* The environment.                                                        *)

\* The revision pfctl is loading while the process is at this step, if any.
InFlight ==
  IF pc = "load" THEN target
  ELSE IF pc \in {"rb_load", "rec_load"} THEN previous ELSE NoRevision

\* The process dies (or exits): PF and the files stay, everything else is gone.
\* A pfctl child can be anywhere: not yet done, done, or still to act.
Crash ==
  /\ state # "down"
  /\ state' = "down" /\ pc' = "idle" /\ status' = "none"
  /\ target' = NoRevision /\ previous' = NoRevision /\ probed' = 0
  /\ desired' = "none" /\ compromised' = FALSE /\ startupAudited' = FALSE
  /\ IF InFlight = NoRevision THEN UNCHANGED kernel
     ELSE /\ pf' \in {pf, InFlight}
          /\ \E l \in LateLoads(InFlight) : children' = children \cup l
  /\ UNCHANGED <<op, disk, trail>>

\* A pfctl child nobody waits for replaces the ruleset, or dies without doing so.
LateLoad(r) ==
  /\ r \in children
  /\ children' = children \ {r}
  /\ pf' \in {pf, r}
  /\ UNCHANGED <<disk, request, rolling, trail, process, startupAudited>>

-----------------------------------------------------------------------------
Init ==
  /\ lkg \in Revisions \cup {NoRevision} /\ pf = lkg /\ accepted = lkg
  /\ txn = NoTransaction /\ children = {}
  /\ state = "down" /\ pc = "idle" /\ status = "none"
  /\ op \in Operations /\ target = NoRevision /\ previous = NoRevision
  /\ probed = 0 /\ desired = "none" /\ compromised = FALSE
  /\ startupAudited = FALSE /\ journal = {} /\ lost = FALSE

ActivationStep ==
  \/ Authorize \/ ResolveRevisions \/ Revalidate \/ BeginTransaction
  \/ WithdrawTransaction \/ AnnounceLoad \/ LoadTarget \/ AdvanceTargetLoaded
  \/ RunProbe \/ AdvanceVerified \/ AdvanceAwaiting \/ AwaitConfirmation
  \/ AdvanceCommitting \/ AnnounceCommit \/ MarkTarget \/ AdvanceCommitted
  \/ ClearCommitted

RollbackStep ==
  RollbackValidate \/ RollbackLoad \/ RollbackMark \/ RollbackClear

RecoveryStep ==
  \/ StartController \/ RecoverPending \/ RecoverCommitted \/ CleanCommitted
  \/ RecoverValidate \/ RecoverLoad \/ RecoverMark \/ ClearRolledBack

Step == ActivationStep \/ RollbackStep \/ RecoveryStep

Dispatch ==
  RefuseDispatch \/ \E o \in Operations, t \in Revisions : Activate(o, t)

Environment == Boot \/ Crash \/ \E r \in Revisions : LateLoad(r)

Next == Step \/ Dispatch \/ Environment

Spec == Init /\ [][Next]_vars

(***************************************************************************)
(* The controller thread keeps running: the confirmation gate and the      *)
(* probes are bounded in time, and a run of pfctl is taken to return; the  *)
(* two cases in which run() has no deadline are named in HealthProbes.     *)
(* FairSpec adds that an operator or rc.d starts the controller again.     *)
(***************************************************************************)
FairSpec == Spec /\ WF_vars(Step) /\ WF_vars(Boot)

(***************************************************************************)
(* RetriedSpec adds that an operator restarts a controller that refuses    *)
(* requests, and that no call of recovery which can succeed fails for ever *)
(* when it is repeated.                                                    *)
(***************************************************************************)
Restart == pc = "idle" /\ state \in {"read_only", "blocked"} /\ Crash
RetriedSpec ==
  /\ FairSpec /\ WF_vars(Restart)
  /\ SF_vars(RecoverPending /\ pc' # "idle")
  /\ SF_vars(RecoverCommitted /\ pc' # "idle")
  /\ SF_vars(RecoverValidate /\ pc' # "idle")
  /\ SF_vars(RecoverLoad /\ pc' # "idle")
  /\ SF_vars(RecoverMark /\ pc' # "idle")
  /\ SF_vars((CleanCommitted \/ ClearRolledBack) /\ txn' = NoTransaction)

-----------------------------------------------------------------------------
DataTypes ==
  /\ pf \in Revisions \cup {NoRevision} /\ lkg \in Revisions \cup {NoRevision}
  /\ accepted \in Revisions \cup {NoRevision}
  /\ txn \in PendingActivation \cup {NoTransaction}
  /\ children \subseteq Revisions
  /\ op \in Operations /\ target \in Revisions \cup {NoRevision}
  /\ previous \in Revisions \cup {NoRevision}
ControlTypes ==
  /\ state \in ControllerStates \cup {"down"} /\ pc \in Steps
  /\ desired \in Statuses /\ status \in Statuses
FlagTypes == compromised \in BOOLEAN /\ startupAudited \in BOOLEAN /\ lost \in BOOLEAN
JournalType == journal \subseteq Events
ProbedType == probed \in 0 .. ProbeCount

\* Every variable of the controller, the disk and the kernel has its type.
TypeOK == DataTypes /\ ControlTypes /\ FlagTypes /\ JournalType /\ ProbedType

(***************************************************************************)
(* Whenever no activation is pending on disk, the kernel runs the          *)
(* last-known-good revision and that is the last one committed: neither a  *)
(* crash, nor a failing store, nor a half-done rollback or recovery leaves *)
(* unconfirmed rules behind without a record (activation_service.cpp,      *)
(* rollback_to_previous and recover_pending).                              *)
(***************************************************************************)
Settled == txn = NoTransaction => pf = lkg /\ lkg = accepted

(***************************************************************************)
(* While a record is pending it names everything recovery needs: the rules *)
(* running and the marker are its two revisions, its rollback revision is  *)
(* the last committed one unless it is itself committed, and a committed   *)
(* record always agrees with PF and the marker, because recover_pending    *)
(* then keeps what runs without reloading anything.                        *)
(***************************************************************************)
RecordExplainsState ==
  txn # NoTransaction =>
    /\ {pf, lkg} \subseteq {txn.target, txn.rollback}
    /\ accepted = IF txn.phase = "committed" THEN txn.target ELSE txn.rollback
    /\ txn.phase = "committed" => pf = txn.target /\ lkg = txn.target

(***************************************************************************)
(* A controller that accepts requests has nothing pending: every path into *)
(* or back to "ready" (startup recovery, each activation status the        *)
(* controller does not degrade on) has cleared the record.                 *)
(***************************************************************************)
ReadyIsSettled ==
  state = "ready" /\ pc = "idle" => txn = NoTransaction /\ pf = lkg

(***************************************************************************)
(* The status handed to the caller tells what PF and the marker hold:      *)
(* committed statuses mean the target, rolled-back statuses the previous   *)
(* revision, and every status but rollback_failed that PF is the marker.   *)
(***************************************************************************)
ResultTellsTruth ==
  pc = "idle" /\ state # "down" =>
    /\ status \in CommittedStatuses => pf = target /\ lkg = target
    /\ status \in RolledBackStatuses \cup {"audit_failed_rolled_back"}
         => pf = lkg /\ lkg = accepted
    /\ status \in {"committed", "committed_with_warning", "audit_failed_rolled_back"}
                   \cup (RolledBackStatuses \ {"transaction_store_failed"})
         => txn = NoTransaction
    /\ status \in ActivationStatuses \ {"rollback_failed"} => pf = lkg

(***************************************************************************)
(* No audit event of a start or of an activation is lost silently: the     *)
(* controller is no longer ready once the call has returned.               *)
(***************************************************************************)
AuditLossDegrades == pc = "idle" /\ lost => state # "ready"

(***************************************************************************)
(* A revision is promoted to last known good (other than by restoring the  *)
(* rollback revision of the pending record) only after every probe passed  *)
(* and with the start, the authorization, the load intent, the             *)
(* confirmation and the commit intent durably in the journal.              *)
(***************************************************************************)
PromotionIsEarned ==
  [][lkg' # lkg =>
       /\ txn # NoTransaction
       /\ \/ lkg' = txn.rollback
          \/ /\ lkg' = txn.target /\ txn.phase = "committing"
             /\ probed = ProbeCount
             /\ {"GH-ACT-0001", "GH-AUTH-0001", "GH-ACT-0003", "GH-CONF-0001",
                 "GH-ACT-0006"} \subseteq journal]_vars

(***************************************************************************)
(* With nothing pending the marker names the last committed revision: this *)
(* part of Settled needs no assumption on pfctl children that outlive the  *)
(* controller, since they cannot touch the disk.                           *)
(***************************************************************************)
MarkerIsCommitted == txn = NoTransaction => lkg = accepted

(***************************************************************************)
(* pending-activation.md: a committed record whose marker equals the       *)
(* target makes recovery "Preserve active target and clear stale record".  *)
(* A recovery that reports committed_cleaned must leave the target running *)
(***************************************************************************)
CleanupPreservesTarget ==
  state # "down" /\ pc = "idle" /\ status = "committed_cleaned" => pf = target

(***************************************************************************)
(* The workflow, with every failure and crash, implements the trial of     *)
(* ConfirmedChange: the pending-activation file is the trial.              *)
(***************************************************************************)
Pending == txn # NoTransaction
Trial == INSTANCE ConfirmedChange WITH
  active <- pf, good <- lkg,
  candidate <- IF Pending THEN txn.target ELSE NoRevision,
  base <- IF Pending THEN txn.rollback ELSE NoRevision,
  decided <- Pending /\ txn.phase = "committed"
ImplementsTrial == Trial!ASpec

(***************************************************************************)
(* Every call of activate() and start() returns if the runs, probes and    *)
(* appends it makes do: no retry, rollback or recovery goes round for      *)
(* ever, whatever fails and however often the controller dies.             *)
(***************************************************************************)
CallsReturn == pc # "idle" ~> pc = "idle"

(***************************************************************************)
(* ADR-0009: "A controller restart can deterministically recover an        *)
(* interrupted activation."  Once the process no longer dies in the middle *)
(* of a call, restarts resolve whatever is pending: no record, phase or    *)
(* marker that a failure leaves behind makes every later recover_pending() *)
(* fail.                                                                   *)
(***************************************************************************)
PendingIsResolved ==
  <>[][Crash => pc = "idle"]_vars => (txn # NoTransaction ~> txn = NoTransaction)
=============================================================================
