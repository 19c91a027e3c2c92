------------------------- MODULE PfActivation_proofs -------------------------
(***************************************************************************)
(* Proofs about PfActivation, for any revisions, operations and number of  *)
(* probes, and any number of requests, failures and crashes: every audit   *)
(* loss is noticed, a promotion is earned, the kernel, the marker and the  *)
(* pending record always agree, and the workflow implements                *)
(* ConfirmedChange.                                                        *)
(***************************************************************************)
EXTENDS PfActivation, TLAPS

(***************************************************************************)
(* The outcomes of the stores and the loader are well typed.               *)
(***************************************************************************)
LEMMA BeginOutcomes ==
  ASSUME NEW file, NEW t, NEW r \in begin(file, t)
  PROVE  /\ r.file \in {file, t}
         /\ r.status = "created" => r.file = t /\ file = NoTransaction
         /\ file # NoTransaction => r.file = file
         /\ r.file = file \/ valid_transaction(t)
BY DEF begin, Outcome, Unsynced

LEMMA ClearOutcomes ==
  ASSUME NEW file, NEW o, NEW r \in clear(file, o)
  PROVE  /\ r.file \in {file, NoTransaction}
         /\ r.status = "cleared" => r.file = NoTransaction
         /\ file # NoTransaction /\ r.file # file => file.op = o
BY DEF clear, Outcome, Unsynced, Unloaded, load

LEMMA AdvanceOutcomes ==
  ASSUME NEW file \in PendingActivation \cup {NoTransaction}, NEW o,
         NEW next \in Phases, NEW r \in advance(file, o, next)
  PROVE  /\ r.file \in PendingActivation \cup {NoTransaction}
         /\ file = NoTransaction => r.file = file
         /\ file # NoTransaction =>
              /\ r.file # NoTransaction /\ r.file.op = file.op
              /\ r.file.target = file.target /\ r.file.rollback = file.rollback
              /\ r.file.phase \in {file.phase, next}
         /\ r.status = "advanced" => file # NoTransaction /\ r.file.phase = next
         /\ r.status # "advanced" /\ CommitKind(next) \notin DirSyncMayFail
              => r.file = file
<1>1. r.file # file =>
        /\ file # NoTransaction /\ r.file = [file EXCEPT !.phase = next]
        /\ r.status = "advanced" \/ CommitKind(next) \in DirSyncMayFail
  BY DEF advance, persist_replacement, Outcome, Unsynced, Unloaded, load
<1>2. r.status = "advanced" =>
        file # NoTransaction /\ r.file = [file EXCEPT !.phase = next]
  BY DEF advance, persist_replacement, Outcome, Unsynced, Unloaded, load
<1>3. CASE file = NoTransaction
  BY <1>1, <1>2, <1>3
<1>4. CASE file # NoTransaction
  <2> DEFINE new == [file EXCEPT !.phase = next]
  <2>1. /\ new \in PendingActivation /\ new.op = file.op /\ new.target = file.target
        /\ new.rollback = file.rollback /\ new.phase = next
    BY <1>4 DEF PendingActivation
  <2>2. new # NoTransaction
    BY <2>1, TransactionAssumption
  <2>3. r.file \in {file, new}
    BY <1>1
  <2> HIDE DEF new
  <2>4. QED
    BY <1>1, <1>2, <1>4, <2>1, <2>2, <2>3 DEF new
<1>5. QED
  BY <1>3, <1>4

LEMMA MarkOutcomes ==
  ASSUME NEW marker, NEW v, NEW r \in mark_last_known_good(marker, v)
  PROVE  /\ r.marker \in {marker, v}
         /\ r.status = "marked" => r.marker = v
BY DEF mark_last_known_good, Marking

LEMMA LoadOutcomes ==
  ASSUME NEW active, NEW v, NEW r \in LoadRevision(active, v)
  PROVE  /\ r.pf \in {active, v} /\ r.late \in LateLoads(v)
         /\ r.status = "loaded" => r.pf = v
BY DEF LoadRevision, Loading, LateLoads

LEMMA LateLoadOutcomes ==
  ASSUME NEW v, NEW l \in LateLoads(v)
  PROVE  l \subseteq {v} /\ (~ ChildMayOutlive => l = {})
BY DEF LateLoads

-----------------------------------------------------------------------------
(***************************************************************************)
(* Type correctness.  TypeOK is not inductive: a record is well typed only *)
(* if the revisions resolved before begin() are, and the probe counter     *)
(* stays in range only if a probe is run while some are left.              *)
(***************************************************************************)
Requesting == {"authorize", "resolve", "revalidate", "begin"}

\* The steps at which the pending record, if any, belongs to the running call.
Owning == (ActivationSteps \ Requesting) \cup RollbackSteps
            \cup (RecoverySteps \ {"start", "recover"})

Unprobed == {"authorize", "resolve", "revalidate", "begin", "unbegin", "intent",
             "load", "target_loaded", "probe"}

StepTypes ==
  /\ pc \in Requesting \cup Owning => target \in Revisions
  /\ pc \in {"revalidate", "begin"} \cup Owning => previous \in Revisions
  /\ pc \in Unprobed => probed < ProbeCount

TInv == TypeOK /\ StepTypes

USE DEF kernel, disk, request, rolling, trail, process, Goto, Return, Rollback,
        Record, RecordOther, Lose, Audit, FinishStart, Advance, AfterBegin, RecoverClear

LEMMA TypeInit == Init => TInv
<1> SUFFICES ASSUME Init PROVE TInv
  OBVIOUS
<1> USE DEF Init
<1>1. DataTypes
  BY DEF DataTypes
<1>2. ControlTypes
  BY DEF ControlTypes, ControllerStates, Steps, Statuses
<1>3. FlagTypes /\ JournalType
  BY DEF FlagTypes, JournalType
<1>4. ProbedType /\ StepTypes
  BY ProbeAssumption DEF ProbedType, StepTypes, Owning, Unprobed, Requesting,
     ActivationSteps, RollbackSteps, RecoverySteps
<1>5. QED
  BY <1>1, <1>2, <1>3, <1>4 DEF TInv, TypeOK

LEMMA ActivationTypes == TInv /\ ActivationStep => TInv'
<1> SUFFICES ASSUME TInv, ActivationStep PROVE TInv'
  OBVIOUS
<1> USE DEF ActivationStep, Authorize, ResolveRevisions, Revalidate, BeginTransaction,
            WithdrawTransaction, AnnounceLoad, LoadTarget, AdvanceTargetLoaded,
            RunProbe, AdvanceVerified, AdvanceAwaiting, AwaitConfirmation,
            AdvanceCommitting, AnnounceCommit, MarkTarget, AdvanceCommitted,
            ClearCommitted
<1>1. DataTypes'
  BY TransactionAssumption, RevisionsAssumption, BeginOutcomes, ClearOutcomes,
     AdvanceOutcomes, MarkOutcomes, LoadOutcomes, LateLoadOutcomes
  DEF TInv, TypeOK, DataTypes, StepTypes, Requesting, Owning, ActivationSteps,
      RollbackSteps, RecoverySteps, PendingActivation, Phases, load, last_known_good,
      InFlight
<1>2. ControlTypes'
  BY DEF TInv, TypeOK, ControlTypes, ControllerStates, Steps, ActivationSteps,
     RollbackSteps, RecoverySteps, Statuses, ActivationStatuses, CommittedStatuses,
     RolledBackStatuses, RecoveryStatuses, requires_read_only
<1>3. FlagTypes'
  BY DEF TInv, TypeOK, FlagTypes
<1>4. JournalType'
  BY DEF TInv, TypeOK, JournalType, Events
<1>5. ProbedType'
  BY ProbeAssumption DEF TInv, TypeOK, ProbedType, StepTypes, Unprobed
<1>6. StepTypes'
  BY ProbeAssumption, TransactionAssumption, RevisionsAssumption, BeginOutcomes,
     ClearOutcomes, AdvanceOutcomes, MarkOutcomes, LoadOutcomes, LateLoadOutcomes
  DEF TInv, TypeOK, DataTypes, ProbedType, StepTypes, Requesting, Owning, Unprobed,
      ActivationSteps, RollbackSteps, RecoverySteps, PendingActivation, load,
      last_known_good
<1>7. QED
  BY <1>1, <1>2, <1>3, <1>4, <1>5, <1>6 DEF TInv, TypeOK

LEMMA RollbackTypes == TInv /\ RollbackStep => TInv'
<1> SUFFICES ASSUME TInv, RollbackStep PROVE TInv'
  OBVIOUS
<1> USE DEF RollbackStep, RollbackValidate, RollbackLoad, RollbackMark, RollbackClear
<1>1. DataTypes'
  BY TransactionAssumption, RevisionsAssumption, ClearOutcomes, MarkOutcomes,
     LoadOutcomes, LateLoadOutcomes
  DEF TInv, TypeOK, DataTypes, StepTypes, Requesting, Owning, ActivationSteps,
      RollbackSteps, RecoverySteps, PendingActivation, Phases, load, last_known_good,
      InFlight
<1>2. ControlTypes'
  BY DEF TInv, TypeOK, ControlTypes, ControllerStates, Steps, ActivationSteps,
     RollbackSteps, RecoverySteps, Statuses, ActivationStatuses, CommittedStatuses,
     RolledBackStatuses, RecoveryStatuses, requires_read_only
<1>3. FlagTypes'
  BY DEF TInv, TypeOK, FlagTypes
<1>4. JournalType'
  BY DEF TInv, TypeOK, JournalType, Events
<1>5. ProbedType'
  BY ProbeAssumption DEF TInv, TypeOK, ProbedType, StepTypes, Unprobed
<1>6. StepTypes'
  BY ProbeAssumption, TransactionAssumption, RevisionsAssumption, ClearOutcomes,
     MarkOutcomes, LoadOutcomes, LateLoadOutcomes
  DEF TInv, TypeOK, DataTypes, ProbedType, StepTypes, Requesting, Owning, Unprobed,
      ActivationSteps, RollbackSteps, RecoverySteps, PendingActivation, load,
      last_known_good
<1>7. QED
  BY <1>1, <1>2, <1>3, <1>4, <1>5, <1>6 DEF TInv, TypeOK

LEMMA RecoveryTypes == TInv /\ RecoveryStep => TInv'
<1> SUFFICES ASSUME TInv, RecoveryStep PROVE TInv'
  OBVIOUS
<1> USE DEF RecoveryStep, StartController, RecoverPending, RecoverCommitted,
            CleanCommitted, RecoverValidate, RecoverLoad, RecoverMark, ClearRolledBack
<1>1. DataTypes'
  BY TransactionAssumption, RevisionsAssumption, ClearOutcomes, MarkOutcomes,
     LoadOutcomes, LateLoadOutcomes
  DEF TInv, TypeOK, DataTypes, StepTypes, Requesting, Owning, ActivationSteps,
      RollbackSteps, RecoverySteps, PendingActivation, Phases, load, last_known_good,
      InFlight
<1>2. ControlTypes'
  BY DEF TInv, TypeOK, ControlTypes, ControllerStates, Steps, ActivationSteps,
     RollbackSteps, RecoverySteps, Statuses, ActivationStatuses, CommittedStatuses,
     RolledBackStatuses, RecoveryStatuses, requires_read_only
<1>3. FlagTypes'
  BY DEF TInv, TypeOK, FlagTypes
<1>4. JournalType'
  BY DEF TInv, TypeOK, JournalType, Events
<1>5. ProbedType'
  BY ProbeAssumption DEF TInv, TypeOK, ProbedType, StepTypes, Unprobed
<1>6. StepTypes'
  BY ProbeAssumption, TransactionAssumption, RevisionsAssumption, ClearOutcomes,
     MarkOutcomes, LoadOutcomes, LateLoadOutcomes
  DEF TInv, TypeOK, DataTypes, ProbedType, StepTypes, Requesting, Owning, Unprobed,
      ActivationSteps, RollbackSteps, RecoverySteps, PendingActivation, load,
      last_known_good
<1>7. QED
  BY <1>1, <1>2, <1>3, <1>4, <1>5, <1>6 DEF TInv, TypeOK

LEMMA DispatchTypes == TInv /\ Dispatch => TInv'
<1> SUFFICES ASSUME TInv, Dispatch PROVE TInv'
  OBVIOUS
<1> USE DEF Dispatch, RefuseDispatch, Activate
<1>1. DataTypes'
  BY TransactionAssumption, RevisionsAssumption
  DEF TInv, TypeOK, DataTypes, StepTypes, Requesting, Owning, ActivationSteps,
      RollbackSteps, RecoverySteps, PendingActivation, Phases, load, last_known_good,
      InFlight
<1>2. ControlTypes'
  BY DEF TInv, TypeOK, ControlTypes, ControllerStates, Steps, ActivationSteps,
     RollbackSteps, RecoverySteps, Statuses, ActivationStatuses, CommittedStatuses,
     RolledBackStatuses, RecoveryStatuses, requires_read_only
<1>3. FlagTypes'
  BY DEF TInv, TypeOK, FlagTypes
<1>4. JournalType'
  BY DEF TInv, TypeOK, JournalType, Events
<1>5. ProbedType'
  BY ProbeAssumption DEF TInv, TypeOK, ProbedType, StepTypes, Unprobed
<1>6. StepTypes'
  BY ProbeAssumption, TransactionAssumption, RevisionsAssumption
  DEF TInv, TypeOK, DataTypes, ProbedType, StepTypes, Requesting, Owning, Unprobed,
      ActivationSteps, RollbackSteps, RecoverySteps, PendingActivation, load,
      last_known_good
<1>7. QED
  BY <1>1, <1>2, <1>3, <1>4, <1>5, <1>6 DEF TInv, TypeOK

LEMMA EnvironmentTypes == TInv /\ Environment => TInv'
<1> SUFFICES ASSUME TInv, Environment PROVE TInv'
  OBVIOUS
<1> USE DEF Environment, Boot, Crash, LateLoad
<1>1. DataTypes'
  BY TransactionAssumption, RevisionsAssumption, LateLoadOutcomes
  DEF TInv, TypeOK, DataTypes, StepTypes, Requesting, Owning, ActivationSteps,
      RollbackSteps, RecoverySteps, PendingActivation, Phases, load, last_known_good,
      InFlight
<1>2. ControlTypes'
  BY DEF TInv, TypeOK, ControlTypes, ControllerStates, Steps, ActivationSteps,
     RollbackSteps, RecoverySteps, Statuses, ActivationStatuses, CommittedStatuses,
     RolledBackStatuses, RecoveryStatuses, requires_read_only
<1>3. FlagTypes'
  BY DEF TInv, TypeOK, FlagTypes
<1>4. JournalType'
  BY DEF TInv, TypeOK, JournalType, Events
<1>5. ProbedType'
  BY ProbeAssumption DEF TInv, TypeOK, ProbedType, StepTypes, Unprobed
<1>6. StepTypes'
  BY ProbeAssumption, TransactionAssumption, RevisionsAssumption, LateLoadOutcomes
  DEF TInv, TypeOK, DataTypes, ProbedType, StepTypes, Requesting, Owning, Unprobed,
      ActivationSteps, RollbackSteps, RecoverySteps, PendingActivation, load,
      last_known_good
<1>7. QED
  BY <1>1, <1>2, <1>3, <1>4, <1>5, <1>6 DEF TInv, TypeOK

LEMMA TypeStep == TInv /\ [Next]_vars => TInv'
<1> SUFFICES ASSUME TInv, [Next]_vars PROVE TInv'
  OBVIOUS
<1>1. CASE UNCHANGED vars
  BY <1>1 DEF vars, TInv, TypeOK, StepTypes, DataTypes, ControlTypes, FlagTypes,
     JournalType, ProbedType
<1>2. QED
  BY <1>1, ActivationTypes, RollbackTypes, RecoveryTypes, DispatchTypes,
     EnvironmentTypes DEF Next, Step

\* Every variable keeps its type, whatever fails and whenever the process dies.
THEOREM TypeCorrect == Spec => []TypeOK
<1>1. TInv => TypeOK
  BY DEF TInv
<1>2. QED
  BY TypeInit, TypeStep, <1>1, PTL DEF Spec
-----------------------------------------------------------------------------
(***************************************************************************)
(* The audit trail.  Whatever append fails, the running call remembers it: *)
(* an activation has lost nothing before it rolls back or commits, and     *)
(* from there on a loss is either remembered in compromised or the status  *)
(* already decided degrades the controller anyway.                         *)
(***************************************************************************)
ControlInv ==
  /\ pc \in ActivationSteps \cup RollbackSteps => state = "ready"
  /\ pc \in RecoverySteps => state \in {"created", "starting"}
  /\ pc = "idle" => state \notin {"created", "starting"}

TrailInv ==
  /\ pc \in ActivationSteps \ {"unbegin", "clear"} => ~ lost
  /\ pc = "clear" => (lost => compromised)
  /\ pc \in RollbackSteps =>
       /\ desired \in RolledBackStatuses
       /\ lost => compromised \/ desired = "transaction_store_failed"
  /\ pc = "recover" => (lost => ~ startupAudited)
  /\ pc \in RecoverySteps \ {"start", "recover"}
       => (lost => ~ startupAudited \/ compromised)

LEMMA ControlStep == ControlInv /\ [Next]_vars => ControlInv'
<1> SUFFICES ASSUME ControlInv, [Next]_vars PROVE ControlInv'
  OBVIOUS
<1> USE DEF ControlInv, ActivationSteps, RollbackSteps, RecoverySteps
<1>1. CASE ActivationStep
  BY <1>1 DEF ActivationStep, Authorize, ResolveRevisions, Revalidate,
     BeginTransaction, WithdrawTransaction, AnnounceLoad, LoadTarget,
     AdvanceTargetLoaded, RunProbe, AdvanceVerified, AdvanceAwaiting,
     AwaitConfirmation, AdvanceCommitting, AnnounceCommit, MarkTarget,
     AdvanceCommitted, ClearCommitted
<1>2. CASE RollbackStep
  BY <1>2 DEF RollbackStep, RollbackValidate, RollbackLoad, RollbackMark,
     RollbackClear
<1>3. CASE RecoveryStep
  BY <1>3 DEF RecoveryStep, StartController, RecoverPending, RecoverCommitted,
     CleanCommitted, RecoverValidate, RecoverLoad, RecoverMark, ClearRolledBack
<1>4. CASE Dispatch
  BY <1>4 DEF Dispatch, RefuseDispatch, Activate
<1>5. CASE Environment
  BY <1>5 DEF Environment, Boot, Crash, LateLoad
<1>6. CASE UNCHANGED vars
  BY <1>6 DEF vars
<1>7. QED
  BY <1>1, <1>2, <1>3, <1>4, <1>5, <1>6 DEF Next, Step

AuditInv == TInv /\ ControlInv /\ TrailInv /\ AuditLossDegrades

LEMMA AuditInit == Init => AuditInv
BY TypeInit DEF Init, AuditInv, ControlInv, TrailInv, AuditLossDegrades,
   ActivationSteps, RollbackSteps, RecoverySteps

LEMMA TrailStep == AuditInv /\ [Next]_vars => (TrailInv /\ AuditLossDegrades)'
<1> SUFFICES ASSUME AuditInv, [Next]_vars PROVE (TrailInv /\ AuditLossDegrades)'
  OBVIOUS
<1> USE DEF AuditInv, TInv, TypeOK, FlagTypes, ControlInv, TrailInv,
            AuditLossDegrades, RolledBackStatuses, requires_read_only,
            ActivationSteps, RollbackSteps, RecoverySteps
<1>1. CASE RefuseDispatch
  BY <1>1 DEF RefuseDispatch
<1>2. CASE Authorize
  BY <1>2 DEF Authorize
<1>3. CASE ResolveRevisions
  BY <1>3 DEF ResolveRevisions
<1>4. CASE Revalidate
  BY <1>4 DEF Revalidate
<1>5. CASE BeginTransaction
  BY <1>5 DEF BeginTransaction
<1>6. CASE WithdrawTransaction
  BY <1>6 DEF WithdrawTransaction
<1>7. CASE AnnounceLoad
  BY <1>7 DEF AnnounceLoad
<1>8. CASE LoadTarget
  BY <1>8 DEF LoadTarget
<1>9. CASE AdvanceTargetLoaded
  BY <1>9 DEF AdvanceTargetLoaded
<1>10. CASE RunProbe
  BY <1>10 DEF RunProbe
<1>11. CASE AdvanceVerified
  BY <1>11 DEF AdvanceVerified
<1>12. CASE AdvanceAwaiting
  BY <1>12 DEF AdvanceAwaiting
<1>13. CASE AwaitConfirmation
  BY <1>13 DEF AwaitConfirmation
<1>14. CASE AdvanceCommitting
  BY <1>14 DEF AdvanceCommitting
<1>15. CASE AnnounceCommit
  BY <1>15 DEF AnnounceCommit
<1>16. CASE MarkTarget
  BY <1>16 DEF MarkTarget
<1>17. CASE AdvanceCommitted
  BY <1>17 DEF AdvanceCommitted
<1>18. CASE ClearCommitted
  BY <1>18 DEF ClearCommitted
<1>19. CASE RollbackValidate
  BY <1>19 DEF RollbackValidate
<1>20. CASE RollbackLoad
  BY <1>20 DEF RollbackLoad
<1>21. CASE RollbackMark
  BY <1>21 DEF RollbackMark
<1>22. CASE RollbackClear
  BY <1>22 DEF RollbackClear
<1>23. CASE Boot
  BY <1>23 DEF Boot
<1>24. CASE StartController
  <2>1. pc' = "recover"
    BY <1>24 DEF StartController
  <2>2. PICK audited \in BOOLEAN : startupAudited' = audited /\ lost' = ~ audited
    BY <1>24 DEF StartController
  <2>3. lost' => ~ startupAudited'
    BY <2>2
  <2>4. QED
    BY <2>1, <2>3
<1>25. CASE RecoverPending
  BY <1>25 DEF RecoverPending
<1>26. CASE RecoverCommitted
  BY <1>26 DEF RecoverCommitted
<1>27. CASE CleanCommitted
  BY <1>27 DEF CleanCommitted
<1>28. CASE RecoverValidate
  BY <1>28 DEF RecoverValidate
<1>29. CASE RecoverLoad
  BY <1>29 DEF RecoverLoad
<1>30. CASE RecoverMark
  BY <1>30 DEF RecoverMark
<1>31. CASE ClearRolledBack
  BY <1>31 DEF ClearRolledBack
<1>32. CASE Crash
  BY <1>32 DEF Crash
<1>33. ASSUME NEW o \in Operations, NEW t \in Revisions, Activate(o, t)
       PROVE  (TrailInv /\ AuditLossDegrades)'
  BY <1>33 DEF Activate
<1>34. ASSUME NEW r \in Revisions, LateLoad(r)
       PROVE  (TrailInv /\ AuditLossDegrades)'
  BY <1>34 DEF LateLoad
<1>35. CASE UNCHANGED vars
  BY <1>35 DEF vars
<1>36. QED
  BY <1>1, <1>2, <1>3, <1>4, <1>5, <1>6, <1>7, <1>8, <1>9, <1>10, <1>11, <1>12,
     <1>13, <1>14, <1>15, <1>16, <1>17, <1>18, <1>19, <1>20, <1>21, <1>22,
     <1>23, <1>24, <1>25, <1>26, <1>27, <1>28, <1>29, <1>30, <1>31, <1>32,
     <1>33, <1>34, <1>35
  DEF Next, Step, ActivationStep, RollbackStep, RecoveryStep, Dispatch, Environment

LEMMA AuditStep == AuditInv /\ [Next]_vars => AuditInv'
BY TypeStep, ControlStep, TrailStep DEF AuditInv

(***************************************************************************)
(* No lost audit event goes unnoticed, for any revisions, probes, faults   *)
(* and pfctl children: the controller is not ready once the call that lost *)
(* it has returned.                                                        *)
(***************************************************************************)
THEOREM AuditLossIsNoticed == Spec => []AuditLossDegrades
<1>1. AuditInv => AuditLossDegrades
  BY DEF AuditInv
<1>2. QED
  BY AuditInit, AuditStep, <1>1, PTL DEF Spec

-----------------------------------------------------------------------------
\* The steps from a successful load of the target to the promotion of its marker.
Deciding == {"target_loaded", "probe", "verified", "awaiting_confirmation",
             "confirm", "committing", "commit", "mark"}

-----------------------------------------------------------------------------
(***************************************************************************)
(* Facts that hold under every fault.  While a call runs, the pending      *)
(* record is its own; a controller that is ready, and a request that has   *)
(* not reached begin(), have none.  What has been journalled and probed    *)
(* follows from the step reached.                                          *)
(***************************************************************************)
OwnershipInv ==
  /\ pc \in Requesting \/ (pc = "idle" /\ state = "ready") => txn = NoTransaction
  /\ pc \in {"revalidate", "begin"} => previous = lkg /\ target # previous
  /\ pc \in Owning => /\ txn # NoTransaction /\ txn.op = op
                      /\ txn.target = target /\ txn.rollback = previous

EarnedInv ==
  /\ pc \in ActivationSteps \ {"clear", "unbegin"} => "GH-ACT-0001" \in journal
  /\ pc \in ActivationSteps \ {"clear", "unbegin", "authorize"}
       => "GH-AUTH-0001" \in journal
  /\ pc \in Deciding \cup {"load"} => "GH-ACT-0003" \in journal
  /\ pc \in {"committing", "commit", "mark"} => "GH-CONF-0001" \in journal
  /\ pc = "mark" => "GH-ACT-0006" \in journal
  /\ pc \in Deciding \ {"target_loaded", "probe"} => probed = ProbeCount
  /\ pc \in {"commit", "mark"} => txn.phase = "committing"

RecordInv == TInv /\ ControlInv /\ OwnershipInv /\ EarnedInv

LEMMA RecordInit == Init => RecordInv
BY TypeInit, AuditInit DEF Init, AuditInv, RecordInv, OwnershipInv, EarnedInv,
   Requesting, Owning, Deciding, ActivationSteps, RollbackSteps, RecoverySteps

LEMMA OwnershipStep == RecordInv /\ [Next]_vars => (OwnershipInv /\ EarnedInv)'
<1> SUFFICES ASSUME RecordInv, [Next]_vars PROVE (OwnershipInv /\ EarnedInv)'
  OBVIOUS
<1> USE TransactionAssumption, RevisionsAssumption
    DEF RecordInv, TInv, TypeOK, DataTypes, StepTypes, ControlInv, OwnershipInv,
        EarnedInv, Phases, Requesting, Owning, Deciding, ActivationSteps,
        RollbackSteps, RecoverySteps
<1>1. CASE RefuseDispatch
  BY <1>1 DEF RefuseDispatch
<1>2. CASE Authorize
  BY <1>2 DEF Authorize
<1>3. CASE ResolveRevisions
  BY <1>3 DEF ResolveRevisions, last_known_good
<1>4. CASE Revalidate
  BY <1>4 DEF Revalidate
<1>5. CASE BeginTransaction
  <2>1. CASE pc' = "idle"
    BY <1>5, <2>1, BeginOutcomes DEF BeginTransaction, requires_read_only
  <2>2. CASE pc' # "idle"
    <3>1. /\ pc' \in {"intent", "unbegin"} /\ pc = "begin"
          /\ UNCHANGED <<op, target, previous>>
          /\ (pc' = "intent" => UNCHANGED journal)
          /\ txn' = [op |-> op, target |-> target, rollback |-> previous,
                      phase |-> "prepared_for_load"]
      BY <1>5, <2>2, BeginOutcomes DEF BeginTransaction
    <3>2. txn' \in PendingActivation
      BY <3>1 DEF PendingActivation
    <3>3. QED
      BY <3>1, <3>2
  <2>3. QED
    BY <2>1, <2>2
<1>6. CASE WithdrawTransaction
  BY <1>6, ClearOutcomes DEF WithdrawTransaction, requires_read_only
<1>7. CASE AnnounceLoad
  BY <1>7 DEF AnnounceLoad
<1>8. CASE LoadTarget
  BY <1>8, LoadOutcomes, LateLoadOutcomes DEF LoadTarget
<1>9. CASE AdvanceTargetLoaded
  BY <1>9, AdvanceOutcomes DEF AdvanceTargetLoaded
<1>10. CASE RunProbe
  BY <1>10 DEF RunProbe
<1>11. CASE AdvanceVerified
  BY <1>11, AdvanceOutcomes DEF AdvanceVerified
<1>12. CASE AdvanceAwaiting
  BY <1>12, AdvanceOutcomes DEF AdvanceAwaiting
<1>13. CASE AwaitConfirmation
  BY <1>13 DEF AwaitConfirmation
<1>14. CASE AdvanceCommitting
  BY <1>14, AdvanceOutcomes DEF AdvanceCommitting
<1>15. CASE AnnounceCommit
  BY <1>15 DEF AnnounceCommit
<1>16. CASE MarkTarget
  BY <1>16, MarkOutcomes DEF MarkTarget
<1>17. CASE AdvanceCommitted
  BY <1>17, AdvanceOutcomes DEF AdvanceCommitted
<1>18. CASE ClearCommitted
  BY <1>18, ClearOutcomes DEF ClearCommitted, requires_read_only
<1>19. CASE RollbackValidate
  BY <1>19 DEF RollbackValidate
<1>20. CASE RollbackLoad
  BY <1>20, LoadOutcomes, LateLoadOutcomes DEF RollbackLoad
<1>21. CASE RollbackMark
  BY <1>21, MarkOutcomes DEF RollbackMark
<1>22. CASE RollbackClear
  BY <1>22, ClearOutcomes DEF RollbackClear, requires_read_only
<1>23. CASE Boot
  BY <1>23 DEF Boot
<1>24. CASE StartController
  BY <1>24 DEF StartController
<1>25. CASE RecoverPending
  BY <1>25 DEF RecoverPending, load
<1>26. CASE RecoverCommitted
  BY <1>26 DEF RecoverCommitted
<1>27. CASE CleanCommitted
  BY <1>27, ClearOutcomes DEF CleanCommitted
<1>28. CASE RecoverValidate
  BY <1>28 DEF RecoverValidate
<1>29. CASE RecoverLoad
  BY <1>29, LoadOutcomes, LateLoadOutcomes DEF RecoverLoad
<1>30. CASE RecoverMark
  BY <1>30, MarkOutcomes DEF RecoverMark
<1>31. CASE ClearRolledBack
  BY <1>31, ClearOutcomes DEF ClearRolledBack
<1>32. CASE Crash
  BY <1>32, LateLoadOutcomes DEF Crash
<1>33. ASSUME NEW o \in Operations, NEW t \in Revisions, Activate(o, t)
       PROVE  (OwnershipInv /\ EarnedInv)'
  BY <1>33 DEF Activate
<1>34. ASSUME NEW r \in Revisions, LateLoad(r)
       PROVE  (OwnershipInv /\ EarnedInv)'
  BY <1>34 DEF LateLoad
<1>35. CASE UNCHANGED vars
  BY <1>35 DEF vars
<1>36. QED
  BY <1>1, <1>2, <1>3, <1>4, <1>5, <1>6, <1>7, <1>8, <1>9, <1>10, <1>11, <1>12,
     <1>13, <1>14, <1>15, <1>16, <1>17, <1>18, <1>19, <1>20, <1>21, <1>22,
     <1>23, <1>24, <1>25, <1>26, <1>27, <1>28, <1>29, <1>30, <1>31, <1>32,
     <1>33, <1>34, <1>35
  DEF Next, Step, ActivationStep, RollbackStep, RecoveryStep, Dispatch, Environment

LEMMA RecordStep == RecordInv /\ [Next]_vars => RecordInv'
BY TypeStep, ControlStep, OwnershipStep DEF RecordInv

(***************************************************************************)
(* The marker moves to a target only after every probe passed and with     *)
(* start, authorization, load intent, confirmation and commit intent in    *)
(* the journal, whatever fails and whichever children outlive their run.   *)
(***************************************************************************)
THEOREM PromotionMustBeEarned == Spec => PromotionIsEarned
<1> DEFINE Earned == /\ txn # NoTransaction
                     /\ \/ lkg' = txn.rollback
                        \/ /\ lkg' = txn.target /\ txn.phase = "committing"
                           /\ probed = ProbeCount
                           /\ {"GH-ACT-0001", "GH-AUTH-0001", "GH-ACT-0003",
                               "GH-CONF-0001", "GH-ACT-0006"} \subseteq journal
<1>1. ASSUME RecordInv, [Next]_vars, lkg' # lkg PROVE Earned
  <2>1. MarkTarget \/ RollbackMark \/ RecoverMark
    BY <1>1 DEF Next, Step, vars, ActivationStep, RollbackStep, RecoveryStep, Dispatch,
       Environment, RefuseDispatch, Activate, Authorize, ResolveRevisions, Revalidate,
       BeginTransaction, WithdrawTransaction, AnnounceLoad, LoadTarget,
       AdvanceTargetLoaded, RunProbe, AdvanceVerified, AdvanceAwaiting,
       AwaitConfirmation, AdvanceCommitting, AnnounceCommit, AdvanceCommitted,
       ClearCommitted, RollbackValidate, RollbackLoad, RollbackClear, Boot,
       StartController, RecoverPending, RecoverCommitted, CleanCommitted,
       RecoverValidate, RecoverLoad, ClearRolledBack, Crash, LateLoad
  <2>2. CASE MarkTarget
    BY <1>1, <2>2, MarkOutcomes DEF MarkTarget, RecordInv, OwnershipInv, EarnedInv,
       Owning, Deciding, Requesting, ActivationSteps
  <2>3. CASE RollbackMark \/ RecoverMark
    BY <1>1, <2>3, MarkOutcomes DEF RollbackMark, RecoverMark, RecordInv, OwnershipInv,
       Owning, RollbackSteps, RecoverySteps
  <2>4. QED
    BY <2>1, <2>2, <2>3
<1>2. RecordInv /\ [Next]_vars => [lkg' # lkg => Earned]_vars
  BY <1>1
<1>3. QED
  BY <1>2, RecordInit, RecordStep, PTL DEF Spec, PromotionIsEarned

-----------------------------------------------------------------------------
(***************************************************************************)
(* Where the marker is at each step, and what the pending record says of   *)
(* it.  A pfctl child cannot touch the disk, so this needs only the fault  *)
(* of the run CommitSyncFailure to be absent: a failed commit advance      *)
(* leaves the record as it was.                                            *)
(***************************************************************************)
CommitIsClean == "commit" \notin DirSyncMayFail

PhaseInv ==
  /\ pc \in {"clear", "rec_committed", "rec_cleanup"} => txn.phase = "committed"
  /\ pc \in Owning \ {"clear", "rec_committed", "rec_cleanup"}
       => txn.phase # "committed"

MarkerPlace ==
  /\ pc \in {"unbegin", "intent", "load"} \cup Deciding => lkg = previous
  /\ pc = "committed" => lkg = target
  /\ pc \in {"rb_clear", "rec_clear"} => lkg = previous

MarkerExplained ==
  /\ txn = NoTransaction => lkg = accepted
  /\ txn # NoTransaction =>
       /\ lkg \in {txn.target, txn.rollback}
       /\ accepted = IF txn.phase = "committed" THEN txn.target ELSE txn.rollback
       /\ txn.phase = "committed" => lkg = txn.target

MarkerInv == PhaseInv /\ MarkerPlace /\ MarkerExplained

MarkerSafe == RecordInv /\ MarkerInv

LEMMA MarkerInit == Init => MarkerSafe
BY RecordInit DEF Init, MarkerSafe, MarkerInv, PhaseInv, MarkerPlace, MarkerExplained,
   Owning, Deciding, Requesting, ActivationSteps, RollbackSteps, RecoverySteps

LEMMA MarkerStep == CommitIsClean /\ MarkerSafe /\ [Next]_vars => MarkerInv'
<1> SUFFICES ASSUME CommitIsClean, MarkerSafe, [Next]_vars PROVE MarkerInv'
  OBVIOUS
<1> USE TransactionAssumption, RevisionsAssumption
    DEF CommitIsClean, MarkerSafe, RecordInv, TInv, TypeOK, DataTypes, StepTypes,
        OwnershipInv, MarkerInv, PhaseInv, MarkerPlace, MarkerExplained, Phases,
        Requesting, Owning, Deciding, ActivationSteps, RollbackSteps, RecoverySteps
<1>1. CASE RefuseDispatch
  BY <1>1 DEF RefuseDispatch
<1>2. CASE Authorize
  BY <1>2 DEF Authorize
<1>3. CASE ResolveRevisions
  BY <1>3 DEF ResolveRevisions, last_known_good
<1>4. CASE Revalidate
  BY <1>4 DEF Revalidate
<1>5. CASE BeginTransaction
  BY <1>5, BeginOutcomes DEF BeginTransaction
<1>6. CASE WithdrawTransaction
  BY <1>6, ClearOutcomes DEF WithdrawTransaction
<1>7. CASE AnnounceLoad
  BY <1>7 DEF AnnounceLoad
<1>8. CASE LoadTarget
  BY <1>8, LoadOutcomes, LateLoadOutcomes DEF LoadTarget
<1>9. CASE AdvanceTargetLoaded
  BY <1>9, AdvanceOutcomes DEF AdvanceTargetLoaded
<1>10. CASE RunProbe
  BY <1>10 DEF RunProbe
<1>11. CASE AdvanceVerified
  BY <1>11, AdvanceOutcomes DEF AdvanceVerified
<1>12. CASE AdvanceAwaiting
  BY <1>12, AdvanceOutcomes DEF AdvanceAwaiting
<1>13. CASE AwaitConfirmation
  BY <1>13 DEF AwaitConfirmation
<1>14. CASE AdvanceCommitting
  BY <1>14, AdvanceOutcomes DEF AdvanceCommitting
<1>15. CASE AnnounceCommit
  BY <1>15 DEF AnnounceCommit
<1>16. CASE MarkTarget
  BY <1>16, MarkOutcomes DEF MarkTarget
<1>17. CASE AdvanceCommitted
  BY <1>17, AdvanceOutcomes DEF AdvanceCommitted, CommitKind
<1>18. CASE ClearCommitted
  BY <1>18, ClearOutcomes DEF ClearCommitted
<1>19. CASE RollbackValidate
  BY <1>19 DEF RollbackValidate
<1>20. CASE RollbackLoad
  BY <1>20, LoadOutcomes, LateLoadOutcomes DEF RollbackLoad
<1>21. CASE RollbackMark
  BY <1>21, MarkOutcomes DEF RollbackMark
<1>22. CASE RollbackClear
  BY <1>22, ClearOutcomes DEF RollbackClear
<1>23. CASE Boot
  BY <1>23 DEF Boot
<1>24. CASE StartController
  BY <1>24 DEF StartController
<1>25. CASE RecoverPending
  BY <1>25 DEF RecoverPending, load, PendingActivation
<1>26. CASE RecoverCommitted
  BY <1>26 DEF RecoverCommitted, last_known_good
<1>27. CASE CleanCommitted
  BY <1>27, ClearOutcomes DEF CleanCommitted
<1>28. CASE RecoverValidate
  BY <1>28 DEF RecoverValidate
<1>29. CASE RecoverLoad
  BY <1>29, LoadOutcomes, LateLoadOutcomes DEF RecoverLoad
<1>30. CASE RecoverMark
  BY <1>30, MarkOutcomes DEF RecoverMark
<1>31. CASE ClearRolledBack
  BY <1>31, ClearOutcomes DEF ClearRolledBack
<1>32. CASE Crash
  BY <1>32, LateLoadOutcomes DEF Crash
<1>33. ASSUME NEW o \in Operations, NEW t \in Revisions, Activate(o, t)
       PROVE  MarkerInv'
  BY <1>33 DEF Activate
<1>34. ASSUME NEW r \in Revisions, LateLoad(r)
       PROVE  MarkerInv'
  BY <1>34 DEF LateLoad
<1>35. CASE UNCHANGED vars
  BY <1>35 DEF vars
<1>36. QED
  BY <1>1, <1>2, <1>3, <1>4, <1>5, <1>6, <1>7, <1>8, <1>9, <1>10, <1>11, <1>12,
     <1>13, <1>14, <1>15, <1>16, <1>17, <1>18, <1>19, <1>20, <1>21, <1>22,
     <1>23, <1>24, <1>25, <1>26, <1>27, <1>28, <1>29, <1>30, <1>31, <1>32,
     <1>33, <1>34, <1>35
  DEF Next, Step, ActivationStep, RollbackStep, RecoveryStep, Dispatch, Environment

LEMMA MarkerSafeStep == CommitIsClean /\ MarkerSafe /\ [Next]_vars => MarkerSafe'
BY RecordStep, MarkerStep DEF MarkerSafe

(***************************************************************************)
(* With nothing pending the marker is the last committed revision, also    *)
(* when a pfctl child outlives the controller that started it.             *)
(***************************************************************************)
THEOREM MarkerSurvivesOrphans ==
  ASSUME CommitIsClean
  PROVE  Spec => []MarkerIsCommitted
<1>1. MarkerSafe => MarkerIsCommitted
  BY DEF MarkerSafe, MarkerInv, MarkerExplained, MarkerIsCommitted
<1>2. QED
  BY MarkerInit, MarkerSafeStep, <1>1, PTL DEF Spec

-----------------------------------------------------------------------------
(***************************************************************************)
(* Where the running rules are at each step.  This needs the fault of the  *)
(* run OrphanedLoad to be absent as well: no pfctl child outlives the run  *)
(* that started it.                                                        *)
(***************************************************************************)
Orderly == ~ ChildMayOutlive /\ CommitIsClean

PlaceInv ==
  /\ children = {}
  /\ pc \in {"unbegin", "intent", "load"} => pf = previous
  /\ pc \in Deciding \cup {"committed"} => pf = target
  /\ pc \in {"rb_mark", "rec_mark", "rb_clear", "rec_clear"} => pf = previous

Consistency == PlaceInv /\ Settled /\ RecordExplainsState /\ ResultTellsTruth

SafeInv == MarkerSafe /\ AuditInv /\ Consistency

LEMMA SafeInit == Init => SafeInv
BY MarkerInit, AuditInit DEF Init, SafeInv, Consistency, PlaceInv, Settled,
   RecordExplainsState, ResultTellsTruth, Deciding

LEMMA ConsistencyStep == Orderly /\ SafeInv /\ [Next]_vars => Consistency'
<1> SUFFICES ASSUME Orderly, SafeInv, [Next]_vars PROVE Consistency'
  OBVIOUS
<1>0. MarkerInv'
  BY MarkerStep DEF Orderly, SafeInv
<1> USE TransactionAssumption, RevisionsAssumption, <1>0
    DEF Orderly, CommitIsClean, SafeInv, MarkerSafe, RecordInv, TInv, TypeOK,
        DataTypes, StepTypes, OwnershipInv, AuditInv, TrailInv, MarkerInv, PhaseInv,
        MarkerPlace, MarkerExplained, Consistency, PlaceInv, Settled,
        RecordExplainsState, ResultTellsTruth, ActivationStatuses, CommittedStatuses,
        RolledBackStatuses, Phases, Requesting, Owning, Deciding, ActivationSteps,
        RollbackSteps, RecoverySteps
<1>1. CASE RefuseDispatch
  BY <1>1 DEF RefuseDispatch
<1>2. CASE Authorize
  BY <1>2 DEF Authorize
<1>3. CASE ResolveRevisions
  BY <1>3 DEF ResolveRevisions, last_known_good
<1>4. CASE Revalidate
  BY <1>4 DEF Revalidate
<1>5. CASE BeginTransaction
  BY <1>5, BeginOutcomes DEF BeginTransaction
<1>6. CASE WithdrawTransaction
  BY <1>6, ClearOutcomes DEF WithdrawTransaction
<1>7. CASE AnnounceLoad
  BY <1>7 DEF AnnounceLoad
<1>8. CASE LoadTarget
  BY <1>8, LoadOutcomes, LateLoadOutcomes DEF LoadTarget
<1>9. CASE AdvanceTargetLoaded
  BY <1>9, AdvanceOutcomes DEF AdvanceTargetLoaded
<1>10. CASE RunProbe
  BY <1>10 DEF RunProbe
<1>11. CASE AdvanceVerified
  BY <1>11, AdvanceOutcomes DEF AdvanceVerified
<1>12. CASE AdvanceAwaiting
  BY <1>12, AdvanceOutcomes DEF AdvanceAwaiting
<1>13. CASE AwaitConfirmation
  BY <1>13 DEF AwaitConfirmation
<1>14. CASE AdvanceCommitting
  BY <1>14, AdvanceOutcomes DEF AdvanceCommitting
<1>15. CASE AnnounceCommit
  BY <1>15 DEF AnnounceCommit
<1>16. CASE MarkTarget
  BY <1>16, MarkOutcomes DEF MarkTarget
<1>17. CASE AdvanceCommitted
  BY <1>17, AdvanceOutcomes DEF AdvanceCommitted, CommitKind
<1>18. CASE ClearCommitted
  BY <1>18, ClearOutcomes DEF ClearCommitted
<1>19. CASE RollbackValidate
  BY <1>19 DEF RollbackValidate
<1>20. CASE RollbackLoad
  BY <1>20, LoadOutcomes, LateLoadOutcomes DEF RollbackLoad
<1>21. CASE RollbackMark
  BY <1>21, MarkOutcomes DEF RollbackMark
<1>22. CASE RollbackClear
  BY <1>22, ClearOutcomes DEF RollbackClear
<1>23. CASE Boot
  BY <1>23 DEF Boot
<1>24. CASE StartController
  BY <1>24 DEF StartController
<1>25. CASE RecoverPending
  BY <1>25 DEF RecoverPending, load, PendingActivation
<1>26. CASE RecoverCommitted
  BY <1>26 DEF RecoverCommitted, last_known_good
<1>27. CASE CleanCommitted
  BY <1>27, ClearOutcomes DEF CleanCommitted
<1>28. CASE RecoverValidate
  BY <1>28 DEF RecoverValidate
<1>29. CASE RecoverLoad
  BY <1>29, LoadOutcomes, LateLoadOutcomes DEF RecoverLoad
<1>30. CASE RecoverMark
  BY <1>30, MarkOutcomes DEF RecoverMark
<1>31. CASE ClearRolledBack
  BY <1>31, ClearOutcomes DEF ClearRolledBack
<1>32. CASE Crash
  BY <1>32, LateLoadOutcomes DEF Crash, InFlight
<1>33. ASSUME NEW o \in Operations, NEW t \in Revisions, Activate(o, t)
       PROVE  Consistency'
  BY <1>33 DEF Activate
<1>34. ASSUME NEW r \in Revisions, LateLoad(r)
       PROVE  Consistency'
  BY <1>34 DEF LateLoad
<1>35. CASE UNCHANGED vars
  BY <1>35 DEF vars
<1>36. QED
  BY <1>1, <1>2, <1>3, <1>4, <1>5, <1>6, <1>7, <1>8, <1>9, <1>10, <1>11, <1>12,
     <1>13, <1>14, <1>15, <1>16, <1>17, <1>18, <1>19, <1>20, <1>21, <1>22,
     <1>23, <1>24, <1>25, <1>26, <1>27, <1>28, <1>29, <1>30, <1>31, <1>32,
     <1>33, <1>34, <1>35
  DEF Next, Step, ActivationStep, RollbackStep, RecoveryStep, Dispatch, Environment

LEMMA SafeStep == Orderly /\ SafeInv /\ [Next]_vars => SafeInv'
BY MarkerSafeStep, AuditStep, ConsistencyStep DEF SafeInv, MarkerSafe, RecordInv, Orderly

(***************************************************************************)
(* With nothing pending, PF runs the marker's revision and the marker is   *)
(* the last committed revision (activation_service.cpp).                   *)
(***************************************************************************)
THEOREM NothingPendingMeansSettled ==
  ASSUME Orderly
  PROVE  Spec => []Settled
<1>1. SafeInv => Settled
  BY DEF SafeInv, Consistency
<1>2. QED
  BY SafeInit, SafeStep, <1>1, PTL DEF Spec

\* With a record pending, the record explains what PF runs and the marker names.
THEOREM NothingUnexplained ==
  ASSUME Orderly
  PROVE  Spec => []RecordExplainsState
<1>1. SafeInv => RecordExplainsState
  BY DEF SafeInv, Consistency
<1>2. QED
  BY SafeInit, SafeStep, <1>1, PTL DEF Spec

\* A controller that accepts requests has nothing pending and runs the marker.
THEOREM ReadyMeansSettled ==
  ASSUME Orderly
  PROVE  Spec => []ReadyIsSettled
<1>1. SafeInv => ReadyIsSettled
  BY DEF SafeInv, MarkerSafe, RecordInv, OwnershipInv, Consistency, Settled, ReadyIsSettled
<1>2. QED
  BY SafeInit, SafeStep, <1>1, PTL DEF Spec

\* The status a call returns tells what PF, the marker and the record hold.
THEOREM StatusIsTruthful ==
  ASSUME Orderly
  PROVE  Spec => []ResultTellsTruth
<1>1. SafeInv => ResultTellsTruth
  BY DEF SafeInv, Consistency
<1>2. QED
  BY SafeInit, SafeStep, <1>1, PTL DEF Spec

-----------------------------------------------------------------------------
(***************************************************************************)
(* Refinement.  begin() opens the trial, every pfctl run (a crashed one    *)
(* too) and every move of the marker stays inside it, advance(committed)   *)
(* decides it and clear() closes it; the other steps stutter.              *)
(***************************************************************************)
LEMMA TrialInit == Init => Trial!AInit
BY DEF Init, Trial!AInit, Pending

LEMMA TrialStep ==
  Orderly /\ SafeInv /\ SafeInv' /\ [Next]_vars => [Trial!ANext]_(Trial!avars)
<1> SUFFICES ASSUME Orderly, SafeInv, SafeInv', [Next]_vars
             PROVE  [Trial!ANext]_(Trial!avars)
  OBVIOUS
<1> USE TransactionAssumption, RevisionsAssumption
    DEF Orderly, CommitIsClean, SafeInv, MarkerSafe, RecordInv, TInv, TypeOK,
        DataTypes, StepTypes, PendingActivation, OwnershipInv, MarkerInv, PhaseInv,
        MarkerPlace, MarkerExplained, Consistency, PlaceInv, Settled,
        RecordExplainsState, Phases, Requesting, Owning, Deciding, ActivationSteps,
        RollbackSteps, RecoverySteps, Pending, Trial!avars, Trial!ANext, Trial!Open,
        Trial!Apply, Trial!Mark, Trial!Decide, Trial!Close, Trial!OnTrial
<1>1. CASE RefuseDispatch
  BY <1>1 DEF RefuseDispatch
<1>2. CASE Authorize
  BY <1>2 DEF Authorize
<1>3. CASE ResolveRevisions
  BY <1>3 DEF ResolveRevisions
<1>4. CASE Revalidate
  BY <1>4 DEF Revalidate
<1>5. CASE BeginTransaction
  BY <1>5, BeginOutcomes DEF BeginTransaction
<1>6. CASE WithdrawTransaction
  BY <1>6, ClearOutcomes DEF WithdrawTransaction
<1>7. CASE AnnounceLoad
  BY <1>7 DEF AnnounceLoad
<1>8. CASE LoadTarget
  BY <1>8, LoadOutcomes, LateLoadOutcomes DEF LoadTarget
<1>9. CASE AdvanceTargetLoaded
  BY <1>9, AdvanceOutcomes DEF AdvanceTargetLoaded
<1>10. CASE RunProbe
  BY <1>10 DEF RunProbe
<1>11. CASE AdvanceVerified
  BY <1>11, AdvanceOutcomes DEF AdvanceVerified
<1>12. CASE AdvanceAwaiting
  BY <1>12, AdvanceOutcomes DEF AdvanceAwaiting
<1>13. CASE AwaitConfirmation
  BY <1>13 DEF AwaitConfirmation
<1>14. CASE AdvanceCommitting
  BY <1>14, AdvanceOutcomes DEF AdvanceCommitting
<1>15. CASE AnnounceCommit
  BY <1>15 DEF AnnounceCommit
<1>16. CASE MarkTarget
  BY <1>16, MarkOutcomes DEF MarkTarget
<1>17. CASE AdvanceCommitted
  BY <1>17, AdvanceOutcomes DEF AdvanceCommitted, CommitKind
<1>18. CASE ClearCommitted
  BY <1>18, ClearOutcomes DEF ClearCommitted
<1>19. CASE RollbackValidate
  BY <1>19 DEF RollbackValidate
<1>20. CASE RollbackLoad
  BY <1>20, LoadOutcomes, LateLoadOutcomes DEF RollbackLoad
<1>21. CASE RollbackMark
  BY <1>21, MarkOutcomes DEF RollbackMark
<1>22. CASE RollbackClear
  BY <1>22, ClearOutcomes DEF RollbackClear
<1>23. CASE Boot
  BY <1>23 DEF Boot
<1>24. CASE StartController
  BY <1>24 DEF StartController
<1>25. CASE RecoverPending
  BY <1>25 DEF RecoverPending
<1>26. CASE RecoverCommitted
  BY <1>26 DEF RecoverCommitted
<1>27. CASE CleanCommitted
  BY <1>27, ClearOutcomes DEF CleanCommitted
<1>28. CASE RecoverValidate
  BY <1>28 DEF RecoverValidate
<1>29. CASE RecoverLoad
  BY <1>29, LoadOutcomes, LateLoadOutcomes DEF RecoverLoad
<1>30. CASE RecoverMark
  BY <1>30, MarkOutcomes DEF RecoverMark
<1>31. CASE ClearRolledBack
  BY <1>31, ClearOutcomes DEF ClearRolledBack
<1>32. CASE Crash
  BY <1>32, LateLoadOutcomes DEF Crash, InFlight
<1>33. ASSUME NEW o \in Operations, NEW t \in Revisions, Activate(o, t)
       PROVE  [Trial!ANext]_(Trial!avars)
  BY <1>33 DEF Activate
<1>34. ASSUME NEW r \in Revisions, LateLoad(r)
       PROVE  [Trial!ANext]_(Trial!avars)
  BY <1>34 DEF LateLoad
<1>35. CASE UNCHANGED vars
  BY <1>35 DEF vars
<1>36. QED
  BY <1>1, <1>2, <1>3, <1>4, <1>5, <1>6, <1>7, <1>8, <1>9, <1>10, <1>11, <1>12,
     <1>13, <1>14, <1>15, <1>16, <1>17, <1>18, <1>19, <1>20, <1>21, <1>22,
     <1>23, <1>24, <1>25, <1>26, <1>27, <1>28, <1>29, <1>30, <1>31, <1>32,
     <1>33, <1>34, <1>35
  DEF Next, Step, ActivationStep, RollbackStep, RecoveryStep, Dispatch, Environment

(***************************************************************************)
(* The activation workflow, with every failure and crash it handles,       *)
(* implements ConfirmedChange.                                             *)
(***************************************************************************)
THEOREM ActivationRefinesTrial ==
  ASSUME Orderly
  PROVE  Spec => ImplementsTrial
BY TrialInit, TrialStep, SafeInit, SafeStep, PTL DEF Spec, ImplementsTrial, Trial!ASpec
=============================================================================
