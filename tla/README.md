# A TLA+ verification of SASD Gatehold

Gatehold is the privileged half of an OpenBSD firewall manager: it prepares PF
rule sets as immutable revisions, activates one of them as a *confirmed change*
(load, verify, ask for confirmation, commit or roll back), and serves a local
Unix socket from a small root daemon.  This directory models that code, checks
it with TLC on small instances and proves the main results with TLAPS for every
value of the constants.  Paths below are relative to the repository root.

## 1. The system

| Part | State it keeps | Operations | What is hard |
|---|---|---|---|
| `PfActivationService` (`src/core/firewall/activation_service.cpp`) | the call's local variables; PF, the marker and the record outlive it | `activate`, `rollback_to_previous`, `recover_pending` | dozens of exits, each with its own clean-up; crashes between any two steps |
| `PrivilegedPfController` (`controller/privileged_pf_controller.cpp`) | `state_` | `start`, `activate` | which of eighteen statuses may leave it ready |
| `ActivationTransactionStore` | the file `pending-activation` | `begin`, `load`, `advance`, `clear` | a call that took effect and still failed (directory sync) |
| `RevisionStore` | revision files, last-known-good marker | `store`, `load`, `mark_last_known_good`, `last_known_good` | crash while writing; sync ambiguity |
| `PfctlLoader`, `PosixProcessRunner` | a child process, its pipes | `load`, `run` | children that time out, are killed or outlive the parent; pipes held open by descendants |
| `PfctlInfoProbe`, `TcpConnectProbe` (`firewall/health_probes.cpp`) | a socket | `probe` | non-blocking connect, deadline rounding, errors found after "writable" |
| `OperationJournal` | an append-only file | `append` | several processes, capacity, torn lines, power loss; callers must not go on as if nothing happened |
| `AdmissionRateLimiter` | instants of recent admissions | `try_admit`, `reset` | window boundary, rounding, clock regressions |
| `LocalControllerListener` | socket descriptor, ownership of the path, `serving_` | `start`, `serve_one`, `stop` | `serve_one` uses the descriptor without the mutex; others touch the path |
| `ControllerProtocolSession` (`controller/local_protocol.cpp`) | none between sessions | `serve` | partial frames, one deadline per frame, a response lost after the work was done |
| `ControllerService` | counters of one run | `run` | order of recovery, audit, stop requests and errors |
| `PosixSignalStopBridge` | signal mask, worker thread | `start`, `stop`, worker loop | signals that race the shutdown |
| `DaemonProcessLock` | a locked inode | `acquire`, release | the lock file's name and the locked inode may part |
| Daemon configuration, file-system preflight, sandbox policy | none | parse, check, build and validate the policy | what is checked now and relied on later; spellings of paths |
| Daemon `main` | exit code | start-up gates, composition | what an exit code of 0 promises; several daemons started beside each other |
| `PfPreparationService`, `CandidateStore`, `PfctlValidator` | candidate files | `prepare`, `stage`, `validate` | two preparers, crash while storing |
| Firewall model, renderer | none | `validate`, `render` | combinations of families, protocols and ports |
| JSON formatter, CLI | none | pure functions | text |

How they interact: `main` composes everything; the main thread runs the service,
which calls the controller's `start` (recovery) and then the listener's
`serve_one` in a loop; a session calls the controller's `activate`, which runs
the activation service under the controller's mutex; that service runs pfctl and
the probes through the process runner.  The signal worker shares only a stop
token with the main thread.  All parts append to the journal and most of them
change their behaviour when that fails.  Daemons meet each other at the lock
file, the journal file and the socket path.  Preparation is called by an API
process and meets the daemon only through the revision files.

## 2. Modules

| Module | Models | Remarks |
|---|---|---|
| `Gatehold` | shared vocabulary | revisions, operations, phases, fault set |
| `ControllerState` | the controller's states and statuses, and which status degrades it | shared by `PfActivation` and `LocalProtocol` |
| `ActivationTransactionStore`, `LastKnownGood`, `PfctlLoader` | one store call or one pfctl run | each operator gives the **set of outcomes** (status and resulting content) of the call |
| `ConfirmedChange` | the abstract specification | a trial of one candidate against the last known good revision |
| `PfActivation` | controller and activation service | one action per call that changes a store, PF or the control flow, together with the appends around it |
| `ProcessRunner` | `run()`: both drains, reap, deadline, poll, end | against a child, its descendants, two pipes and a clock |
| `HealthProbes` | the TCP probe, and how loader, validator and info probe read a `ProcessResult` | EXTENDS `ProcessRunner`; `RunIsALoad` shows that `PfctlLoader`, which `PfActivation` uses, is what a run does |
| `ControllerRequest`, `LocalProtocol` | request parser; one session after the other | frames byte by byte; the controller lives on between sessions |
| `AdmissionRateLimiter` | the limiter | explicit instants; three ticks make a millisecond |
| `LocalListener` | the listener, its callers, the socket path | a step of `start`/`stop` holds the mutex from its first to its last action |
| `DaemonConfig`, `FilesystemPreflight`, `ProcessSandbox` | argument, path, directory and policy checks | operators without state, applied by `Daemon`'s first steps |
| `StopToken`, `ControllerService`, `SignalStopBridge` | the service loop and the signal worker | share `stopRequested` |
| `Daemon` | `main` and `run_read_only_daemon`, one process | composes the two rows above with the main thread's own steps |
| `ProcessLock` | `acquire` by several processes | tells inodes from the entry that names one |
| `OperationJournal` | `append` by several processes | a file is a sequence of units, some of them durable |
| `DaemonProcesses` | several daemons on one machine | EXTENDS `ProcessLock` and `OperationJournal`; adds the stages of each daemon and the socket path |
| `FirewallModel` | `validate()` and `render()` | operators used by `Preparation` |
| `Preparation` | `prepare`, `stage`, `validate`, `store` | several preparers, files that hold a prefix |
| `MC*` | | instances for TLC |
| `*_proofs` | | theorems, see section 5; those about `ProcessLock` and `OperationJournal` are in `DaemonProcesses_proofs` |

Correspondence.  `pc` (in `Daemon`: `main` and `svc`; in `DaemonProcesses`:
`life`, `pc` and `step`; in `HealthProbes`: `pc` and `probe`) names the next step
of the call in progress; each action's comment and the entry of `PROJECT.json`'s
`map` give the lines.  A helper that returns a status (`Return`, `FinishStart`,
`Unlock`, `Finish`) includes what the caller does with it at once: `Return` of
`PfActivation` is the return of `activate()` *and* the degradation in
`PrivilegedPfController::activate`, which happens under the same mutex.

Data are abstracted to what the code tells apart.  Rendered text, event wording
and timestamps are left out; a text is its size and whether its characters are
allowed; a path is a sequence of components, the empty one of a trailing slash
included; a directory is the record of what `fstat` and `canonical` say of it; a
request is the number of its lines and what the parser asks of each of them; of
the rendered rule sets `pfctl -nf` accepts some.

History variables (`journal`, `lost`, `accepted`, `granted`, `recent`,
`abandoned`, `stuck`, `orphans`, `intruded`, `published`, `svcLost`, `closing`, `spent`, `trail`,
`performed`, `produced`, `unread`, `late`, `overtaken`, `appended`) only record
what happened; no guard reads them.

A property that a run checks may be a conjunction of named parts, each with a
comment of its own (`RunIsOrderly`, `GatesAdmitOnlyUsable`,
`ServingIsExclusive`, `DecisionIsExact`, `RevisionsAreAccounted`,
`SessionTellsTruth`, `VerdictsAreEarned`, `JournalIsSound`).  The definitions
commented "Plausible bug" are mutated forms of the definition that follows;
each shows that some property can fail.

## 3. Runs

States are distinct states found by TLC.

| Run | Config | Shows |
|---|---|---|
| `activation` | `PfActivation.cfg`, 43 k | 3 revisions, 2 operations, 2 probes; all call failures, lost events, crashes, and failed directory syncs of begin, advance, mark and clear: `TypeOK`, `Settled`, `RecordExplainsState`, `ReadyIsSettled`, `ResultTellsTruth`, `AuditLossDegrades`, `PromotionIsEarned`, and the refinement `ImplementsTrial` |
| `recovery` | `Recovery.cfg`, 41 k | children may outlive their run, refusing controllers are restarted: `MarkerIsCommitted`, `CallsReturn`, `PendingIsResolved` |
| `rate_limiter` | `AdmissionRateLimiter.cfg`, 37 k | `SlidingWindow`, and equality with the reference definition, retry time included (`DecisionIsExact`) |
| `listener` | `LocalListener.cfg`, 293 k | three threads, others at the socket path at any time: `ServingIsExclusive`, `SocketsAreAccounted`, `ReplacementIsPreserved`, `CallsReturn` |
| `protocol` | `LocalProtocol.cfg`, 767 k | a client that drips, stalls and closes at any byte, or closes its sending side only: `DispatchIsEarned`, `SessionTellsTruth`, `DeadlineIsExact`, `SessionEnds` |
| `probes` | `HealthProbes.cfg`, 1.06 M | the runner's loop and the TCP probe: `RunIsALoad`, `VerdictsAreEarned`, `CaptureIsHonest`, `DeadlineIsExact`, `CallsReturn` |
| `daemon` | `Daemon.cfg`, 535 k | from the arguments to the exit code: `GatesAdmitOnlyUsable`, `RunIsOrderly`, `NotKilledInService`, `ExitZeroIsClean`, `StopEndsProcess` |
| `daemon_processes` | `DaemonProcesses.cfg`, 1.19 M | two daemons that start, serve, stop and die, power loss, the lock file removed or replaced: `MutualExclusion`, `AppendedIsDurable`, `JournalIsSound`, `ServiceIsAudited`, `OccupiedPathIsExplained`, and the refinement `ImplementsLock` |
| `preparation` | `Preparation.cfg`, 292 k | `CandidatesAreFit`, `PreparedIsStored`, `RevisionsAreAccounted` |
| `commit_sync_failure` | violation | section 4, 1 |
| `orphaned_load` | violation | section 4, 2 |
| `sandboxed_recovery` | violation | section 4, 3 |

The runs spend their time on what relates pieces of state.  The type invariants
of the other modules (`TypeOK`, `SystemTypes`) hold on the same instances; they
are stated for the reader and the proofs and can be added to any cfg.

**Bounds.**  Three revisions let a first activation commit and a second one roll
back to its result while a third is untouched; two operation ids let a stale
record meet a new request; two probes tell "one passed" from "all passed".  The
`recovery` run needs liveness and uses two revisions and one operation:
recovery looks at one record only.  `MaxInstant` = 14 ticks is more than
two windows (6 ticks each) with three admissions per window, so that entries
expire while others stay.  `MaxBinds` = 2 lets a listener be bound,
leave its socket behind and be bound again.  `MaxErrors` = 2 is the smallest limit at which a
result in between matters.  One revision number is enough in `Preparation` for
every collision; two operation ids allow both colliding and separate candidates.

In `protocol` the header is 2 bytes (4 in the code), a payload at most 2 and a
response 1: header and payload can both arrive in parts, and sizes 0, the limit
and one more are announced.  The numbers in requests are the code's own, each at
both sides of its limits.  Two ticks make a millisecond, so that a deadline can
fall inside one; the time limit is two milliseconds.  In `probes` the capture
limit is 1, a read takes 2 and a pipe holds 2 units, so that one read can end
below, at and above the limit; the time limit of 3 ticks is not a multiple of
the millisecond (2 ticks) and longer than a slice of poll (1).  In
`daemon_processes` an entry has 2 units (one can be lost), the journal takes 4
entries, which are also the appends that fit the run (2 for a daemon's start, 2
for others), and two inodes allow one replacement.  The two processes are
symmetric.  `MCDaemon` lists the command lines and directories: each differs
from a good one in one place, at the boundary of one check; `MCPreparation` does
the same for rule sets.

**Initial states.**  `PfActivation` starts with no controller, nothing pending,
any marker (or none) and PF running what the marker names.  PF and the marker
agree because deployment loads the marked revision; a host whose PF differs from
its marker before the first start is outside the model.

**Fairness.**  `PfActivation!FairSpec`: the controller's thread keeps running,
and somebody starts a controller that is down.  The probes and the confirmation
gate have time limits; that a run of pfctl returns is an assumption, since `run()`
has two cases without a deadline (section 4, *Bounded runtime*).  `CallsReturn`
of `PfActivation` is about the workflow's control flow, not about a hang inside
one run.  `RetriedSpec` adds that a controller that refuses requests is
restarted, and strong fairness of the successful outcome of each recovery call
(a disk or pfctl that always fails proves nothing about the code).
`LocalListener!FairSpec`: a thread past its wait for the mutex keeps running and
its deadline passes; a waiting thread gets no promise.  `LocalProtocol!FairSpec`:
the session's thread and the clock go on; the client owes nothing, and calls may
be interrupted for ever.  `HealthProbes!FairSpec`: the calling thread and the
clocks go on; child, descendants and network owe nothing.  `Daemon!FairSpec`:
both threads keep running and `sigwait` returns when a signal is pending; that it
fails is possible and never assumed.  No run assumes that signals, requests or
crashes happen.

**Deadlock** is checked everywhere but in the daemon, whose process ends.

## 4. Disagreements found

With a run:

1. *Commit sync failure* (`activation_transaction_store.cpp:251`).  If the
   directory sync of the `committed` record fails after the rename, `activate`
   rolls back under a committed record.  A crash between the rollback's load and
   its mark makes the next recovery report `committed_cleaned` with the other
   revision in PF; a crash after the mark leaves a record that every later
   recovery refuses.  `pending-activation.md` promises that the target is
   preserved.  All other directory syncs are harmless (run `activation`).
2. *Orphaned pfctl* (`posix_process_runner.cpp:120`, `:198`).  A pfctl child of a
   dead controller, or of a run whose `poll` failed, can load its revision after
   the next controller is ready, against ADR-0009.
3. *Read-only revision root* (`process_sandbox.cpp:148`).  The daemon's unveil
   policy forbids the marker update that recovery always makes, against
   ADR-0019.  The instance lets the activation happen in the same sandbox; in the
   read-only daemon the record would come from an earlier controller.

Where a promise fails in one known case, the property states the exact
condition under which it holds:

- *Second signal* (`posix_signal_stop_bridge.cpp:260`, ADR-0015:34).  A signal
  that arrives after the worker's last `sigwait` kills the process when the mask
  is restored; `NotKilledInService`: only once the listener is closed.
- *Partial revision* (`revision_store.cpp:214`, `revision-store.md:5`).  A
  revision is written under its final name; a death or a failed clean-up leaves
  a prefix that `load` returns.  `PartialIsAccounted`: nobody else leaves one and
  its number is never reported.  The workflow revalidates before it loads into
  PF, so that it takes a prefix that is itself valid to do harm.
- *Bounded runtime* (ADR-0005:36).  `run()` has no deadline while a descendant
  holds a pipe open after the child has finished, nor inside a drain that a
  writer keeps busy; `RunReturns` names these two cases and no other.
- *Complete lines* (ADR-0006:28).  After an append that failed or died half-way
  the next entry is glued to its fragment; `OnlyFailuresTear`: nothing else mixes
  lines.  An append that reported failure may still be in the file.
- *Occupied socket path* (ADR-0017:44, :51).  Preflight refuses it before
  recovery, unless another daemon served and died between the preflight and
  the lock (`OccupiedPathIsExplained`): then recovery runs and the listener fails.
- *Replaced socket* (`local-controller-listener.md:79`).  The listener identifies
  its socket by name after `bind` and unlinks it by name after `fstatat`.
  `ReplacementIsPreserved`: an entry of others is removed only if they touched
  the path in one of these two windows.
- *Forgotten socket* (`local_listener.cpp:373`, `:573`, `:649`,
  `local-controller-listener.md:92`).  `cleanup_socket_path` forgets a path it
  could not remove, or did not recognise because the `fstatat` after `bind` had
  failed, and `start` does not look at its result.  The next `stop()` answers
  `stopped` with `GH-LSN-0003` ("Listener stopped and owned path removed") while
  the dead socket makes every later `start()` refuse.  `SocketsAreAccounted`: a
  dead socket is at the path only after one of three system calls failed on it
  or the process died.  The service calls `stop()` once and only after a
  successful `start()`, so that the daemon does not meet the second answer.

Smaller gaps, modelled without a property of their own:

- `local-controller-protocol.md` reads `result=rejected` as "valid but
  prevented"; the code uses it for malformed and timed-out frames too.
- A failed `read` of a pipe closes the stream silently (`unread`), and with
  SIGCHLD ignored the child's status is lost; neither makes a verdict
  (`VerdictsAreEarned`).
- `validate()` accepts protocol icmp with family any and an IPv6 endpoint, and a
  description that ends in a backslash; how pf.conf joins lines is external.
- The configuration parser accepts `/a/` beside `/a/b`; only the preflight's
  comparison with `canonical()` refuses it (`RootsAreApart`).

## 5. Proofs

Every invariant and every action property of the runs, and both refinements,
are theorems: for all values of the constants that satisfy the named `ASSUME`s.

| Module | Theorem | States | Assumes |
|---|---|---|---|
| `PfActivation_proofs` | `TypeCorrect` | `Spec => []TypeOK` | – |
| | `AuditLossIsNoticed` | `Spec => []AuditLossDegrades` | – |
| | `PromotionMustBeEarned` | `Spec => PromotionIsEarned` | – |
| | `MarkerSurvivesOrphans` | `Spec => []MarkerIsCommitted` | `CommitIsClean` |
| | `NothingPendingMeansSettled` | `Spec => []Settled` | `Orderly` |
| | `NothingUnexplained` | `Spec => []RecordExplainsState` | `Orderly` |
| | `ReadyMeansSettled` | `Spec => []ReadyIsSettled` | `Orderly` |
| | `StatusIsTruthful` | `Spec => []ResultTellsTruth` | `Orderly` |
| | `ActivationRefinesTrial` | `Spec => ImplementsTrial` | `Orderly` |
| `DaemonProcesses_proofs` | `OneDaemonRuns` | `Spec => []MutualExclusion` (`ProcessLock`) | – |
| | `ReportedEventsStay` | `JournalSpec => []AppendedIsDurable` | – |
| | `JournalStaysSound` | `JournalSpec => []JournalIsSound` | – |
| | `DaemonsImplementLock` | `SystemSpec => ImplementsLock` | – |
| | `OneDaemonServes` | `SystemSpec => []MutualExclusion` | – |
| | `SharedJournalKeepsEvents` | `SystemSpec => []AppendedIsDurable` | – |
| | `SharedJournalIsSound` | `SystemSpec => []JournalIsSound` | – |
| | `DaemonsAreAudited` | `SystemSpec => []ServiceIsAudited` | – |
| | `RecoveryMeetsNoLiveSocket` | `SystemSpec => []OccupiedPathIsExplained` | – |
| `LocalListener_proofs` | `DescriptorOutlivesUse` | `Spec => []ServingIsExclusive` | – |
| | `DeadSocketsAreExplained` | `Spec => []SocketsAreAccounted` | – |
| | `ForeignEntryIsKept` | `Spec => ReplacementIsPreserved` | – |
| `AdmissionRateLimiter_proofs` | `WindowIsNeverOverfull` | `Spec => []SlidingWindow` | – |
| | `DecisionsAreExact` | `Spec => []DecisionIsExact` | – |
| `LocalProtocol_proofs` | `OnlyEarnedDispatch` | `Spec => []DispatchIsEarned` | – |
| | `SessionIsTruthful` | `Spec => []SessionTellsTruth` | – |
| | `OneDeadlinePerFrame` | `Spec => DeadlineIsExact` | – |
| `HealthProbes_proofs` | `RunnerIsTyped` | `Spec => []TypeOK` | – |
| | `VerdictsComeFromTheSource` | `Spec => []VerdictsAreEarned` | – |
| | `RunsAreLoads` | `Spec => []RunIsALoad` | – |
| | `CapturesAreHonest` | `Spec => []CaptureIsHonest` | – |
| | `DeadlinesAreKept` | `Spec => DeadlineIsExact` | `SliceCoversRounding` |
| `Daemon_proofs` | `ServiceRunsInOrder` | `Spec => []RunIsOrderly` | – |
| | `SignalsWaitForService` | `Spec => []NotKilledInService` | – |
| | `ZeroMeansClean` | `Spec => []ExitZeroIsClean` | – |
| | `GatesAreSufficient` | `Spec => []GatesAdmitOnlyUsable` | – |
| `Preparation_proofs` | `PreparedMeansStored` | `Spec => []PreparedIsStored` | – |
| | `RevisionsStay` | `Spec => []RevisionsAreAccounted` | – |
| | `CandidatesStayFit` | `Spec => []CandidatesAreFit` | – |

The `ASSUME`s of the modules say that "nobody", "no revision" and the like are
not values of their own kind, that constants have their types, that one entry
fits into an empty journal, that a command line is a command with the list of
values of each option (`ArgumentAssumption`) and that the rules of a rule set are a sequence with
address families of the code's enumeration (`RuleSetAssumption`).  The
hypotheses in the last column are these:

- `CommitIsClean`: the directory sync of the commit record does not fail after
  its rename.  `Orderly` adds that no pfctl child outlives its run.  These are
  the faults of findings 1 and 2, under which the statements are false.
- `SliceCoversRounding`: a slice of `poll` is at least a tick less than a
  millisecond.  The code's is 10 ms.

The invariants of the runs are not inductive as they stand.  What the proofs
add:

*Types.*  A record is well typed only if the revisions resolved before `begin`
are, and the probe counter stays in range only if a probe runs while some are
left.  `TInv` adds both (`StepTypes`).

*Audit.*  `AuditInv` adds which controller state each step implies
(`ControlInv`) and where a loss is remembered (`TrailInv`): before a rollback or
commit nothing is lost; afterwards a loss is in `compromised`, or the status
already decided degrades the controller.

*Record.*  `RecordInv` adds that the record belongs to the running call
(`OwnershipInv`: a ready controller and a request before `begin` have none) and
what the step reached implies about the journal and the probes (`EarnedInv`).

*Marker.*  `MarkerInv` adds the phase of the record (`PhaseInv`) and where the
marker is at each step.  A pfctl child cannot touch the disk, so this much
holds with children that outlive their controller.

*Consistency.*  `SafeInv` adds where PF is.  With it each step of the workflow
maps to a step of `ConfirmedChange` or to a stutter: `begin` opens the trial,
pfctl runs (crashed ones too) apply one of its two revisions, marker updates
follow what runs, the commit advance decides it and `clear` closes it.

*Lock.*  `LockInv`: two processes never lock one inode, a process past `flock`
has its lock, and a running one locked the inode the entry names, which the
second look at the entry in `acquire` secures.

*Journal.*  `JournalInv`: from `flock` to `close` a writer has the file to
itself; append numbers are unique and no unit is in the file twice; a
half-written entry is the end of the file, with room for the rest of it
(`Growing`), which is why looking for room once is enough; an entry whose append
got past `write` or `fsync` is in the file, or in its durable part, in one
piece (`Placed`), and stays there when others write behind it and when a power
loss cuts the file.

*Daemons.*  Each step of a daemon is at most one step of the lock and at most
one of the journal (`StepParts`), so the system implements both specifications
and their theorems carry over.  `Stages` adds that the events announced so far
lie in the durable part in order, and before anything of the append going on;
`Overtaken` that who passed the preflight knows of every socket bound since.

*Listener.*  A thread in `start` or `stop` has the mutex, one in `serve_one` the
flag.  `stop` tests the flag and closes later, when another thread may have
claimed it; what saves the descriptor is that such a thread still waits for the
mutex to copy it (`Using`: while a copy is in use nobody has the mutex).
`Accounting`: once `start` has recorded the identity it is that of the socket at
the path until the clean-up compares it, so that the comparison cannot miss it;
`OursOnly`: without an intrusion the identity is never that of a foreign entry.

*Limiter.*  `LimiterInv`: admissions are granted in the order of their instants,
the limiter remembers the last of them, and what it has forgotten is at least a
window old.  So what `try_admit` counts is, at every instant not before the last
one, the number of *all* past admissions less than a window old (`Room`): the
decision is exact, the admission `maximum_admissions` back has left the window,
and `retry_after` is when the oldest one does, rounded up.  That `find_if` stops
at a first active entry is the well-ordering of the natural numbers
(`LeastNumber`).

*Protocol.*  `EarnedInv` says what the journal holds and that nothing was
activated at each step before the dispatch, `AnswerInv` what the response says
while it is written.  `ClockInv`: until the deadline the ticks spent and left add
up to it, and a poll ends not before it and less than a millisecond after it.

*Process runner and probes.*  `RunInv`: a child counts as finished only when its
status is collected, or nothing is left to collect because SIGCHLD was ignored;
a result without an error decodes that status.  `CaptureInv`: as long as nothing
was cut off, what was written of a stream is what was captured and what its pipe
holds; `ClockInv` bounds what a sleep can overlap the deadline by.

*Daemon.*  `consecutive_errors` is the length of the run of failures at the end
of the remembered results (`CountsErrors`); signals are blocked from before the
service starts until after the listener is closed; `GateInv` carries what the
parser and the preflight have checked to the step that uses it, and
`GatesAreSufficient` shows from it that no later check can refuse a directory
and that no two roots overlap.

*Preparation.*  `Own`: a preparer's candidate stays what it wrote, what it stores
is what pfctl accepted, and the file it writes is its own under a number never
reported; `Exclusive`: `O_EXCL` keeps staging and storing apart.  A candidate is
a rendering, whole or a prefix, of a rule set without an issue; that such a
rendering is fit follows rule by rule.  `FlattenGives`, for sequences of every
length, is proved by least counterexample: first that a function satisfying
`FlattenSeq`'s recursive equation exists, then what its values are.

Only model-checked: all liveness (`CallsReturn`, `PendingIsResolved`,
`SessionEnds`, `StopEndsProcess`; fairness and `ENABLED` are beyond the prover),
and the violations of section 4.

## 6. Not modelled

- Text: JSON events, the characters of rendered rules, option strings, the
  layout of records and responses.
- The read-only activation policy (three constant answers, each a result that
  `PfActivation` allows), the command-line tool and the version.
- A second signal bridge or service in one process, wrong-thread `stop`, and
  destructors other than the listener's.
- What unveil and pledge forbid: the kernel's part.  The policy is modelled, and
  its effect on the marker is a constant of `PfActivation`.
- Power loss, except for the journal file: elsewhere a file's content after a
  crash is what the last completed system call left, and unsynced writes are not
  reordered by the disk.
- Progress of a thread that waits for a mutex: POSIX promises none.  In the
  daemon one thread uses the listener.

## 7. Plan

The parts that keep state or decide are modelled, and what the runs check of
their safety is proved.  What would add most from here:

1. The refusals of the signal bridge (a second bridge, a second `start`, the
   wrong thread) and its destructor as actions.
2. Power loss for the stores other than the journal, with writes that the disk
   reorders between syncs.
3. Type correctness of the remaining modules as theorems; the proofs carry it as
   part of their invariants.
