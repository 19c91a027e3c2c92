-------------------------- MODULE SignalStopBridge --------------------------
(***************************************************************************)
(* PosixSignalStopBridge: the main thread blocks SIGINT and SIGTERM and    *)
(* starts a worker that consumes them with sigwait and turns the first one *)
(* into a stop request.  Signals are pending for the process until the     *)
(* worker takes them; a pending signal kills the process the moment the    *)
(* main thread unblocks it.  The wakeup of stop() is directed at the       *)
(* worker alone.                                                           *)
(***************************************************************************)
EXTENDS StopToken

CONSTANT Signals  \* SIGINT and SIGTERM

VARIABLES
  blocked,        \* the main thread blocks the termination signals
  pending,        \* signals pending for the process
  wakeup,         \* the worker-directed SIGTERM of stop() is pending
  worker,         \* "none", "waiting", "woken", "auditing" or "exited"
  taken,          \* what sigwait returned: signals, "wakeup", or "none"
  workerStop,     \* the worker's own stop token
  received,       \* received_signal_
  waitError,      \* wait_error_
  eventAudited    \* signal_event_audited_

bridgeVars ==
  <<blocked, pending, wakeup, worker, taken, workerStop, stopRequested, received,
    waitError, eventAudited>>

-----------------------------------------------------------------------------
(* wait_for_signals, the worker thread                                     *)

\* sigwait returns one of the pending signals, or the wakeup.
SigWait ==
  /\ worker = "waiting"
  /\ \/ \E s \in pending : taken' = s /\ pending' = pending \ {s} /\ UNCHANGED wakeup
     \/ wakeup /\ taken' = "wakeup" /\ wakeup' = FALSE /\ UNCHANGED pending
  /\ worker' = "woken"
  /\ UNCHANGED <<blocked, workerStop, stopRequested, received, waitError, eventAudited>>

\* sigwait fails: ask the service to stop all the same, append GH-SIG-2004.
SigWaitFails ==
  /\ worker = "waiting"
  /\ worker' = "exited" /\ waitError' = TRUE /\ stopRequested' = TRUE
  /\ eventAudited' \in BOOLEAN
  /\ UNCHANGED <<blocked, pending, wakeup, taken, workerStop, received>>

\* Only the first signal requests a stop; any signal after stop() ends the worker.
Forward ==
  /\ worker = "woken"
  /\ taken' = "none"
  /\ \/ workerStop /\ worker' = "exited" /\ UNCHANGED <<stopRequested, received>>
     \/ /\ ~ workerStop /\ received = "none"
        /\ received' = taken /\ stopRequested' = TRUE /\ worker' = "auditing"
     \/ /\ ~ workerStop /\ received # "none"
        /\ worker' = "waiting" /\ UNCHANGED <<stopRequested, received>>
  /\ UNCHANGED <<blocked, pending, wakeup, workerStop, waitError, eventAudited>>

\* GH-SIG-0002, after the stop request.
AuditSignal ==
  /\ worker = "auditing"
  /\ eventAudited' \in BOOLEAN
  /\ worker' = "waiting"
  /\ UNCHANGED <<blocked, pending, wakeup, taken, workerStop, stopRequested, received,
                 waitError>>

WorkerProgress == SigWait \/ Forward \/ AuditSignal
WorkerStep == WorkerProgress \/ SigWaitFails

-----------------------------------------------------------------------------
(* start() and stop(), called by the main thread                           *)

\* Plausible bug: the worker is started without blocking the signals first.
BlockNothing == UNCHANGED bridgeVars

BlockSignals ==
  /\ blocked' = TRUE
  /\ UNCHANGED <<pending, wakeup, worker, taken, workerStop, stopRequested, received,
                 waitError, eventAudited>>

StartWorker ==
  /\ worker' = "waiting"
  /\ UNCHANGED <<blocked, pending, wakeup, taken, workerStop, stopRequested, received,
                 waitError, eventAudited>>

\* request_stop: the worker ends with whatever sigwait returns next.
RequestWorkerStop ==
  /\ workerStop' = TRUE
  /\ UNCHANGED <<blocked, pending, wakeup, worker, taken, stopRequested, received,
                 waitError, eventAudited>>

\* Plausible bug: stop() joins without waking the worker.
WakeNobody == UNCHANGED bridgeVars

\* pthread_kill, which finds an exited worker or not.
WakeWorker ==
  /\ wakeup' = (worker # "exited")
  /\ UNCHANGED <<blocked, pending, worker, taken, workerStop, stopRequested, received,
                 waitError, eventAudited>>

UnblockSignals ==
  /\ blocked' = FALSE
  /\ UNCHANGED <<pending, wakeup, worker, taken, workerStop, stopRequested, received,
                 waitError, eventAudited>>

\* A signal is sent to the process while it is blocked.
Send(s) ==
  /\ blocked /\ pending' = pending \cup {s}
  /\ UNCHANGED <<blocked, wakeup, worker, taken, workerStop, stopRequested, received,
                 waitError, eventAudited>>

BridgeInit ==
  /\ blocked = FALSE /\ pending = {} /\ wakeup = FALSE /\ worker = "none"
  /\ taken = "none" /\ workerStop = FALSE /\ stopRequested = FALSE
  /\ received = "none" /\ waitError = FALSE /\ eventAudited = TRUE

BridgeTypes ==
  /\ {blocked, wakeup, workerStop, stopRequested, waitError, eventAudited} \subseteq BOOLEAN
  /\ pending \subseteq Signals /\ worker \in {"none", "waiting", "woken", "auditing", "exited"}
  /\ taken \in Signals \cup {"wakeup", "none"} /\ received \in Signals \cup {"none"}
=============================================================================
