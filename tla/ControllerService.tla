------------------------- MODULE ControllerService -------------------------
(***************************************************************************)
(* ControllerService::run: recover first, then admit connections one at a  *)
(* time until a stop is requested or the listener keeps failing.  The stop *)
(* token belongs to another thread and is only looked at between two       *)
(* admissions.                                                             *)
(***************************************************************************)
EXTENDS Integers, Sequences, StopToken

CONSTANT MaxErrors  \* maximum_consecutive_listener_errors
ASSUME ErrorAssumption == MaxErrors \in Nat \ {0}

VARIABLES
  svc,            \* next step of run()
  controller,     \* PrivilegedPfController::state_
  listening,      \* the listener is open
  configOk,       \* configuration_valid
  startupAudited, \* startup_audited
  errors,         \* consecutive_errors
  limitAudited,   \* rate_limit_audited
  out,            \* output.status
  svcLost,        \* history: an event of this run was lost
  recent          \* history: the last MaxErrors results of serve_one()

svcVars == <<svc, controller, listening, configOk, startupAudited, errors,
             limitAudited, out, svcLost, recent>>

ServiceSteps ==
  {"idle", "recover", "check", "listen", "announce", "loop", "serve", "stop",
   "final", "returned"}
ServiceStatuses ==
  {"stopped", "invalid_configuration", "audit_failed", "listener_start_failed",
   "listener_failed", "shutdown_failed"}
\* Results of serve_one(): a session of either outcome, a time-out, the rate
\* limiter's refusal, and everything the switch treats as its default.
Admissions == {"session_completed", "accept_timed_out", "rate_limited", "error"}

Finish(status) == svc' = "returned" /\ out' = status
Noted(ok) == svcLost' = (svcLost \/ ~ ok)

-----------------------------------------------------------------------------
\* The running claim, GH-SVC-0001, and GH-SVC-1001 for an invalid configuration.
BeginRun ==
  /\ svc = "idle"
  /\ svc' = "recover" /\ out' = "stopped"
  /\ configOk' \in BOOLEAN /\ startupAudited' \in BOOLEAN
  /\ errors' = 0 /\ limitAudited' = FALSE /\ recent' = <<>>
  /\ svcLost' \in {~ startupAudited', ~ startupAudited' \/ ~ configOk'}
  /\ UNCHANGED <<controller, listening>>

\* Plausible bug: an invalid configuration is refused before recovery.
RecoverOnlyIfValid ==
  /\ svc = "recover"
  /\ IF ~ configOk THEN Finish("invalid_configuration") /\ UNCHANGED controller
     ELSE /\ controller' \in {"ready", "read_only", "blocked"}
          /\ svc' = "check" /\ UNCHANGED out
  /\ UNCHANGED <<listening, configOk, startupAudited, errors, limitAudited, svcLost, recent>>

\* controller_.start() runs even if the service will not.
Recover ==
  /\ svc = "recover"
  /\ controller' \in {"ready", "read_only", "blocked"}
  /\ \/ ~ configOk /\ Finish("invalid_configuration")
     \/ configOk /\ ~ startupAudited /\ Finish("audit_failed")
     \/ configOk /\ startupAudited /\ svc' = "check" /\ UNCHANGED out
  /\ UNCHANGED <<listening, configOk, startupAudited, errors, limitAudited, svcLost, recent>>

\* A stop requested during recovery ends the run before the listener opens.
CheckStop ==
  /\ svc = "check"
  /\ \/ /\ stopRequested
        /\ \E ok \in BOOLEAN :
             Noted(ok) /\ Finish(IF ok THEN "stopped" ELSE "audit_failed")
     \/ ~ stopRequested /\ svc' = "listen" /\ UNCHANGED <<out, svcLost>>
  /\ UNCHANGED <<controller, listening, configOk, startupAudited, errors, limitAudited, recent>>

OpenListener ==
  /\ svc = "listen"
  /\ \/ listening' = TRUE /\ svc' = "announce" /\ UNCHANGED <<out, svcLost>>
     \/ /\ \E ok \in BOOLEAN : Noted(ok)
        /\ Finish("listener_start_failed") /\ UNCHANGED listening
  /\ UNCHANGED <<controller, configOk, startupAudited, errors, limitAudited, recent>>

\* GH-SVC-0002; without it the listener is closed again, cleanly or not.
Announce ==
  /\ svc = "announce"
  /\ \/ svc' = "loop" /\ UNCHANGED <<listening, out, svcLost>>
     \/ /\ Noted(FALSE) /\ listening' = FALSE
        /\ Finish("shutdown_failed") \/ Finish("audit_failed")
  /\ UNCHANGED <<controller, configOk, startupAudited, errors, limitAudited, recent>>

\* The head of the loop.
TestStop ==
  /\ svc = "loop"
  /\ svc' = IF stopRequested THEN "stop" ELSE "serve"
  /\ UNCHANGED <<controller, listening, configOk, startupAudited, errors, limitAudited,
                 out, svcLost, recent>>

Remember(a) ==
  recent' = LET r == Append(recent, a)
            IN  IF Len(r) > MaxErrors THEN Tail(r) ELSE r

\* consecutive_errors after this result.
Count(a) == IF a = "error" THEN errors + 1 ELSE 0

AtLimit(n) == n >= MaxErrors

\* Only the first denial of a run is recorded (GH-SVC-1003).
LimitEvent(a) ==
  IF a = "rate_limited" /\ ~ limitAudited
  THEN /\ limitAudited' = TRUE
       /\ \E ok \in BOOLEAN :
            Noted(ok) /\ out' = IF ok THEN out ELSE "audit_failed"
  ELSE UNCHANGED <<limitAudited, out, svcLost>>

\* serve_one() returns a; then the error limit and a failed audit end the loop.
Serve(a) ==
  /\ svc = "serve"
  /\ errors' = Count(a) /\ Remember(a)
  /\ IF AtLimit(errors')
     THEN /\ out' = "listener_failed" /\ svc' = "stop"
          /\ \E ok \in BOOLEAN : Noted(ok)
          /\ UNCHANGED limitAudited
     ELSE /\ LimitEvent(a)
          /\ svc' = IF out' = "audit_failed" THEN "stop" ELSE "loop"
  /\ UNCHANGED <<controller, listening, configOk, startupAudited>>

\* Meanwhile sessions may degrade the controller, never restore it.
Degrade ==
  /\ svc = "serve"
  /\ controller = "ready" /\ controller' \in {"read_only", "blocked"}
  /\ UNCHANGED <<svc, listening, configOk, startupAudited, errors, limitAudited, out,
                 svcLost, recent>>

CloseListener ==
  /\ svc = "stop"
  /\ listening' = FALSE
  /\ \/ Finish("shutdown_failed")
     \/ svc' = "final" /\ UNCHANGED out
  /\ UNCHANGED <<controller, configOk, startupAudited, errors, limitAudited, svcLost, recent>>

Final ==
  /\ svc = "final"
  /\ \E ok \in BOOLEAN : Noted(ok) /\ Finish(IF ok THEN out ELSE "audit_failed")
  /\ UNCHANGED <<controller, listening, configOk, startupAudited, errors, limitAudited, recent>>

-----------------------------------------------------------------------------
ServiceInit ==
  /\ svc = "idle" /\ controller = "created" /\ listening = FALSE
  /\ configOk = TRUE /\ startupAudited = FALSE /\ errors = 0
  /\ limitAudited = FALSE /\ out = "stopped" /\ svcLost = FALSE /\ recent = <<>>

\* Every step of run() after the claim.
ServiceStep ==
  \/ Recover \/ CheckStop \/ OpenListener \/ Announce \/ TestStop
  \/ (\E a \in Admissions : Serve(a)) \/ CloseListener \/ Final

-----------------------------------------------------------------------------
ServiceTypes ==
  /\ svc \in ServiceSteps
  /\ controller \in {"created", "ready", "read_only", "blocked"}
  /\ {listening, stopRequested, configOk, startupAudited, limitAudited, svcLost}
       \subseteq BOOLEAN
  /\ errors \in 0 .. MaxErrors /\ out \in ServiceStatuses
  /\ recent \in Seq(Admissions)

(***************************************************************************)
(* Recovery comes before everything else run() does for clients and is     *)
(* never skipped: the listener is open only after controller_.start()      *)
(* returned, and run() does not return, whatever else failed, without it.  *)
(***************************************************************************)
RecoveryComesFirst ==
  listening \/ svc = "returned" => controller # "created"

(***************************************************************************)
(* A run that returns has closed the listener, and one that reports        *)
(* "stopped" was asked to stop and lost none of its own audit events, on   *)
(* whichever of the paths through run() it left.                           *)
(***************************************************************************)
ReturnIsClean ==
  svc = "returned" =>
    ~ listening /\ (out = "stopped" => stopRequested /\ ~ svcLost)

AllFailed ==
  Len(recent) = MaxErrors /\ \A i \in 1 .. MaxErrors : recent[i] = "error"

(***************************************************************************)
(* The loop gives up exactly when the last MaxErrors admissions all        *)
(* failed; a session, a time-out or a denial in between starts the count   *)
(* again.                                                                  *)
(***************************************************************************)
GivesUpExactlyAtLimit ==
  /\ out = "listener_failed" => AllFailed
  /\ svc \in {"loop", "serve"} => ~ AllFailed

(***************************************************************************)
(* On every path through run(), whatever fails on it, recovery has come    *)
(* first, the loop ends neither early nor late, and the end is clean.      *)
(***************************************************************************)
RunIsOrderly == RecoveryComesFirst /\ ReturnIsClean /\ GivesUpExactlyAtLimit
=============================================================================
