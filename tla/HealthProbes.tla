---------------------------- MODULE HealthProbes ----------------------------
(***************************************************************************)
(* The callers of the process runner - PfctlLoader, PfctlValidator and     *)
(* PfctlInfoProbe - and the TcpConnectProbe that the activation service    *)
(* runs after a PF probe that found the control plane healthy.             *)
(***************************************************************************)
EXTENDS ProcessRunner

CONSTANTS
  Endpoints   \* management endpoints that may be configured

\* What inet_pton and the address tests tell apart.
AddressKinds ==
  {"name", "ipv4", "ipv4_unspecified", "ipv4_broadcast", "ipv4_multicast", "ipv6",
   "ipv6_unspecified", "ipv6_multicast", "ipv6_link_local", "ipv6_v4_mapped"}
ASSUME EndpointAssumption == Endpoints \subseteq [kind : AddressKinds, port : Nat]

NoEndpoint == [kind |-> "none", port |-> 0]

VARIABLES
  probe,     \* step of the TCP probe, "idle" outside of it
  socket,    \* "none", "connecting", "connected", "refused", "expired", "reset"
  endpoint,  \* the endpoint of the probe, or NoEndpoint
  health,    \* HealthProbeStatus of the TCP probe, or "none"
  accepted   \* history: the endpoint accepted this probe's connection

tcp == <<probe, socket, endpoint, health, accepted>>
vars == <<runnerVars, tcp>>

-----------------------------------------------------------------------------
(* How the callers read a ProcessResult.                                   *)
Unexecuted(r) == ~ r.launched \/ r.exit_code \in {126, 127} \/ r.error

\* Plausible bug: a message of the runner is not looked at.
LoadStatusWithoutError(r) ==
  IF ~ r.launched \/ r.exit_code \in {126, 127} THEN "execution_error"
  ELSE IF r.timed_out THEN "timed_out"
  ELSE IF r.exit_code # 0 THEN "rejected" ELSE "loaded"

\* PfctlLoader::load.
LoadStatus(r) ==
  IF Unexecuted(r) THEN "execution_error"
  ELSE IF r.timed_out THEN "timed_out"
  ELSE IF r.exit_code # 0 THEN "rejected" ELSE "loaded"

\* PfctlValidator::validate.
ValidationStatus(r) ==
  IF Unexecuted(r) THEN "execution_error"
  ELSE IF r.timed_out THEN "timed_out"
  ELSE IF r.exit_code # 0 THEN "rejected" ELSE "valid"

\* Plausible bug: the exit code is tested before the time-out.
ProbeStatusExitFirst(r) ==
  IF Unexecuted(r) THEN "execution_error"
  ELSE IF r.exit_code # 0 THEN "unhealthy"
  ELSE IF r.timed_out THEN "timed_out"
  ELSE IF r.truncated THEN "execution_error" ELSE "healthy"

\* PfctlInfoProbe::run.
ProbeStatus(r) ==
  IF Unexecuted(r) THEN "execution_error"
  ELSE IF r.timed_out THEN "timed_out"
  ELSE IF r.truncated THEN "execution_error"
  ELSE IF r.exit_code # 0 THEN "unhealthy" ELSE "healthy"

-----------------------------------------------------------------------------
(* TcpConnectProbe::run.                                                   *)
parse_numeric_endpoint(e) == e.port # 0 /\ e.kind \in {"ipv4", "ipv6"}

connection_error(s) == IF s = "expired" THEN "timed_out" ELSE "unhealthy"

\* Plausible bug: duration_cast alone, which truncates.
remainingTruncated == (left \div TicksPerMs) * TicksPerMs

remaining == ((left + TicksPerMs - 1) \div TicksPerMs) * TicksPerMs

Report(s) == probe' = "idle" /\ health' = s

\* The next probe of the service; an unsafe endpoint or a failed socket ends it.
ProbeTcp(e) ==
  /\ pc = "idle" /\ probe = "idle" /\ ProbeStatus(result) = "healthy"
  /\ endpoint' = e /\ accepted' = FALSE /\ late' = 0
  /\ \/ Report("execution_error") /\ socket' = "none"
     \/ /\ parse_numeric_endpoint(e)
        /\ probe' = "connect" /\ socket' = "connecting" /\ health' = "none"
  /\ UNCHANGED <<run, process, produced, unread>>

\* connect: at once, refused, or in progress (EINPROGRESS, EINTR).
Connect ==
  /\ probe = "connect"
  /\ \/ /\ socket' = "connected" /\ accepted' = TRUE
        /\ Report("healthy") /\ UNCHANGED left
     \/ /\ \E s \in {"refused", "expired"} : socket' = s /\ Report(connection_error(s))
        /\ UNCHANGED <<left, accepted>>
     \/ /\ probe' = "wait" /\ left' = Timeout
        /\ UNCHANGED <<socket, health, accepted>>
  /\ UNCHANGED <<pc, fd, finished, status, result, captured, pollLeft, process,
                 history, endpoint>>

WaitConnected ==
  /\ probe = "wait"
  /\ \/ left = 0 /\ Report("timed_out") /\ UNCHANGED pollLeft
     \/ /\ left > 0 /\ probe' = "poll" /\ pollLeft' = remaining
        /\ UNCHANGED health
  /\ UNCHANGED <<pc, fd, finished, status, result, captured, left, process, history,
                 socket, endpoint, accepted>>

\* Plausible bug: an interrupted wait starts anew.
PollConnectedAnew ==
  /\ probe = "poll"
  /\ \/ /\ socket # "connecting" /\ probe' = "inspect" /\ UNCHANGED <<health, left, late>>
     \/ /\ socket = "connecting" /\ pollLeft = 0
        /\ Report("timed_out") /\ UNCHANGED <<left, late>>
     \/ probe' = "wait" /\ left' = Timeout /\ late' = 0 /\ UNCHANGED health
  /\ pollLeft' = 0
  /\ UNCHANGED <<pc, fd, finished, status, result, captured, process, produced, unread,
                 socket, endpoint, accepted>>

\* poll: writable or in error, out of time, interrupted, or failed (POLLNVAL too).
PollConnected ==
  /\ probe = "poll"
  /\ \/ socket # "connecting" /\ probe' = "inspect" /\ UNCHANGED health
     \/ socket = "connecting" /\ pollLeft = 0 /\ Report("timed_out")
     \/ probe' = "wait" /\ UNCHANGED health
     \/ Report("execution_error")
  /\ pollLeft' = 0
  /\ UNCHANGED <<pc, fd, finished, status, result, captured, left, process, history,
                 socket, endpoint, accepted>>

\* getsockopt(SO_ERROR).
Inspect ==
  /\ probe = "inspect"
  /\ \/ Report("execution_error")
     \/ socket = "connected" /\ Report("healthy")
     \/ socket # "connected" /\ Report(connection_error(socket))
  /\ UNCHANGED <<runnerVars, socket, endpoint, accepted>>

\* The endpoint and the network, while the probe lasts.
Network ==
  /\ probe \in {"wait", "poll", "inspect"}
  /\ \/ /\ socket = "connecting" /\ socket' = "connected" /\ accepted' = TRUE
     \/ /\ socket = "connecting" /\ socket' \in {"refused", "expired"}
        /\ UNCHANGED accepted
     \/ /\ socket = "connected" /\ socket' = "reset" /\ UNCHANGED accepted
  /\ UNCHANGED <<runnerVars, probe, endpoint, health>>

\* Time passes, in a poll until it returns, elsewhere until the deadline.
TickTcp ==
  /\ probe \in {"wait", "poll", "inspect"}
  /\ IF probe = "poll" THEN pollLeft > 0 ELSE left > 0
  /\ left' = Max({left - 1, 0}) /\ pollLeft' = Max({pollLeft - 1, 0})
  /\ late' = IF left = 0 THEN Min({late + 1, LateBound}) ELSE late
  /\ UNCHANGED <<pc, fd, finished, status, result, captured, process, produced,
                 unread, tcp>>

-----------------------------------------------------------------------------
Init ==
  /\ RunnerInit
  /\ probe = "idle" /\ socket = "none" /\ endpoint = NoEndpoint /\ health = "none"
  /\ accepted = FALSE

\* The process runner is called, by whichever of its callers.
RunPfctl ==
  /\ probe = "idle" /\ Run
  /\ health' = "none" /\ socket' = "none" /\ endpoint' = NoEndpoint
  /\ accepted' = FALSE /\ UNCHANGED probe

TcpStep == Connect \/ WaitConnected \/ PollConnected \/ Inspect

Next ==
  \/ RunPfctl
  \/ UNCHANGED tcp /\ (RunnerStep \/ PollInterrupted \/ PollFailed \/ ChildStep \/ Tick)
  \/ \E e \in Endpoints : ProbeTcp(e)
  \/ TcpStep \/ Network \/ TickTcp

\* The calling thread and the clock do not stop; nobody else owes progress.
Fairness ==
  /\ WF_vars(RunnerStep /\ UNCHANGED tcp) /\ WF_vars(Tick /\ UNCHANGED tcp)
  /\ WF_vars(TcpStep) /\ WF_vars(TickTcp)

Spec == Init /\ [][Next]_vars
FairSpec == Spec /\ Fairness

-----------------------------------------------------------------------------
ResultTypes ==
  [launched : BOOLEAN, timed_out : BOOLEAN, error : BOOLEAN, truncated : BOOLEAN,
   exit_code : {-1, Killed} \cup ExitCodes]

\* Every variable has its type, and the capture never exceeds its limit.
TypeOK ==
  /\ pc \in {"idle", "reap", "deadline", "wait", "poll", "end"} \cup DOMAIN Drains
  /\ fd \subseteq Streams /\ finished \in BOOLEAN /\ result \in ResultTypes
  /\ status \in {Killed} \cup ExitCodes
  /\ captured \in [Streams -> 0 .. MaximumCaptured]
  /\ left \in 0 .. Timeout /\ pollLeft \in 0 .. Max({PollSlice, Timeout + TicksPerMs})
  /\ child \in {"none", "running", "zombie", "reaped", "gone"}
  /\ death \in {Alive, Killed} \cup ExitCodes
  /\ writers \subseteq {"child", "descendant"}
  /\ pipe \in [Streams -> 0 .. PipeSize] /\ loaded \in BOOLEAN /\ ignored \in BOOLEAN
  /\ produced \in [Streams -> 0 .. ProducedBound] /\ unread \subseteq Streams
  /\ late \in 0 .. LateBound
  /\ probe \in {"idle", "connect", "wait", "poll", "inspect"}
  /\ socket \in {"none", "connecting", "connected", "refused", "expired", "reset"}
  /\ endpoint \in Endpoints \cup {NoEndpoint} /\ accepted \in BOOLEAN
  /\ health \in {"none", "healthy", "unhealthy", "timed_out", "execution_error"}

Returned == pc = "idle" /\ result # NoResult

Loader ==
  INSTANCE PfctlLoader WITH
    Revisions <- {"target"}, NoRevision <- "previous", Operations <- {},
    NoTransaction <- "none", DirSyncMayFail <- {}, ChildMayOutlive <- TRUE

(***************************************************************************)
(* What PfActivation takes one pfctl run to be is what the runner does:    *)
(* the status the loader reports, the rules PF holds when it returns and   *)
(* the load a child may still perform are an outcome of LoadRevision -     *)
(* also when the child was killed as it loaded, its status was lost, or    *)
(* poll failed and it was left behind (pfctl_loader.cpp:52).               *)
(***************************************************************************)
RunIsALoad ==
  Returned =>
    Loader!Loading(IF LoadStatus(result) = "loaded" THEN "loaded" ELSE "failed",
                   IF loaded THEN "target" ELSE "previous",
                   IF child = "running" /\ ~ loaded THEN {"target"} ELSE {})
      \in Loader!LoadRevision("previous", "target")

(***************************************************************************)
(* A verdict about pfctl is pfctl's own: "valid", "healthy", "rejected"    *)
(* and "unhealthy" come from an exit code that the child chose and that    *)
(* was collected, never from the zero that child_status starts with nor    *)
(* from the kill at the deadline (posix_process_runner.cpp:161, :210).     *)
(***************************************************************************)
VerdictIsTheChilds ==
  Returned =>
    LET own == child = "reaped" /\ ~ result.timed_out /\ death \in ExitCodes IN
    /\ ValidationStatus(result) = "valid" => own /\ death = 0
    /\ ValidationStatus(result) = "rejected" => own /\ death # 0
    /\ ProbeStatus(result) = "healthy" => own /\ death = 0 /\ ~ result.truncated
    /\ ProbeStatus(result) = "unhealthy" => own /\ death # 0

(***************************************************************************)
(* A run that reports no error leaves neither a running child nor a zombie *)
(* behind (posix_process_runner.cpp:169).                                  *)
(***************************************************************************)
ChildIsCollected ==
  Returned /\ result.launched /\ ~ result.error => child \in {"reaped", "gone"}

(***************************************************************************)
(* The captured output is the beginning of what was written and is marked  *)
(* as truncated exactly when it is not all of it, unless a read failed     *)
(* (posix_process_runner.cpp:32).                                          *)
(***************************************************************************)
CaptureIsHonest ==
  Returned /\ result.launched /\ ~ result.error /\ unread = {} =>
    /\ \A s \in Streams : captured[s] = Min({produced[s], MaximumCaptured})
    /\ result.truncated <=> \E s \in Streams : produced[s] > MaximumCaptured

(***************************************************************************)
(* A TCP probe is healthy only if the endpoint accepted its connection,    *)
(* whichever of connect, poll and SO_ERROR told (health_probes.cpp:261).   *)
(***************************************************************************)
HealthyIsAccepted == health = "healthy" => accepted /\ parse_numeric_endpoint(endpoint)

Held == finished /\ fd # {} /\ writers # {}

(***************************************************************************)
(* A verdict on which the activation goes on is earned: by the child that  *)
(* ran or by the endpoint that answered, with nothing left to collect.     *)
(***************************************************************************)
VerdictsAreEarned == VerdictIsTheChilds /\ ChildIsCollected /\ HealthyIsAccepted

(***************************************************************************)
(* Deadlines are kept on both sides: past the deadline neither run() nor   *)
(* the TCP probe sleeps for more than one slice of poll, even when a       *)
(* descendant keeps a pipe open (posix_process_runner.cpp:180, :195), and  *)
(* nothing is called timed out before it, the kernel's own ETIMEDOUT       *)
(* aside: the rounding of the remaining time never ends a wait early       *)
(* (health_probes.cpp:229).                                                *)
(***************************************************************************)
DeadlineIsExact ==
  [][/\ late' <= IF probe' = "idle" THEN PollSlice ELSE TicksPerMs - 1
     /\ result'.timed_out /\ ~ result.timed_out => left = 0
     /\ health' = "timed_out" /\ health # "timed_out" =>
          left = 0 \/ socket' = "expired"]_vars

(***************************************************************************)
(* run() returns, unless a descendant keeps a pipe open after the child    *)
(* has finished or a writer fills a pipe as fast as it is drained: neither *)
(* is limited by the deadline (posix_process_runner.cpp:60, :163).         *)
(***************************************************************************)
RunReturns ==
  <>[](pc # "idle") => <>[]Held \/ \E p \in DOMAIN Drains : <>[](pc = p)

(***************************************************************************)
(* A TCP probe returns, however often its poll is interrupted              *)
(* (health_probes.cpp:246).                                                *)
(***************************************************************************)
ProbeReturns == probe # "idle" ~> probe = "idle"

(***************************************************************************)
(* Both kinds of call return, but for what the deadline of run() leaves out. *)
(***************************************************************************)
CallsReturn == RunReturns /\ ProbeReturns
=============================================================================
