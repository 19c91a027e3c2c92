------------------------------- MODULE Daemon -------------------------------
(***************************************************************************)
(* main of gateholdd: arguments, identity, preflight, process lock and     *)
(* sandbox, then the signal bridge, the controller service with the        *)
(* bridge's stop token, the bridge's stop and an exit code.  The bridge's  *)
(* worker runs beside the main thread.                                     *)
(***************************************************************************)
EXTENDS ControllerService, SignalStopBridge, ProcessSandbox

CONSTANTS
  Arguments,    \* command lines
  Facts,        \* what a directory may turn out to be
  Ids           \* user and group ids of the process
ASSUME FactAssumption == Facts \subseteq Directories
ASSUME ArgumentAssumption ==
  Arguments \subseteq [command : Commands, roots : [Storage -> Seq(Seq(STRING))],
                       socket : Seq(Seq(STRING)), uid : Seq(Int), gid : Seq(Int)]

VARIABLES
  main,      \* next step of the main thread
  config,    \* the configuration, until start-up has used it
  serving,   \* the command is serve-read-only
  dirs,      \* the configured directories, from preflight to sandbox
  exitCode,  \* 0, 2 .. 5, Killed by a signal, or still Running
  wakeFailed, signalOk, \* results of the bridge's stop()
  lost,      \* history: an event of the daemon or of the bridge was lost
  closing    \* history: GH-DMN-0002 is in the journal

startup == <<config, serving, dirs>>
daemonVars == <<main, startup, exitCode, wakeFailed, signalOk, lost, closing>>
vars == <<svcVars, bridgeVars, daemonVars>>

MainSteps ==
  {"arguments", "identity", "preflight", "lock", "announce", "sandbox", "bridge",
   "spawn", "service", "halt", "wake", "join", "unblock", "report", "finish", "exited"}

usage_exit_code == 2
startup_exit_code == 3
service_exit_code == 4
cleanup_exit_code == 5
Killed == 128   \* the status a shell reports for death by a signal is above this
Running == -1

NoConfig == [path |-> [r \in Roles |-> <<>>], uid |-> -1, gid |-> <<>>]
Unseen == [r \in Roles |-> [plain |-> FALSE, mine |-> FALSE, group |-> 0,
                            may |-> {}, stable |-> FALSE]]
Forget == config' = NoConfig /\ dirs' = Unseen

Exit(code) == main' = "exited" /\ exitCode' = code
Goto(step) == main' = step /\ UNCHANGED exitCode

-----------------------------------------------------------------------------
ParseArguments ==
  /\ main = "arguments"
  /\ \E a \in Arguments :
     \/ a.command \in {"help", "version"} /\ Exit(0) /\ UNCHANGED startup
     \/ /\ a.command \notin {"help", "version"} /\ ~ parse_daemon_arguments(a)
        /\ Exit(usage_exit_code) /\ UNCHANGED startup
     \/ /\ parse_daemon_arguments(a) /\ Goto("identity")
        /\ config' = Configured(a) /\ serving' = (a.command = "serve-read-only")
        /\ UNCHANGED dirs
  /\ UNCHANGED <<svcVars, bridgeVars, wakeFailed, signalOk, lost, closing>>

CheckIdentity ==
  /\ main = "identity"
  /\ \E euid, egid \in Ids :
     \/ /\ validate_daemon_identity(config, euid, egid)
        /\ Goto("preflight") /\ UNCHANGED startup
     \/ /\ ~ validate_daemon_identity(config, euid, egid)
        /\ Exit(usage_exit_code) /\ Forget /\ UNCHANGED serving
  /\ UNCHANGED <<svcVars, bridgeVars, wakeFailed, signalOk, lost, closing>>

\* The two fixed files of the sandbox are not directories.
Real(d) ==
  \A r \in Roles : config.path[r] \in {Pfctl, PfDevice} => ~ d[r].plain

\* check-config ends here; serve-read-only also wants the socket path free, and
\* records a refusal if the journal's directory is good.
Preflight ==
  /\ main = "preflight"
  /\ \E d \in {f \in [Roles -> Facts] : Real(f)} :
     \/ /\ ~ serving /\ Forget /\ UNCHANGED lost
        /\ Exit(IF DirectoriesReady(d, config) THEN 0 ELSE startup_exit_code)
     \/ /\ serving /\ Exit(startup_exit_code) /\ Forget
        /\ lost' \in {lost} \cup (IF journal_root_ready(d, config) THEN {TRUE} ELSE {})
     \/ /\ serving /\ DirectoriesReady(d, config) /\ Goto("lock")
        /\ dirs' = d /\ UNCHANGED <<config, lost>>
  /\ UNCHANGED <<svcVars, bridgeVars, serving, wakeFailed, signalOk, closing>>

\* DaemonProcessLock::acquire; a refusal is recorded, if that works.
AcquireLock ==
  /\ main = "lock"
  /\ \/ Goto("announce") /\ UNCHANGED <<startup, lost>>
     \/ /\ Exit(startup_exit_code) /\ Forget /\ lost' \in {lost, TRUE}
        /\ UNCHANGED serving
  /\ UNCHANGED <<svcVars, bridgeVars, wakeFailed, signalOk, closing>>

\* GH-DMN-0003, the lock's event and GH-DMN-0001.
AnnounceStart ==
  /\ main = "announce"
  /\ \/ Goto("sandbox") /\ UNCHANGED <<startup, lost>>
     \/ Exit(startup_exit_code) /\ Forget /\ lost' = TRUE /\ UNCHANGED serving
  /\ UNCHANGED <<svcVars, bridgeVars, wakeFailed, signalOk, closing>>

\* Applied or unsupported goes on; an invalid policy, a failing call and a lost
\* event end the process.
ApplySandbox ==
  /\ main = "sandbox" /\ Forget
  /\ \/ Exit(startup_exit_code) /\ lost' \in {lost, TRUE}
     \/ /\ valid_policy(make_read_only_daemon_sandbox_policy(config))
        /\ Goto("bridge") /\ UNCHANGED lost
  /\ UNCHANGED <<svcVars, bridgeVars, serving, wakeFailed, signalOk, closing>>

\* GH-SIG-0001 first; the mask changes only if it was appended.
StartBridge ==
  /\ main = "bridge"
  /\ \/ Exit(startup_exit_code) /\ lost' \in {lost, TRUE} /\ UNCHANGED bridgeVars
     \/ Goto("spawn") /\ BlockSignals /\ UNCHANGED lost
  /\ UNCHANGED <<svcVars, startup, wakeFailed, signalOk, closing>>

\* A worker that cannot be started gives the mask back and ends the process.
SpawnWorker ==
  /\ main = "spawn"
  /\ \/ Goto("service") /\ StartWorker /\ UNCHANGED lost
     \/ /\ UnblockSignals \/ UNCHANGED bridgeVars
        /\ IF blocked' \/ pending = {}
           THEN Exit(startup_exit_code) /\ lost' \in {lost, TRUE}
           ELSE Exit(Killed) /\ UNCHANGED lost
  /\ UNCHANGED <<svcVars, startup, wakeFailed, signalOk, closing>>

RunService ==
  /\ main = "service"
  /\ \/ (BeginRun \/ ServiceStep \/ Degrade) /\ UNCHANGED main
     \/ svc = "returned" /\ main' = "halt" /\ UNCHANGED svcVars
  /\ UNCHANGED <<bridgeVars, startup, exitCode, wakeFailed, signalOk, lost, closing>>

\* The bridge's stop(): the worker may end by itself between its two steps.
Halt ==
  /\ main = "halt" /\ RequestWorkerStop /\ Goto("wake")
  /\ UNCHANGED <<svcVars, startup, wakeFailed, signalOk, lost, closing>>

Wake ==
  /\ main = "wake"
  /\ WakeWorker
  /\ wakeFailed' \in (IF worker = "exited" THEN BOOLEAN ELSE {FALSE})
  /\ Goto("join")
  /\ UNCHANGED <<svcVars, startup, signalOk, lost, closing>>

Join ==
  /\ main = "join" /\ worker = "exited"
  /\ Goto("unblock")
  /\ UNCHANGED <<svcVars, bridgeVars, startup, wakeFailed, signalOk, lost, closing>>

\* The earlier mask lets a signal through that nobody waits for any more; if it
\* cannot be restored the signals stay blocked.
Unblock ==
  /\ main = "unblock"
  /\ UnblockSignals \/ UNCHANGED bridgeVars
  /\ IF blocked' \/ pending = {} THEN Goto("report") ELSE Exit(Killed)
  /\ UNCHANGED <<svcVars, startup, wakeFailed, signalOk, lost, closing>>

\* The rest of the bridge's stop(): GH-SIG-2005 or GH-SIG-2006 for a failed wakeup
\* or mask, nothing after a failed sigwait, GH-SIG-0003 otherwise.
Report ==
  /\ main = "report"
  /\ \/ /\ wakeFailed \/ blocked
        /\ signalOk' = FALSE /\ lost' \in {lost, TRUE}
     \/ /\ ~ wakeFailed /\ ~ blocked /\ waitError
        /\ signalOk' = FALSE /\ UNCHANGED lost
     \/ /\ ~ wakeFailed /\ ~ blocked /\ ~ waitError
        /\ \E ok \in BOOLEAN : signalOk' = ok /\ lost' = (lost \/ ~ ok)
  /\ Goto("finish")
  /\ UNCHANGED <<svcVars, bridgeVars, startup, wakeFailed, closing>>

\* Plausible bug: signal_event_audited() does not enter the exit code.
ExitCodeWithoutSignalAudit(ok) ==
  IF out # "stopped" THEN service_exit_code
  ELSE IF ~ signalOk \/ ~ ok THEN cleanup_exit_code ELSE 0

ExitCode(ok) ==
  IF out # "stopped" THEN service_exit_code
  ELSE IF ~ signalOk \/ ~ eventAudited \/ ~ ok THEN cleanup_exit_code ELSE 0

\* GH-DMN-0002 and the exit code.
FinishMain ==
  /\ main = "finish"
  /\ \E ok \in BOOLEAN : closing' = ok /\ lost' = (lost \/ ~ ok) /\ Exit(ExitCode(ok))
  /\ UNCHANGED <<svcVars, bridgeVars, startup, wakeFailed, signalOk>>

-----------------------------------------------------------------------------
\* SIGINT or SIGTERM arrives; unblocked, its default action ends the process.
Deliver(s) ==
  /\ main # "exited"
  /\ \/ Send(s) /\ UNCHANGED <<main, exitCode>>
     \/ ~ blocked /\ Exit(Killed) /\ UNCHANGED bridgeVars
  /\ UNCHANGED <<svcVars, startup, wakeFailed, signalOk, lost, closing>>

Work ==
  main # "exited" /\ WorkerStep /\ UNCHANGED <<svcVars, daemonVars>>
Progress ==
  main # "exited" /\ WorkerProgress /\ UNCHANGED <<svcVars, daemonVars>>

Init ==
  /\ ServiceInit /\ BridgeInit
  /\ main = "arguments" /\ config = NoConfig /\ serving = FALSE /\ dirs = Unseen
  /\ exitCode = Running /\ wakeFailed = FALSE /\ signalOk = FALSE
  /\ lost = FALSE /\ closing = FALSE

MainStep ==
  \/ ParseArguments \/ CheckIdentity \/ Preflight
  \/ AcquireLock \/ AnnounceStart \/ ApplySandbox \/ StartBridge \/ SpawnWorker
  \/ RunService \/ Halt \/ Wake \/ Join \/ Unblock \/ Report \/ FinishMain

Next == MainStep \/ Work \/ \E s \in Signals : Deliver(s)

Spec == Init /\ [][Next]_vars

(***************************************************************************)
(* Both threads keep running: serve_one(), a session and recovery are all  *)
(* bounded in time, and sigwait returns once a signal is pending.  Whether *)
(* a signal is ever sent, or sigwait ever fails, is left open.             *)
(***************************************************************************)
FairSpec == Spec /\ WF_vars(MainStep) /\ WF_vars(Progress)

-----------------------------------------------------------------------------
\* Every variable of the service, the bridge and the main thread has its type.
TypeOK ==
  /\ ServiceTypes /\ BridgeTypes
  /\ main \in MainSteps /\ exitCode \in {Running, 0, 2, 3, 4, 5, Killed}
  /\ \/ config = NoConfig
     \/ \E a \in Arguments : parse_daemon_arguments(a) /\ config = Configured(a)
  /\ dirs = Unseen \/ dirs \in [Roles -> Facts]
  /\ serving \in BOOLEAN
  /\ {wakeFailed, signalOk, lost, closing} \subseteq BOOLEAN

\* The tests the components make of their own directory when they first use it.
UsableRoot(d) == d.plain /\ d.mine /\ d.may \cap {"g+w", "o+w"} = {}
UsableParent(d) == UsableRoot(d) /\ d.may \cap {"o+r", "o+x"} = {}

(***************************************************************************)
(* What passed the preflight is not refused on arrival: each directory     *)
(* meets the test that the journal, the stores, the lock and the listener  *)
(* make of it, and a socket of mode 0660 can be reached by its group and   *)
(* handed to it under the sandbox's promises.                              *)
(***************************************************************************)
PreflightCoversUse ==
  main \in {"lock", "announce", "sandbox"} =>
    /\ \A r \in Storage : UsableRoot(dirs[r])
    /\ UsableParent(dirs["socket"])
    /\ socket_mode(config) = "0660" =>
         /\ dirs["socket"].group = config.gid[1] /\ "g+x" \in dirs["socket"].may
         /\ "chown" \in make_read_only_daemon_sandbox_policy(config).promises

\* The directory a path names, with or without a trailing slash.
Named(path) ==
  IF path # <<>> /\ path[Len(path)] = "" THEN parent_path(path) ELSE path

(***************************************************************************)
(* Before anything is locked, written or unveiled no configured directory  *)
(* is, or lies in, another one, in whatever spelling, and the sandbox will *)
(* not call the policy built from them invalid.                            *)
(***************************************************************************)
RootsAreApart ==
  main \in {"lock", "announce", "sandbox"} =>
    /\ \A r, s \in Roles :
         r # s => ~ paths_overlap(Named(config.path[r]), Named(config.path[s]))
    /\ valid_policy(make_read_only_daemon_sandbox_policy(config))

(***************************************************************************)
(* What the start-up gates let through can be used by every component that *)
(* relies on it and by none in the place of another.                       *)
(***************************************************************************)
GatesAdmitOnlyUsable == PreflightCoversUse /\ RootsAreApart

(***************************************************************************)
(* SIGINT and SIGTERM never kill the process while the service runs: not   *)
(* in the middle of recovery or of an activation, and not while the socket *)
(* is bound, so no pending record or dead socket path is their doing.      *)
(***************************************************************************)
NotKilledInService ==
  exitCode = Killed => svc \in {"idle", "returned"} /\ ~ listening

(***************************************************************************)
(* Exit code 0 means a shutdown without blemish: a signal asked for it,    *)
(* the listener is closed, no event of the daemon, the bridge, the service *)
(* or the received signal was lost, and GH-DMN-0002 is in the journal.     *)
(***************************************************************************)
ExitZeroIsClean ==
  exitCode = 0 /\ serving =>
    /\ received \in Signals /\ eventAudited
    /\ out = "stopped" /\ ~ listening /\ ~ svcLost /\ ~ lost /\ closing

(***************************************************************************)
(* A termination signal sent after the bridge has started, a stop request  *)
(* and any end of the service lead to the end of the process: neither a    *)
(* signal whose event is lost nor the loop nor the join of the worker      *)
(* keeps it running.                                                       *)
(***************************************************************************)
StopEndsProcess ==
  pending # {} \/ stopRequested \/ svc = "returned" ~> main = "exited"
=============================================================================
