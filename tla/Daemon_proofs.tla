---------------------------- MODULE Daemon_proofs ----------------------------
(***************************************************************************)
(* Proofs about the daemon's two threads, for every limit of listener      *)
(* errors, every set of command lines and directories and every moment a   *)
(* signal arrives: the service's run is orderly, no signal kills it, and   *)
(* exit code 0 means what operators read into it.                          *)
(***************************************************************************)
EXTENDS Daemon, SequenceTheorems, TLAPS

-----------------------------------------------------------------------------
(***************************************************************************)
(* consecutive_errors is the length of the run of failures at the end of   *)
(* the remembered admissions.                                              *)
(***************************************************************************)
CountsErrors(n, r) ==
  /\ r \in Seq(Admissions) /\ Len(r) <= MaxErrors /\ n \in 0 .. Len(r)
  /\ \A i \in 1 .. Len(r) : i > Len(r) - n => r[i] = "error"
  /\ n < Len(r) => r[Len(r) - n] # "error"

\* The history of admissions once a has been added to r.
Remembered(r, a) ==
  LET s == Append(r, a) IN IF Len(s) > MaxErrors THEN Tail(s) ELSE s

\* Entry by entry: s is r, of length l, with a at its end, and without its first
\* entry if there was no room for one more.
Shifted(s, r, a, l) ==
  /\ s \in Seq(Admissions)
  /\ l < MaxErrors => /\ Len(s) = l + 1 /\ s[l + 1] = a
                      /\ \A i \in 1 .. l : s[i] = r[i]
  /\ l = MaxErrors => /\ Len(s) = l /\ s[l] = a
                      /\ \A i \in 1 .. l - 1 : s[i] = r[i + 1]

\* Append and Tail do what Shifted says.
LEMMA RememberedEntries ==
  ASSUME NEW r \in Seq(Admissions), NEW a \in Admissions,
         NEW l \in Nat, l = Len(r), l <= MaxErrors
  PROVE  Shifted(Remembered(r, a), r, a, l)
<1> DEFINE s == Append(r, a)
           t == Tail(s)
<1>1. /\ s \in Seq(Admissions) /\ Len(s) = l + 1
      /\ \A i \in 1 .. l : s[i] = r[i]
      /\ s[l + 1] = a
  BY AppendProperties
<1>2. s # <<>>
  BY <1>1, EmptySeq
<1>3. t \in Seq(Admissions) /\ Len(t) = l /\ \A i \in 1 .. l : t[i] = s[i + 1]
  <2>1. /\ t \in Seq(Admissions) /\ Len(t) = Len(s) - 1
        /\ \A i \in 1 .. Len(t) : t[i] = s[i + 1]
    BY <1>1, <1>2, HeadTailProperties
  <2> HIDE DEF s, t
  <2>2. QED
    BY <1>1, <2>1
<1>4. CASE l < MaxErrors
  <2>1. Remembered(r, a) = s
    BY <1>1, <1>4, ErrorAssumption DEF Remembered
  <2> HIDE DEF s
  <2>2. QED
    BY <1>1, <1>4, <2>1 DEF Shifted
<1>5. CASE l = MaxErrors
  <2>1. Remembered(r, a) = t
    BY <1>1, <1>5, ErrorAssumption DEF Remembered
  <2>2. MaxErrors \in Nat \ {0}
    BY ErrorAssumption
  <2> HIDE DEF s, t
  <2>3. \A i \in 1 .. l - 1 : t[i] = r[i + 1]
    <3> SUFFICES ASSUME NEW i \in 1 .. l - 1 PROVE t[i] = r[i + 1]
      OBVIOUS
    <3>1. i \in 1 .. l /\ i + 1 \in 1 .. l
      OBVIOUS
    <3>2. QED
      BY <1>1, <1>3, <3>1
  <2>4. t[l] = a
    BY <1>1, <1>3, <1>5, <2>2
  <2>5. QED
    BY <1>3, <1>5, <2>1, <2>3, <2>4 DEF Shifted
<1>6. QED
  BY <1>4, <1>5, ErrorAssumption

\* One more admission, with the count that the switch in run() gives it.
LEMMA CountGoesOn ==
  ASSUME NEW r, NEW n, CountsErrors(n, r), n < MaxErrors, NEW a \in Admissions
  PROVE  CountsErrors(IF a = "error" THEN n + 1 ELSE 0, Remembered(r, a))
<1>1. PICK l \in Nat : l = Len(r) /\ l <= MaxErrors /\ n \in 0 .. l
  BY LenProperties DEF CountsErrors
<1>2. /\ r \in Seq(Admissions)
      /\ \A i \in 1 .. l : i > l - n => r[i] = "error"
      /\ n < l => r[l - n] # "error"
  BY <1>1 DEF CountsErrors
<1>3. PICK s : s = Remembered(r, a)
  OBVIOUS
<1>4. Shifted(s, r, a, l)
  BY <1>1, <1>2, <1>3, RememberedEntries
<1>5. PICK e \in Nat \ {0} : e = MaxErrors
  BY ErrorAssumption
<1>6. CASE a = "error"
  <2>1. CASE l < e
    <3>1. /\ n + 1 \in 0 .. l + 1
          /\ \A i \in 1 .. l + 1 : i > l - n => s[i] = "error"
          /\ n < l => s[l - n] # "error"
      BY <1>1, <1>2, <1>4, <1>5, <1>6, <2>1 DEF Shifted
    <3>2. CountsErrors(n + 1, s)
      BY <1>1, <1>4, <1>5, <2>1, <3>1 DEF CountsErrors, Shifted
    <3>3. QED
      BY <1>3, <1>6, <3>2
  <2>2. CASE l = e
    <3>1. /\ n + 1 \in 0 .. l
          /\ \A i \in 1 .. l : i > l - (n + 1) => s[i] = "error"
          /\ n + 1 < l => s[l - (n + 1)] # "error"
      BY <1>1, <1>2, <1>4, <1>5, <1>6, <2>2 DEF Shifted
    <3>2. CountsErrors(n + 1, s)
      BY <1>1, <1>4, <1>5, <2>2, <3>1 DEF CountsErrors, Shifted
    <3>3. QED
      BY <1>3, <1>6, <3>2
  <2>3. QED
    BY <1>1, <1>5, <2>1, <2>2
<1>7. CASE a # "error"
  <2>1. CASE l < e
    BY <1>1, <1>3, <1>4, <1>5, <1>7, <2>1 DEF CountsErrors, Shifted
  <2>2. CASE l = e
    BY <1>1, <1>3, <1>4, <1>5, <1>7, <2>2 DEF CountsErrors, Shifted
  <2>3. QED
    BY <1>1, <1>5, <2>1, <2>2
<1>8. QED
  BY <1>6, <1>7

-----------------------------------------------------------------------------
(***************************************************************************)
(* The inductive invariant.  Where run() is says whether recovery has run, *)
(* the listener is open and an event may have been lost; the count of      *)
(* errors mirrors the history of admissions.                               *)
(***************************************************************************)
Admitting == {"check", "listen", "announce", "loop", "serve"}
Leaving == {"stop", "final", "returned"}

ServiceInv ==
  /\ svc \notin {"idle", "recover"} => controller # "created"
  /\ listening => svc \in {"announce", "loop", "serve", "stop"}
  /\ svc = "recover" /\ configOk /\ startupAudited => ~ svcLost
  /\ svc \in {"idle", "recover"} \cup Admitting => out = "stopped"
  /\ svc \in Admitting => ~ svcLost
  /\ svc \in Leaving /\ out = "stopped" => stopRequested /\ ~ svcLost

CountInv ==
  /\ CountsErrors(errors, recent)
  /\ out = "listener_failed" => errors = MaxErrors
  /\ svc \notin Leaving => errors < MaxErrors

(***************************************************************************)
(* The worker never mistakes the wakeup of stop() for a signal, and the    *)
(* stop request is explained by a signal or by a failed sigwait.           *)
(***************************************************************************)
BridgeInv ==
  /\ pending \subseteq Signals
  /\ wakeup => workerStop
  /\ worker = "woken" => taken \in Signals \/ (taken = "wakeup" /\ workerStop)
  /\ stopRequested => received \in Signals \/ waitError
  /\ received # "none" => received \in Signals

(***************************************************************************)
(* Where the main thread is says where the service and the worker are: the *)
(* signals stay blocked for the whole run of the service, and the worker   *)
(* has ended before stop() restores the mask and reports.                  *)
(***************************************************************************)
Starting ==
  {"arguments", "identity", "preflight", "lock", "announce", "sandbox", "bridge",
   "spawn"}
Joined == {"unblock", "report", "finish"}

StageInv ==
  /\ main \in MainSteps
  /\ main \in Starting => svc = "idle" /\ ~ listening
  /\ main \in {"halt", "wake", "join"} \cup Joined => svc = "returned"
  /\ main \in {"spawn", "service"} => blocked
  /\ main = "wake" => workerStop
  /\ main \in Joined => worker = "exited"
  /\ main = "arguments" => ~ serving
  /\ main \notin {"finish", "exited"} => ~ lost
  /\ main = "finish" /\ signalOk => ~ lost /\ ~ waitError
  /\ main # "exited" => exitCode = Running

DaemonInv ==
  /\ ServiceInv /\ CountInv /\ BridgeInv /\ StageInv
  /\ NotKilledInService /\ ExitZeroIsClean

LEMMA DaemonInit == Init => DaemonInv
<1> SUFFICES ASSUME Init PROVE DaemonInv
  OBVIOUS
<1> USE DEF Init, ServiceInit, BridgeInit
<1>1. CountsErrors(0, <<>>)
  BY EmptySeq, ErrorAssumption DEF CountsErrors
<1>2. CountInv
  BY <1>1, ErrorAssumption DEF CountInv, Leaving
<1>3. ServiceInv /\ BridgeInv
  BY DEF ServiceInv, BridgeInv, Admitting, Leaving
<1>4. StageInv
  BY DEF StageInv, MainSteps, Starting, Joined, Running
<1>5. NotKilledInService /\ ExitZeroIsClean
  BY DEF NotKilledInService, ExitZeroIsClean, Running, Killed
<1>6. QED
  BY <1>2, <1>3, <1>4, <1>5 DEF DaemonInv

\* A step of run() keeps what is known of it; the count is only Serve's to change.
LEMMA ServiceKeeps ==
  ASSUME ServiceInv, CountInv, BeginRun \/ ServiceStep \/ Degrade,
         UNCHANGED stopRequested
  PROVE  (ServiceInv /\ CountInv)'
<1> USE DEF ServiceInv, CountInv, Admitting, Leaving, Finish, Noted
<1>1. CASE BeginRun
  <2>1. CountsErrors(0, <<>>)
    BY EmptySeq, ErrorAssumption DEF CountsErrors
  <2>2. CountInv'
    BY <1>1, <2>1, ErrorAssumption DEF BeginRun
  <2>3. svcLost' => ~ startupAudited' \/ ~ configOk'
    BY <1>1 DEF BeginRun
  <2>4. /\ svc = "idle" /\ svc' = "recover" /\ out' = "stopped"
        /\ UNCHANGED <<controller, listening>>
    BY <1>1 DEF BeginRun
  <2>5. ServiceInv'
    BY <2>3, <2>4
  <2>6. QED
    BY <2>2, <2>5
<1>2. CASE Recover
  BY <1>2 DEF Recover
<1>3. CASE CheckStop
  <2>1. /\ svc = "check" /\ svc' \in {"listen", "returned"}
        /\ UNCHANGED <<controller, listening, errors, recent>>
        /\ svc' = "returned" => /\ stopRequested /\ out' \in {"stopped", "audit_failed"}
                                /\ out' = "stopped" => ~ svcLost'
        /\ svc' = "listen" => UNCHANGED <<out, svcLost>>
    BY <1>3 DEF CheckStop
  <2>2. QED
    BY <2>1
<1>4. CASE OpenListener
  BY <1>4 DEF OpenListener
<1>5. CASE Announce
  BY <1>5 DEF Announce
<1>6. CASE TestStop
  BY <1>6 DEF TestStop
<1>7. ASSUME NEW a \in Admissions, Serve(a)
      PROVE  (ServiceInv /\ CountInv)'
  <2>1. CountsErrors(errors', recent')
    <3>1. CountsErrors(Count(a), Remembered(recent, a))
      BY <1>7, CountGoesOn DEF Serve, Count
    <3>2. QED
      BY <1>7, <3>1 DEF Serve, Remember, Remembered
  <2>2. PICK n \in Nat, e \in Nat \ {0} : n = errors' /\ e = MaxErrors /\ n <= e
    BY <2>1, ErrorAssumption, LenProperties DEF CountsErrors
  <2>3. CASE n >= e
    <3>1. /\ svc = "serve" /\ svc' = "stop" /\ out' = "listener_failed" /\ n = e
          /\ UNCHANGED <<controller, listening>>
      BY <1>7, <2>2, <2>3 DEF Serve, AtLimit
    <3>2. QED
      BY <2>1, <2>2, <3>1
  <2>4. CASE ~ (n >= e)
    <3>1. /\ svc = "serve" /\ LimitEvent(a)
          /\ svc' = IF out' = "audit_failed" THEN "stop" ELSE "loop"
          /\ UNCHANGED <<controller, listening>> /\ errors' < MaxErrors
      BY <1>7, <2>2, <2>4 DEF Serve, AtLimit
    <3>2. /\ out' \in {"stopped", "audit_failed"}
          /\ out' = "stopped" => ~ svcLost'
      BY <3>1 DEF LimitEvent
    <3>3. QED
      BY <2>1, <3>1, <3>2
  <2>5. QED
    BY <2>2, <2>3, <2>4
<1>8. CASE CloseListener
  BY <1>8 DEF CloseListener
<1>9. CASE Final
  BY <1>9 DEF Final
<1>10. CASE Degrade
  BY <1>10 DEF Degrade
<1>11. QED
  BY <1>1, <1>2, <1>3, <1>4, <1>5, <1>6, <1>7, <1>8, <1>9, <1>10 DEF ServiceStep

\* Steps that leave run() where it is keep what is known of it; a stop request
\* is never withdrawn.
LEMMA ServiceStays ==
  ASSUME ServiceInv, CountInv, UNCHANGED svcVars, stopRequested => stopRequested'
  PROVE  (ServiceInv /\ CountInv)'
BY DEF ServiceInv, CountInv, svcVars

\* A step of the worker keeps the bridge's invariant and requests are not lost.
LEMMA WorkerKeeps ==
  ASSUME BridgeInv, WorkerStep
  PROVE  /\ BridgeInv'
         /\ stopRequested => stopRequested'
         /\ worker # "exited" /\ UNCHANGED <<blocked, workerStop>>
<1> USE DEF BridgeInv
<1>1. CASE SigWait
  BY <1>1 DEF SigWait
<1>2. CASE SigWaitFails
  BY <1>2 DEF SigWaitFails
<1>3. CASE Forward
  BY <1>3 DEF Forward
<1>4. CASE AuditSignal
  BY <1>4 DEF AuditSignal
<1>5. QED
  BY <1>1, <1>2, <1>3, <1>4 DEF WorkerStep, WorkerProgress

\* Up to the sandbox a step of the main thread leaves the service and the bridge
\* alone; it goes on, or refuses with a code that only check-config makes 0.
LEMMA StartupKeeps ==
  ASSUME DaemonInv, main \in Starting, UNCHANGED <<svcVars, bridgeVars>>,
         \/ /\ main' \in Starting \ {"arguments", "spawn"}
            /\ UNCHANGED <<exitCode, lost>>
         \/ /\ main' = "exited" /\ exitCode' \in {0, 2, 3}
            /\ exitCode' = 0 => ~ serving'
  PROVE  DaemonInv'
<1>1. (ServiceInv /\ CountInv /\ BridgeInv)'
  BY ServiceStays DEF DaemonInv, bridgeVars, BridgeInv
<1>2. StageInv'
  BY DEF DaemonInv, StageInv, MainSteps, Starting, Joined, svcVars, bridgeVars
<1>3. exitCode' \in {Running, 0, 2, 3}
  BY DEF DaemonInv, StageInv, Starting
<1>4. (NotKilledInService /\ ExitZeroIsClean)'
  BY <1>3 DEF NotKilledInService, ExitZeroIsClean, DaemonInv, StageInv, Starting,
     Running, Killed
<1>5. QED
  BY <1>1, <1>2, <1>4 DEF DaemonInv

\* While the main thread has not exited, the last two conjuncts are void.
LEMMA NotYetExited ==
  ASSUME (ServiceInv /\ CountInv /\ BridgeInv)', StageInv', main' # "exited"
  PROVE  DaemonInv'
BY DEF DaemonInv, StageInv, NotKilledInService, ExitZeroIsClean, Running, Killed

LEMMA DaemonStep == DaemonInv /\ [Next]_vars => DaemonInv'
<1> SUFFICES ASSUME DaemonInv, [Next]_vars PROVE DaemonInv'
  OBVIOUS
<1> USE DEF Starting, Exit, Goto, startup
<1>1. CASE ParseArguments
  <2>1. main = "arguments" /\ UNCHANGED <<svcVars, bridgeVars, lost>>
    BY <1>1 DEF ParseArguments
  <2>2. \/ main' = "exited" /\ exitCode' \in {0, 2} /\ UNCHANGED serving
        \/ main' = "identity" /\ UNCHANGED exitCode
    BY <1>1 DEF ParseArguments, usage_exit_code
  <2>3. QED
    BY <2>1, <2>2, StartupKeeps DEF DaemonInv, StageInv
<1>2. CASE CheckIdentity
  <2>1. /\ main = "identity" /\ UNCHANGED <<svcVars, bridgeVars, lost>>
        /\ \/ main' = "exited" /\ exitCode' = 2
           \/ main' = "preflight" /\ UNCHANGED exitCode
    BY <1>2 DEF CheckIdentity, usage_exit_code
  <2>2. QED
    BY <2>1, StartupKeeps
<1>3. CASE Preflight
  <2>1. /\ main = "preflight" /\ UNCHANGED <<svcVars, bridgeVars, serving>>
        /\ \/ main' = "exited" /\ exitCode' \in {0, 3} /\ ~ serving
           \/ main' = "exited" /\ exitCode' = 3
           \/ main' = "lock" /\ UNCHANGED <<exitCode, lost>>
    BY <1>3 DEF Preflight, startup_exit_code
  <2>2. QED
    BY <2>1, StartupKeeps
<1>4. CASE AcquireLock
  <2>1. /\ main = "lock" /\ UNCHANGED <<svcVars, bridgeVars>>
        /\ \/ main' = "exited" /\ exitCode' = 3
           \/ main' = "announce" /\ UNCHANGED <<exitCode, lost>>
    BY <1>4 DEF AcquireLock, startup_exit_code
  <2>2. QED
    BY <2>1, StartupKeeps
<1>5. CASE AnnounceStart
  <2>1. /\ main = "announce" /\ UNCHANGED <<svcVars, bridgeVars>>
        /\ \/ main' = "exited" /\ exitCode' = 3
           \/ main' = "sandbox" /\ UNCHANGED <<exitCode, lost>>
    BY <1>5 DEF AnnounceStart, startup_exit_code
  <2>2. QED
    BY <2>1, StartupKeeps
<1>6. CASE ApplySandbox
  <2>1. /\ main = "sandbox" /\ UNCHANGED <<svcVars, bridgeVars>>
        /\ \/ main' = "exited" /\ exitCode' = 3
           \/ main' = "bridge" /\ UNCHANGED <<exitCode, lost>>
    BY <1>6 DEF ApplySandbox, startup_exit_code
  <2>2. QED
    BY <2>1, StartupKeeps
<1>7. CASE StartBridge
  <2>1. CASE main' = "exited"
    <3>1. main = "bridge" /\ exitCode' = 3 /\ UNCHANGED <<svcVars, bridgeVars>>
      BY <1>7, <2>1 DEF StartBridge, startup_exit_code
    <3>2. QED
      BY <2>1, <3>1, StartupKeeps
  <2>2. CASE main' # "exited"
    <3>1. /\ main = "bridge" /\ main' = "spawn" /\ BlockSignals
          /\ UNCHANGED <<svcVars, exitCode, lost>>
      BY <1>7, <2>2 DEF StartBridge
    <3>2. (ServiceInv /\ CountInv /\ BridgeInv)'
      BY <3>1, ServiceStays DEF DaemonInv, BlockSignals, BridgeInv
    <3>3. StageInv'
      BY <3>1 DEF BlockSignals, DaemonInv, StageInv, MainSteps, Joined, svcVars
    <3>4. QED
      BY <3>1, <3>2, <3>3, NotYetExited
  <2>3. QED
    BY <2>1, <2>2
<1>8. CASE SpawnWorker
  <2>1. /\ main = "spawn" /\ UNCHANGED svcVars
        /\ StartWorker \/ UnblockSignals \/ UNCHANGED bridgeVars
        /\ \/ main' = "service" /\ UNCHANGED <<exitCode, lost>> /\ StartWorker
           \/ main' = "exited" /\ exitCode' \in {3, Killed}
    BY <1>8 DEF SpawnWorker, startup_exit_code
  <2>2. (ServiceInv /\ CountInv /\ BridgeInv)'
    BY <2>1, ServiceStays DEF DaemonInv, BridgeInv, StartWorker, UnblockSignals,
       bridgeVars
  <2>3. StageInv'
    <3>1. CASE main' = "service"
      BY <2>1, <3>1 DEF StartWorker, DaemonInv, StageInv, MainSteps, Joined
    <3>2. CASE main' = "exited"
      BY <3>2 DEF StageInv, MainSteps, Joined
    <3>3. QED
      BY <2>1, <3>1, <3>2
  <2>4. CASE main' = "service"
    BY <2>2, <2>3, <2>4, NotYetExited
  <2>5. CASE main' = "exited"
    BY <2>1, <2>2, <2>3, <2>5 DEF DaemonInv, StageInv, NotKilledInService,
       ExitZeroIsClean, Killed, svcVars
  <2>6. QED
    BY <2>1, <2>4, <2>5
<1>9. CASE RunService
  <2>1. /\ main = "service" /\ UNCHANGED <<bridgeVars, exitCode, lost>>
        /\ \/ (BeginRun \/ ServiceStep \/ Degrade) /\ main' = main
           \/ svc = "returned" /\ main' = "halt" /\ UNCHANGED svcVars
    BY <1>9 DEF RunService
  <2>2. (ServiceInv /\ CountInv /\ BridgeInv)'
    BY <2>1, ServiceKeeps, ServiceStays DEF DaemonInv, BridgeInv, bridgeVars
  <2>3. StageInv'
    BY <2>1 DEF DaemonInv, StageInv, MainSteps, Joined, svcVars, bridgeVars
  <2>4. QED
    BY <2>1, <2>2, <2>3, NotYetExited
<1>10. CASE Halt \/ Wake
  <2>1. /\ \/ main = "halt" /\ main' = "wake" /\ RequestWorkerStop
           \/ main = "wake" /\ main' = "join" /\ WakeWorker
        /\ UNCHANGED <<svcVars, exitCode, lost>>
    BY <1>10 DEF Halt, Wake
  <2>2. (ServiceInv /\ CountInv /\ BridgeInv)'
    BY <2>1, ServiceStays DEF DaemonInv, StageInv, RequestWorkerStop, WakeWorker, BridgeInv
  <2>3. StageInv'
    BY <2>1 DEF DaemonInv, StageInv, MainSteps, Joined, svcVars, RequestWorkerStop
  <2>4. QED
    BY <2>1, <2>2, <2>3, NotYetExited
<1>11. CASE Join
  <2>1. /\ main = "join" /\ main' = "unblock" /\ worker = "exited"
        /\ UNCHANGED <<svcVars, bridgeVars, exitCode, lost>>
    BY <1>11 DEF Join
  <2>2. (ServiceInv /\ CountInv /\ BridgeInv)'
    BY <2>1, ServiceStays DEF DaemonInv, bridgeVars, BridgeInv
  <2>3. StageInv'
    BY <2>1 DEF DaemonInv, StageInv, MainSteps, Joined, svcVars, bridgeVars
  <2>4. QED
    BY <2>1, <2>2, <2>3, NotYetExited
<1>12. CASE Unblock
  <2>1. /\ main = "unblock"
        /\ UnblockSignals \/ UNCHANGED bridgeVars
        /\ UNCHANGED <<svcVars, lost>>
        /\ \/ main' = "report" /\ UNCHANGED exitCode
           \/ main' = "exited" /\ exitCode' = Killed
    BY <1>12 DEF Unblock
  <2>2. (ServiceInv /\ CountInv /\ BridgeInv)'
    BY <2>1, ServiceStays DEF DaemonInv, UnblockSignals, bridgeVars, BridgeInv
  <2>3. worker' = worker
    BY <2>1 DEF UnblockSignals, bridgeVars
  <2>4. StageInv'
    BY <2>1, <2>3 DEF DaemonInv, StageInv, MainSteps, Joined, svcVars
  <2>5. CASE main' = "report"
    BY <2>2, <2>4, <2>5, NotYetExited
  <2>6. CASE main' = "exited"
    BY <2>1, <2>2, <2>4, <2>6 DEF DaemonInv, StageInv, Joined, ServiceInv,
       NotKilledInService, ExitZeroIsClean, Killed, svcVars
  <2>7. QED
    BY <2>1, <2>5, <2>6
<1>13. CASE Report
  <2>1. /\ main = "report" /\ main' = "finish"
        /\ UNCHANGED <<svcVars, bridgeVars, exitCode>>
    BY <1>13 DEF Report
  <2>2. signalOk' /\ ~ lost => ~ lost' /\ ~ waitError
    BY <1>13 DEF Report
  <2>3. (ServiceInv /\ CountInv /\ BridgeInv)'
    BY <2>1, ServiceStays DEF DaemonInv, bridgeVars, BridgeInv
  <2>4. StageInv'
    BY <2>1, <2>2 DEF DaemonInv, StageInv, MainSteps, Joined, svcVars, bridgeVars
  <2>5. QED
    BY <2>1, <2>3, <2>4, NotYetExited
<1>14. CASE FinishMain
  <2>1. /\ main = "finish" /\ main' = "exited"
        /\ UNCHANGED <<svcVars, bridgeVars, signalOk>>
    BY <1>14 DEF FinishMain
  <2>2. /\ exitCode' \in {0, 4, 5}
        /\ exitCode' = 0 => /\ out = "stopped" /\ signalOk /\ eventAudited
                            /\ closing' /\ (lost' => lost)
    <3>1. PICK ok \in BOOLEAN :
            closing' = ok /\ lost' = (lost \/ ~ ok) /\ exitCode' = ExitCode(ok)
      BY <1>14 DEF FinishMain
    <3>2. ExitCode(ok) \in {0, 4, 5}
      BY DEF ExitCode, service_exit_code, cleanup_exit_code
    <3>3. ExitCode(ok) = 0 => out = "stopped" /\ signalOk /\ eventAudited /\ ok
      BY DEF ExitCode, service_exit_code, cleanup_exit_code
    <3>4. QED
      BY <3>1, <3>2, <3>3
  <2>3. (ServiceInv /\ CountInv /\ BridgeInv)'
    BY <2>1, ServiceStays DEF DaemonInv, bridgeVars, BridgeInv
  <2>4. StageInv'
    BY <2>1 DEF StageInv, MainSteps, Joined
  <2>5. svc = "returned" /\ (signalOk => ~ lost /\ ~ waitError)
    BY <2>1 DEF DaemonInv, StageInv, Joined
  <2>6. NotKilledInService'
    BY <2>2 DEF NotKilledInService, Killed
  <2>7. ExitZeroIsClean'
    BY <2>1, <2>2, <2>5 DEF ExitZeroIsClean, DaemonInv, ServiceInv, BridgeInv, Leaving,
       svcVars, bridgeVars
  <2>8. QED
    BY <2>3, <2>4, <2>6, <2>7 DEF DaemonInv
<1>15. CASE Work
  <2>1. main # "exited" /\ WorkerStep /\ UNCHANGED <<svcVars, daemonVars>>
    BY <1>15 DEF Work
  <2>2. /\ BridgeInv'
        /\ stopRequested => stopRequested'
        /\ worker # "exited" /\ UNCHANGED <<blocked, workerStop>>
    BY <2>1, WorkerKeeps DEF DaemonInv
  <2>3. (ServiceInv /\ CountInv)'
    BY <2>1, <2>2, ServiceStays DEF DaemonInv
  <2>4. StageInv'
    BY <2>1, <2>2 DEF DaemonInv, StageInv, MainSteps, Joined, svcVars, daemonVars
  <2>5. QED
    BY <2>1, <2>2, <2>3, <2>4, NotYetExited DEF daemonVars
<1>16. ASSUME NEW s \in Signals, Deliver(s)
       PROVE  DaemonInv'
  <2>1. /\ main # "exited" /\ UNCHANGED <<svcVars, startup, signalOk, lost>>
        /\ \/ Send(s) /\ UNCHANGED <<main, exitCode>>
           \/ /\ ~ blocked /\ main' = "exited" /\ exitCode' = Killed
              /\ UNCHANGED bridgeVars
    BY <1>16 DEF Deliver
  <2>2. (ServiceInv /\ CountInv /\ BridgeInv)'
    BY <2>1, ServiceStays DEF DaemonInv, Send, bridgeVars, BridgeInv
  <2>3. StageInv'
    BY <2>1 DEF DaemonInv, StageInv, MainSteps, Joined, svcVars, Send
  <2>4. CASE main' = main
    BY <2>1, <2>2, <2>3, <2>4, NotYetExited
  <2>5. CASE ~ blocked /\ main' = "exited" /\ exitCode' = Killed
    BY <2>1, <2>2, <2>3, <2>5 DEF DaemonInv, StageInv, Joined, MainSteps, ServiceInv,
       NotKilledInService, ExitZeroIsClean, Killed, svcVars
  <2>6. QED
    BY <2>1, <2>4, <2>5
<1>17. CASE UNCHANGED vars
  <2>1. (ServiceInv /\ CountInv /\ BridgeInv)'
    BY <1>17, ServiceStays DEF vars, DaemonInv, bridgeVars, BridgeInv
  <2>2. (StageInv /\ NotKilledInService /\ ExitZeroIsClean)'
    BY <1>17 DEF vars, svcVars, bridgeVars, daemonVars, DaemonInv, StageInv,
       NotKilledInService, ExitZeroIsClean
  <2>3. QED
    BY <2>1, <2>2 DEF DaemonInv
<1>18. QED
  BY <1>1, <1>2, <1>3, <1>4, <1>5, <1>6, <1>7, <1>8, <1>9, <1>10, <1>11, <1>12, <1>13,
     <1>14, <1>15, <1>16, <1>17 DEF Next, MainStep

-----------------------------------------------------------------------------
(***************************************************************************)
(* On every path through run() recovery has come first, the listener is    *)
(* closed when it returns, "stopped" is earned, and the loop gives up      *)
(* exactly at maximum_consecutive_listener_errors.                         *)
(***************************************************************************)
THEOREM ServiceRunsInOrder == Spec => []RunIsOrderly
<1>1. DaemonInv => RunIsOrderly
  <2> SUFFICES ASSUME DaemonInv PROVE RunIsOrderly
    OBVIOUS
  <2>1. RecoveryComesFirst /\ ReturnIsClean
    BY DEF DaemonInv, ServiceInv, RecoveryComesFirst, ReturnIsClean, Admitting, Leaving
  <2>2. PICK l \in Nat, e \in Nat \ {0} :
          l = Len(recent) /\ e = MaxErrors /\ l <= e /\ errors \in 0 .. l
    BY ErrorAssumption, LenProperties DEF DaemonInv, CountInv, CountsErrors
  <2>3. /\ \A i \in 1 .. l : i > l - errors => recent[i] = "error"
        /\ errors < l => recent[l - errors] # "error"
    BY <2>2 DEF DaemonInv, CountInv, CountsErrors
  <2>4. AllFailed <=> errors = e
    BY <2>2, <2>3 DEF AllFailed
  <2>5. GivesUpExactlyAtLimit
    BY <2>2, <2>4 DEF DaemonInv, CountInv, GivesUpExactlyAtLimit, Leaving
  <2>6. QED
    BY <2>1, <2>5 DEF RunIsOrderly
<1>2. QED
  BY <1>1, DaemonInit, DaemonStep, PTL DEF Spec

\* A termination signal never kills the process while the service runs.
THEOREM SignalsWaitForService == Spec => []NotKilledInService
<1>1. DaemonInv => NotKilledInService
  BY DEF DaemonInv
<1>2. QED
  BY <1>1, DaemonInit, DaemonStep, PTL DEF Spec

\* Exit code 0 of serve-read-only means a shutdown asked for and fully audited.
THEOREM ZeroMeansClean == Spec => []ExitZeroIsClean
<1>1. DaemonInv => ExitZeroIsClean
  BY DEF DaemonInv
<1>2. QED
  BY <1>1, DaemonInit, DaemonStep, PTL DEF Spec

-----------------------------------------------------------------------------
(***************************************************************************)
(* The gates.  The configuration is that of accepted arguments, and from   *)
(* the preflight to the sandbox it and what was seen of its directories    *)
(* stay as the preflight accepted them.                                    *)
(***************************************************************************)
Accepted(c) == \E a \in Arguments : parse_daemon_arguments(a) /\ c = Configured(a)

\* What the preflight has established of directories d under configuration c.
Passed(d, c) ==
  /\ Accepted(c) /\ DirectoriesReady(d, c)
  /\ \A r \in Roles : c.path[r] \in {Pfctl, PfDevice} => ~ d[r].plain

GateInv ==
  /\ main \in {"identity", "preflight"} => Accepted(config)
  /\ main \in {"lock", "announce", "sandbox"} => Passed(dirs, config)

LEMMA GateStep == GateInv /\ [Next]_vars => GateInv'
<1> SUFFICES ASSUME GateInv, [Next]_vars PROVE GateInv'
  OBVIOUS
<1>1. CASE main' = main /\ UNCHANGED startup
  BY <1>1 DEF GateInv, startup
<1>2. CASE ParseArguments
  BY <1>2 DEF ParseArguments, Goto, Exit, GateInv, Accepted
<1>3. CASE CheckIdentity
  BY <1>3 DEF CheckIdentity, Goto, Exit, GateInv, startup
<1>4. CASE Preflight
  BY <1>4 DEF Preflight, Goto, Exit, GateInv, Passed, Real
<1>5. CASE AcquireLock \/ AnnounceStart
  BY <1>5 DEF AcquireLock, AnnounceStart, Goto, Exit, GateInv, startup
<1>6. CASE main' \notin {"identity", "preflight", "lock", "announce", "sandbox"}
  BY <1>6 DEF GateInv
<1>7. \/ main' = main /\ UNCHANGED startup
      \/ ParseArguments \/ CheckIdentity \/ Preflight \/ AcquireLock \/ AnnounceStart
      \/ main' \notin {"identity", "preflight", "lock", "announce", "sandbox"}
  BY DEF Next, MainStep, vars, daemonVars, startup, Goto, Exit, ApplySandbox,
     StartBridge, SpawnWorker, RunService, Halt, Wake, Join, Unblock, Report, FinishMain,
     Work, Deliver
<1>8. QED
  BY <1>1, <1>2, <1>3, <1>4, <1>5, <1>6, <1>7

\* Each directory meets the test of the component that uses it.
LEMMA PassedCoversUse ==
  ASSUME NEW d, NEW c, Passed(d, c)
  PROVE  /\ \A r \in Storage : UsableRoot(d[r])
         /\ UsableParent(d["socket"])
         /\ socket_mode(c) = "0660" =>
              /\ d["socket"].group = c.gid[1] /\ "g+x" \in d["socket"].may
              /\ "chown" \in make_read_only_daemon_sandbox_policy(c).promises
<1>1. \A r \in Roles : check_directory(r, d[r], c)
  BY DEF Passed, DirectoriesReady
<1>2. \A r \in Roles : UsableRoot(d[r])
  BY <1>1 DEF check_directory, Canonical, SafePermissions, UsableRoot
<1>3. UsableParent(d["socket"]) /\ ReachableByGroup(d["socket"], c)
  BY <1>1, <1>2 DEF Roles, check_directory, SafePermissions, UsableParent
<1>4. socket_mode(c) = "0660"
        => "chown" \in make_read_only_daemon_sandbox_policy(c).promises
  BY DEF socket_mode, make_read_only_daemon_sandbox_policy, delegated_socket_promises
<1>5. QED
  BY <1>2, <1>3, <1>4 DEF Roles, ReachableByGroup

\* A path overlaps itself and the root directory; so do their spellings.
LEMMA OverlapsItself ==
  ASSUME NEW p \in Seq(STRING)
  PROVE  paths_overlap(p, p) /\ paths_overlap(<<>>, p)
<1>1. PICK n \in Nat : n = Len(p) /\ DOMAIN p = 1 .. n
  BY LenProperties
<1>2. SubSeq(p, 1, n) = p
  <2>1. SubSeq(p, 1, n) = [i \in 1 .. n |-> p[i]]
    BY <1>1, SubSeqProperties, LenProperties
  <2>2. QED
    BY <1>1, <2>1, SeqDef
<1>3. SubSeq(p, 1, 0) = <<>>
  BY SubSeqProperties, EmptySeq
<1>4. QED
  BY <1>1, <1>2, <1>3, EmptySeq DEF paths_overlap, is_same_or_ancestor

\* The directory of a safe path is safe unless it is the root.
LEMMA SafeParent ==
  ASSUME NEW p \in Seq(STRING), safe_absolute_path(p), parent_path(p) # <<>>
  PROVE  parent_path(p) \in Seq(STRING) /\ safe_absolute_path(parent_path(p))
<1>1. PICK n \in Nat : n = Len(p) /\ \A i \in 1 .. n : p[i] \in STRING
  BY LenProperties, ElementOfSeq
<1>2. PICK q : q = parent_path(p)
  OBVIOUS
<1>3. /\ q \in Seq(STRING) /\ \A i \in 1 .. n - 1 : q[i] = p[i]
      /\ Len(q) = IF 1 <= n - 1 THEN n - 1 ELSE 0
  BY <1>1, <1>2, SubSeqProperties DEF parent_path
<1>4. \A i \in 1 .. Len(q) : q[i] = p[i] /\ i \in 1 .. n
  BY <1>1, <1>3
<1>5. Components(q) \subseteq Components(p)
  BY <1>1, <1>4 DEF Components
<1>6. QED
  BY <1>2, <1>3, <1>5 DEF safe_absolute_path

\* The paths of a configuration that passed: safe, apart, and no file of the sandbox.
LEMMA PassedPaths ==
  ASSUME NEW d, NEW c, Passed(d, c)
  PROVE  /\ \A r \in Roles : /\ c.path[r] \in Seq(STRING) /\ safe_absolute_path(c.path[r])
                             /\ c.path[r] # Pfctl /\ c.path[r] # PfDevice
                             /\ Named(c.path[r]) = c.path[r]
         /\ \A r, s \in Roles : r # s => ~ paths_overlap(c.path[r], c.path[s])
<1>1. PICK a \in Arguments : parse_daemon_arguments(a) /\ c = Configured(a)
  BY DEF Passed, Accepted
<1>2. PICK sock : sock = a.socket[1]
  OBVIOUS
<1>3. /\ sock \in Seq(STRING)
      /\ \A r \in Storage : a.roots[r][1] \in Seq(STRING)
  <2>1. /\ a.socket \in Seq(Seq(STRING)) /\ Len(a.socket) = 1
        /\ \A r \in Storage : a.roots[r] \in Seq(Seq(STRING)) /\ Len(a.roots[r]) = 1
    BY <1>1, ArgumentAssumption DEF parse_daemon_arguments, Complete
  <2>2. QED
    BY <1>2, <2>1, ElementOfSeq
<1>4. /\ c.path["socket"] = parent_path(sock)
      /\ \A r \in Storage : c.path[r] = a.roots[r][1]
  BY <1>1, <1>2 DEF Configured, Roles, Storage
<1>5. /\ \A r \in Storage : safe_absolute_path(c.path[r])
      /\ \A r, s \in Storage : r # s => ~ paths_overlap(c.path[r], c.path[s])
      /\ \A r \in Storage : ~ paths_overlap(c.path["socket"], c.path[r])
      /\ safe_absolute_path(sock)
  BY <1>1, <1>2, <1>4 DEF parse_daemon_arguments, SeparateRoots
<1>6. \A r, s \in Roles : r # s => ~ paths_overlap(c.path[r], c.path[s])
  BY <1>5 DEF Roles, paths_overlap
<1>7. parent_path(sock) # <<>>
  BY <1>3, <1>4, <1>5, OverlapsItself DEF Storage
<1>8. \A r \in Roles : c.path[r] \in Seq(STRING) /\ safe_absolute_path(c.path[r])
  BY <1>3, <1>4, <1>5, <1>7, SafeParent DEF Roles
<1>9. \A r \in Roles : Canonical(c.path[r], d[r])
  BY DEF Passed, DirectoriesReady, check_directory
<1>10. \A r \in Roles : c.path[r] # Pfctl /\ c.path[r] # PfDevice
  BY <1>9 DEF Passed, Canonical
<1>11. \A r \in Roles : Named(c.path[r]) = c.path[r]
  BY <1>9 DEF Canonical, Named
<1>12. QED
  BY <1>6, <1>8, <1>10, <1>11

LEMMA PassedPolicyIsValid ==
  ASSUME NEW d, NEW c, Passed(d, c)
  PROVE  valid_policy(make_read_only_daemon_sandbox_policy(c))
<1> DEFINE policy == make_read_only_daemon_sandbox_policy(c)
           rules == policy.unveil_rules
           role == <<"journal", "revisions", "transactions", "socket">>
<1>1. rules = << <<c.path["journal"], "rwc">>, <<c.path["revisions"], "r">>,
                 <<c.path["transactions"], "rwc">>, <<c.path["socket"], "rwc">>,
                 <<Pfctl, "x">>, <<PfDevice, "rw">> >>
  BY DEF make_read_only_daemon_sandbox_policy
<1>2. policy.promises \in {private_socket_promises, delegated_socket_promises}
  BY DEF make_read_only_daemon_sandbox_policy
<1> HIDE DEF policy, rules
<1>3. [i \in DOMAIN rules |-> rules[i][2]] = <<"rwc", "r", "rwc", "rwc", "x", "rw">>
  BY <1>1
<1>4. rules[5][1] = Pfctl /\ rules[6][1] = PfDevice
  BY <1>1
<1>5. /\ \A i \in 1 .. 4 : role[i] \in Roles /\ rules[i][1] = c.path[role[i]]
      /\ \A i, j \in 1 .. 4 : i # j => role[i] # role[j]
  BY <1>1 DEF Roles, Storage
<1>6. safe_absolute_path(Pfctl) /\ safe_absolute_path(PfDevice) /\ Pfctl # PfDevice
  BY DEF safe_absolute_path, Components, Pfctl, PfDevice
<1> HIDE DEF role
<1>7. \A i, j \in 1 .. 4 : i # j => ~ paths_overlap(rules[i][1], rules[j][1])
  <2>1. \A r, s \in Roles : r # s => ~ paths_overlap(c.path[r], c.path[s])
    BY PassedPaths
  <2>2. QED
    BY <1>5, <2>1
<1>8. \A i \in 1 .. 6 : safe_absolute_path(rules[i][1])
  BY <1>4, <1>5, <1>6, PassedPaths
<1>9. \A i, j \in 1 .. 6 : i # j => rules[i][1] # rules[j][1]
  <2>1. \A i, j \in 1 .. 4 : i # j => rules[i][1] # rules[j][1]
    BY <1>5, <1>7, PassedPaths, OverlapsItself
  <2>2. \A i \in 1 .. 4 : rules[i][1] # Pfctl /\ rules[i][1] # PfDevice
    BY <1>5, PassedPaths
  <2>3. QED
    BY <1>4, <1>6, <2>1, <2>2
<1>10. QED
  BY <1>2, <1>3, <1>4, <1>7, <1>8, <1>9 DEF valid_policy, policy, rules

(***************************************************************************)
(* Whatever the command line and the directories are, what passes the      *)
(* gates meets the test of every component that uses it, no directory lies *)
(* in another one in whatever spelling, and the sandbox accepts its policy *)
(***************************************************************************)
THEOREM GatesAreSufficient == Spec => []GatesAdmitOnlyUsable
<1>1. Init => GateInv
  BY DEF Init, GateInv
<1>2. GateInv => GatesAdmitOnlyUsable
  <2>1. GateInv => PreflightCoversUse
    BY PassedCoversUse DEF GateInv, PreflightCoversUse
  <2>2. GateInv => RootsAreApart
    BY PassedPaths, PassedPolicyIsValid DEF GateInv, RootsAreApart
  <2>3. QED
    BY <2>1, <2>2 DEF GatesAdmitOnlyUsable
<1>3. QED
  BY <1>1, <1>2, GateStep, PTL DEF Spec
=============================================================================
