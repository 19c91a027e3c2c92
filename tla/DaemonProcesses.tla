--------------------------- MODULE DaemonProcesses ---------------------------
(***************************************************************************)
(* Several gateholdd processes on one machine: the start-up sequence of    *)
(* run_read_only_daemon across processes, from the preflight over the      *)
(* process lock, which the losers leave with an event in the shared        *)
(* journal, to recovery and the bound socket.  Any of them can die         *)
(* anywhere.                                                               *)
(***************************************************************************)
EXTENDS ProcessLock, OperationJournal

CONSTANT StartupEvents  \* events a daemon appends between lock and recovery
ASSUME StartupAssumption == StartupEvents \in Nat \ {0} /\ Writers = Processes

VARIABLES
  life,       \* stage of each process
  announced,  \* the start-up events each process has appended
  socket,     \* the entry at the socket path: "none", "bound", "dead"
  overtaken   \* history: processes since whose preflight another one was serving

systemVars == <<life, announced, socket, overtaken>>
allVars == <<vars, journalVars, systemVars>>

Lives ==
  {"off", "preflight", "acquire", "refused", "announce", "recover", "serve", "closing"}
Become(p, l) ==
  /\ life' = [life EXCEPT ![p] = l]
  /\ IF l # "off" THEN UNCHANGED <<announced, overtaken>>
     ELSE /\ announced' = [announced EXCEPT ![p] = <<>>]
          /\ overtaken' = overtaken \ {p}

-----------------------------------------------------------------------------
Start(p) ==
  /\ life[p] = "off"
  /\ Become(p, "preflight")
  /\ UNCHANGED <<vars, journalVars, socket>>

\* Append an event and end, whatever becomes of the event.
LeaveWith(p, l) ==
  OpenJournal(p) /\ Become(p, IF step'[p] = "idle" THEN "off" ELSE l)

\* Plausible bug: the socket path is not looked at before recovery.
PathIsFreeUnchecked == TRUE

PathIsFree == socket = "none"

\* Refused without a trace while the journal root is not known to be good.
Preflight(p) ==
  /\ life[p] = "preflight"
  /\ \/ Become(p, "off") /\ UNCHANGED <<vars, journalVars>>
     \/ LeaveWith(p, "refused") /\ UNCHANGED vars
     \/ PathIsFree /\ Become(p, "acquire") /\ Inspect(p) /\ UNCHANGED journalVars
  /\ UNCHANGED socket

\* acquire(): the winner goes on, the loser appends why it does not.
Acquire(p) ==
  /\ life[p] = "acquire"
  /\ Open(p) \/ Flock(p) \/ Verify(p) \/ End(p)
  /\ \/ pc'[p] = "down" /\ LeaveWith(p, "refused")
     \/ pc'[p] = "running" /\ Become(p, "announce") /\ UNCHANGED journalVars
     \/ pc'[p] \notin {"down", "running"} /\ Become(p, "acquire") /\ UNCHANGED journalVars
  /\ UNCHANGED socket

\* Preflight, lock and start events, one append after the other.
Announce(p) ==
  /\ life[p] = "announce" /\ step[p] = "idle"
  /\ OpenJournal(p)
  /\ \/ step'[p] # "idle" /\ Become(p, "announce") /\ UNCHANGED vars
     \/ step'[p] = "idle" /\ Become(p, "off") /\ End(p)
  /\ UNCHANGED socket

\* Plausible bug: the result of an append is not looked at.
AdvancesAlways(p) == step'[p] = "idle"

Advances(p) == step'[p] = "idle" /\ append[p] \in appended'

\* One step of append().  When it returns, start-up goes on, or the process exits
\* and the lock goes with it.
AppendStep(p) ==
  /\ step[p] # "idle" /\ JournalStep(p)
  /\ \/ step'[p] # "idle" /\ Become(p, life[p]) /\ UNCHANGED vars
     \/ /\ life[p] = "announce" /\ Advances(p)
        /\ announced' = [announced EXCEPT ![p] = Append(@, append[p])]
        /\ life' = [life EXCEPT ![p] =
             IF Len(announced'[p]) = StartupEvents THEN "recover" ELSE "announce"]
        /\ UNCHANGED <<vars, overtaken>>
     \/ /\ life[p] = "announce" /\ step'[p] = "idle" /\ ~ Advances(p)
        /\ Become(p, "off") /\ End(p)
     \/ life[p] = "refused" /\ step'[p] = "idle" /\ Become(p, "off") /\ UNCHANGED vars
     \/ life[p] = "closing" /\ step'[p] = "idle" /\ Become(p, "off") /\ End(p)
  /\ UNCHANGED socket

\* Plausible bug: the lock file is removed when the daemon stops.
LeaveUnlinking(p) ==
  /\ OpenJournal(p) /\ entry' = NoFile /\ UNCHANGED inodes
  /\ \/ step'[p] # "idle" /\ Become(p, "closing") /\ UNCHANGED <<locked, opened, pc>>
     \/ step'[p] = "idle" /\ Become(p, "off") /\ Release(p)

\* The event GH-DMN-0002, and the end of the process with its lock.
Leave(p) ==
  /\ OpenJournal(p)
  /\ \/ step'[p] # "idle" /\ Become(p, "closing") /\ UNCHANGED vars
     \/ step'[p] = "idle" /\ Become(p, "off") /\ End(p)

\* After recovery the listener binds, which an existing entry refuses.
Bind(p) ==
  /\ life[p] = "recover"
  /\ \/ /\ socket = "none" /\ socket' = "bound"
        /\ life' = [life EXCEPT ![p] = "serve"]
        /\ overtaken' = overtaken \cup {q \in Processes \ {p} : life[q] # "off"}
        /\ UNCHANGED <<vars, journalVars, announced>>
     \/ Leave(p) /\ UNCHANGED socket

\* The service ends and removes its socket, if that works.
Stop(p) == life[p] = "serve" /\ Leave(p) /\ socket' \in {"none", "dead"}

Crash(p) ==
  /\ life[p] # "off" /\ Become(p, "off")
  /\ End(p) \/ (pc[p] = "down" /\ UNCHANGED vars)
  /\ DropAppend(p)
  /\ socket' = (IF life[p] = "serve" THEN "dead" ELSE socket)

\* The operator resolves an occupied path; the lock file is replaced by others.
RemoveDeadSocket ==
  /\ socket = "dead" /\ socket' = "none"
  /\ UNCHANGED <<vars, journalVars, life, announced, overtaken>>

ReplaceLockFile == Replace /\ UNCHANGED <<journalVars, systemVars>>

LosePower ==
  /\ \A p \in Processes : life[p] = "off"
  /\ PowerLoss /\ UNCHANGED <<vars, systemVars>>

-----------------------------------------------------------------------------
SystemInit ==
  /\ Init /\ JournalInit
  /\ life = [p \in Processes |-> "off"] /\ announced = [p \in Processes |-> <<>>]
  /\ socket = "none" /\ overtaken = {}

ProcessStep(p) ==
  \/ Start(p) \/ Preflight(p) \/ Acquire(p) \/ Announce(p) \/ AppendStep(p)
  \/ Bind(p) \/ Stop(p) \/ Crash(p)

SystemNext ==
  \/ \E p \in Processes : ProcessStep(p)
  \/ RemoveDeadSocket \/ ReplaceLockFile \/ LosePower

SystemSpec == SystemInit /\ [][SystemNext]_allVars

-----------------------------------------------------------------------------
\* The journal, the stages and the socket path have their types.
SystemTypes ==
  /\ TypeOK /\ JournalTypes
  /\ life \in [Processes -> Lives] /\ socket \in {"none", "bound", "dead"}
  /\ announced \in [Processes -> Seq(1 .. MaxAppends)]
  /\ overtaken \subseteq Processes

(***************************************************************************)
(* The daemon uses its lock as ProcessLock says: the start-up sequence,    *)
(* the exits and the deaths are steps of that specification, so that what  *)
(* is proved of it holds of the system.                                    *)
(***************************************************************************)
ImplementsLock == Spec

(***************************************************************************)
(* Recovery and service are audited: a daemon in either has all its        *)
(* start-up events in the durable part of the journal, whole and in the    *)
(* order in which it appended them, however many others append refusals    *)
(* at the same time (main.cpp:171).                                        *)
(***************************************************************************)
ServiceIsAudited ==
  \A p \in Processes : life[p] \in {"recover", "serve"} =>
    /\ Len(announced[p]) = StartupEvents
    /\ \E at \in [1 .. StartupEvents -> 1 .. synced] :
         /\ \A i \in 1 .. StartupEvents : file[at[i]] = <<announced[p][i], EntrySize>>
         /\ \A i \in 1 .. StartupEvents - 1 : at[i] < at[i + 1]

(***************************************************************************)
(* The socket path is looked at before the lock is taken and bound after   *)
(* recovery.  A daemon that recovers never meets a live socket there, and  *)
(* a dead one only if another daemon served and ended in between           *)
(* (filesystem_preflight.cpp:208, main.cpp:150).                           *)
(***************************************************************************)
OccupiedPathIsExplained ==
  \A p \in Processes : life[p] = "recover" =>
    /\ socket # "bound"
    /\ socket = "dead" => p \in overtaken
=============================================================================
