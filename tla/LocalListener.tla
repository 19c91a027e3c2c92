--------------------------- MODULE LocalListener ---------------------------
(***************************************************************************)
(* LocalControllerListener: threads of one process call start(),           *)
(* serve_one() and stop() in any order.  start() and stop() hold           *)
(* lifecycle_mutex_ throughout; serve_one() holds it only to copy the      *)
(* descriptor and relies on the atomic flag serving_.  Others (an          *)
(* administrator, another process) can remove or replace the entry at the  *)
(* socket path, and the process can die.                                   *)
(***************************************************************************)
EXTENDS Integers

CONSTANTS
  Threads,
  Nobody,      \* no thread
  MaxBinds     \* bound: sockets bound over all restarts
ASSUME ListenerAssumption == Nobody \notin Threads /\ MaxBinds \in Nat

VARIABLES
  entry,        \* what is at the socket path: NoEntry, Foreign, or one of our sockets
  binds,        \* sockets bound so far; also the number of the newest one
  stuck,        \* history: sockets on which a system call failed that removing
                \* them depends on
  orphans,      \* history: sockets left at the path by a process that died
  intruded,     \* history: others touched the path inside a window between a
                \* call that creates or compares the entry and one that trusts it
  listener,     \* listener_descriptor_: the open socket, or NoEntry
  owns,         \* owns_socket_path_
  identity,     \* socket_device_ and socket_inode_
  mutex,        \* owner of lifecycle_mutex_
  serving,      \* serving_
  pc,           \* step of each thread's call
  after,        \* status to return once cleanup_socket_path() is through
  captured,     \* the descriptor serve_one() copied
  expired,      \* the accept deadline of serve_one() has passed
  last          \* status of the call that returned last

path == <<entry, binds, stuck, orphans, intruded>>
object == <<listener, owns, identity>>
calls == <<pc, after, captured, expired>>
vars == <<path, object, mutex, serving, calls, last>>

NoEntry == 0
Foreign == -1
Sockets == 1 .. MaxBinds

StartSteps == {"check", "bind", "secure", "ready"}
StopSteps == {"close", "stat", "unlink"}
ServeSteps == {"capture", "poll", "accept", "admit", "session"}
Statuses ==
  {"none", "listening", "stopped", "session_completed", "accept_timed_out",
   "rate_limited", "busy", "not_listening", "invalid_configuration",
   "unsafe_directory", "address_in_use", "io_error", "audit_failed",
   "cleanup_failed"}

Goto(t, step) == pc' = [pc EXCEPT ![t] = step]

\* A call of start() or stop() returns and releases the mutex.
Unlock(t, status) == Goto(t, "idle") /\ mutex' = Nobody /\ last' = status

-----------------------------------------------------------------------------
(* start()                                                                 *)

\* Under the mutex; every refusal up to the check of the path changes nothing.
Start(t) ==
  /\ pc[t] = "idle" /\ mutex = Nobody
  /\ \/ listener # NoEntry /\ last' = "listening" /\ UNCHANGED <<pc, mutex>>
     \/ /\ listener = NoEntry
        /\ last' \in {"invalid_configuration", "audit_failed", "unsafe_directory"}
        /\ UNCHANGED <<pc, mutex>>
     \/ /\ listener = NoEntry
        /\ mutex' = t /\ Goto(t, "check") /\ UNCHANGED last
  /\ UNCHANGED <<path, object, serving, after, captured, expired>>

\* fstatat: an existing entry is never replaced, whatever it is.
CheckAddress(t) ==
  /\ pc[t] = "check"
  /\ \/ entry # NoEntry /\ Unlock(t, "address_in_use")
     \/ Unlock(t, "io_error")
     \/ entry = NoEntry /\ Goto(t, "bind") /\ UNCHANGED <<mutex, last>>
  /\ UNCHANGED <<path, object, serving, after, captured, expired>>

\* socket() and bind(), which creates the entry or fails if there is one.
Bind(t) ==
  /\ pc[t] = "bind"
  /\ \/ Unlock(t, "io_error") /\ UNCHANGED <<path, object>>
     \/ /\ entry = NoEntry /\ binds < MaxBinds
        /\ binds' = binds + 1 /\ entry' = binds + 1 /\ listener' = binds + 1
        /\ owns' = TRUE
        /\ Goto(t, "secure")
        /\ UNCHANGED <<stuck, orphans, intruded, identity, mutex, last>>
  /\ UNCHANGED <<serving, after, captured, expired>>

\* Close the descriptor, then run cleanup_socket_path() and return status.
Withdraw(t, status) ==
  /\ listener' = NoEntry
  /\ after' = status
  /\ Goto(t, "stat")

\* A system call on the entry failed.
Stick == stuck' = stuck \cup ({entry} \cap Sockets)

\* Plausible bug: the identity is recorded only after group and mode are set.
SecureThenRecord(t) ==
  /\ pc[t] = "secure" /\ UNCHANGED stuck
  /\ \/ UNCHANGED identity /\ Withdraw(t, "io_error")
     \/ /\ entry # NoEntry /\ identity' = entry
        /\ Goto(t, "ready") /\ UNCHANGED <<listener, after>>
  /\ UNCHANGED <<entry, binds, orphans, intruded, owns, mutex, serving, captured,
                 expired, last>>

\* fstatat records the identity; then group, mode, verification and listen.  If
\* fstatat fails there is no identity, and the clean-up will not know the socket.
Secure(t) ==
  /\ pc[t] = "secure"
  /\ \/ /\ entry # NoEntry /\ identity' = entry /\ UNCHANGED stuck
        /\ \/ Withdraw(t, "io_error")
           \/ Goto(t, "ready") /\ UNCHANGED <<listener, after>>
     \/ UNCHANGED identity /\ Stick /\ Withdraw(t, "io_error")
  /\ UNCHANGED <<entry, binds, orphans, intruded, owns, mutex, serving, captured,
                 expired, last>>

\* Append GH-LSN-0002; only then reset the rate limiter and report "listening".
Ready(t) ==
  /\ pc[t] = "ready"
  /\ \/ Unlock(t, "listening") /\ UNCHANGED <<listener, after>>
     \/ Withdraw(t, "audit_failed") /\ UNCHANGED <<mutex, last>>
  /\ UNCHANGED <<path, owns, identity, serving, captured, expired>>

-----------------------------------------------------------------------------
(* stop() and the destructor                                               *)

\* Plausible bug: stop() does not look at serving_.
StopWithoutBusyCheck(t) ==
  /\ pc[t] = "idle" /\ mutex = Nobody /\ listener # NoEntry
  /\ mutex' = t /\ Goto(t, "close")
  /\ UNCHANGED <<path, object, serving, after, captured, expired, last>>

Stop(t) ==
  /\ pc[t] = "idle" /\ mutex = Nobody
  /\ \/ serving # Nobody /\ last' = "busy" /\ UNCHANGED <<pc, mutex>>
     \/ /\ serving = Nobody /\ listener = NoEntry /\ ~ owns
        /\ last' = "stopped" /\ UNCHANGED <<pc, mutex>>
     \/ /\ serving = Nobody /\ (listener # NoEntry \/ owns)
        /\ mutex' = t /\ Goto(t, "close") /\ UNCHANGED last
  /\ UNCHANGED <<path, object, serving, after, captured, expired>>

\* serving_ was tested before: another thread may have set it meanwhile.
Close(t) ==
  /\ pc[t] = "close"
  /\ Withdraw(t, "stopped")
  /\ UNCHANGED <<path, owns, identity, mutex, serving, captured, expired, last>>

\* Destruction requires that no call is in progress.
Destroy(t) ==
  /\ \A u \in Threads : pc[u] = "idle"
  /\ owns
  /\ mutex' = t /\ Withdraw(t, "none")
  /\ UNCHANGED <<path, owns, identity, serving, captured, expired, last>>

\* cleanup_socket_path() is through: it forgets the path, removed or not, and the
\* call returns.  Only stop() reports that the entry is still there.
Forget(t, removed) ==
  /\ owns' = FALSE /\ identity' = NoEntry /\ intruded' = FALSE
  /\ \/ after # "stopped" /\ Unlock(t, after)
     \/ after = "stopped" /\ ~ removed /\ Unlock(t, "cleanup_failed")
     \/ after = "stopped" /\ removed /\ Unlock(t, "stopped")
     \/ after = "stopped" /\ removed /\ Unlock(t, "audit_failed")

\* Plausible bug: the entry is unlinked without comparing device and inode.
StatAnyEntry(t) ==
  /\ pc[t] = "stat" /\ entry # NoEntry /\ Goto(t, "unlink")
  /\ UNCHANGED <<path, object, mutex, serving, after, captured, expired, last>>

\* fstatat: absent counts as removed, an entry with another identity is left
\* alone, our own is to be unlinked; or fstatat fails.
Stat(t) ==
  /\ pc[t] = "stat"
  /\ \/ entry = NoEntry /\ Forget(t, TRUE) /\ UNCHANGED stuck
     \/ entry \notin {NoEntry, identity} /\ Forget(t, FALSE) /\ UNCHANGED stuck
     \/ /\ entry # NoEntry /\ entry = identity /\ Goto(t, "unlink")
        /\ UNCHANGED <<stuck, intruded, owns, identity, mutex, last>>
     \/ Forget(t, FALSE) /\ Stick
  /\ UNCHANGED <<entry, binds, orphans, listener, serving, after, captured, expired>>

\* unlinkat goes by name, so it removes whatever is there now; or it fails.
Unlink(t) ==
  /\ pc[t] = "unlink"
  /\ \/ entry' = NoEntry /\ Forget(t, TRUE) /\ UNCHANGED stuck
     \/ UNCHANGED entry /\ Forget(t, FALSE) /\ Stick
  /\ UNCHANGED <<binds, orphans, listener, serving, after, captured, expired>>

-----------------------------------------------------------------------------
(* serve_one()                                                             *)

\* serve_one() returns: the ServingClaim is released.
Return(t, status) ==
  /\ Goto(t, "idle") /\ serving' = Nobody /\ last' = status
  /\ captured' = [captured EXCEPT ![t] = NoEntry]
  /\ UNCHANGED expired

\* The constructor of ServingClaim: test_and_set, without the mutex.
Claim(t) ==
  /\ pc[t] = "idle"
  /\ \/ serving # Nobody /\ last' = "busy" /\ UNCHANGED <<serving, pc>>
     \/ serving = Nobody /\ serving' = t /\ Goto(t, "capture") /\ UNCHANGED last
  /\ UNCHANGED <<path, object, mutex, after, captured, expired>>

\* Copy listener_descriptor_ under the mutex and compute the deadline.
Capture(t) ==
  /\ pc[t] = "capture" /\ mutex = Nobody
  /\ \/ listener = NoEntry /\ Return(t, "not_listening")
     \/ listener # NoEntry /\ Return(t, "invalid_configuration")
     \/ /\ listener # NoEntry
        /\ captured' = [captured EXCEPT ![t] = listener]
        /\ expired' = [expired EXCEPT ![t] = FALSE]
        /\ Goto(t, "poll") /\ UNCHANGED <<serving, last>>
  /\ UNCHANGED <<path, object, mutex, after>>

\* Plausible bug: the deadline is not looked at again in the loop.
PollWithoutDeadline(t) ==
  /\ pc[t] = "poll"
  /\ Goto(t, "accept")
  /\ UNCHANGED <<path, object, mutex, after, serving, captured, expired, last>>

\* The head of the loop and poll(); EINTR goes round the loop again.
Poll(t) ==
  /\ pc[t] = "poll"
  /\ \/ Return(t, "accept_timed_out")
     \/ ~ expired[t] /\ Return(t, "io_error")
     \/ ~ expired[t] /\ Goto(t, "accept") /\ UNCHANGED <<serving, captured, expired, last>>
  /\ UNCHANGED <<path, object, mutex, after>>

\* A connection, a transient error (poll again), or a failure.
Accept(t) ==
  /\ pc[t] = "accept"
  /\ \/ (Goto(t, "admit") \/ Goto(t, "poll"))
        /\ UNCHANGED <<serving, captured, expired, last>>
     \/ Return(t, "io_error")
  /\ UNCHANGED <<path, object, mutex, after>>

\* AdmissionRateLimiter::try_admit; the delay after a denial is bounded.
Admit(t) ==
  /\ pc[t] = "admit"
  /\ \/ Goto(t, "session") /\ UNCHANGED <<serving, captured, expired, last>>
     \/ Return(t, "rate_limited")
  /\ UNCHANGED <<path, object, mutex, after>>

\* ControllerProtocolSession::serve, whose input and output are bounded in time.
Session(t) ==
  /\ pc[t] = "session"
  /\ Return(t, "session_completed")
  /\ UNCHANGED <<path, object, mutex, after>>

Expire(t) ==
  /\ pc[t] \in {"poll", "accept"} /\ ~ expired[t]
  /\ expired' = [expired EXCEPT ![t] = TRUE]
  /\ UNCHANGED <<path, object, mutex, serving, pc, after, captured, last>>

-----------------------------------------------------------------------------
(* The environment                                                         *)

\* At any time somebody else removes the entry or puts one of their own there.
Others ==
  /\ entry' \in {NoEntry, Foreign}
  /\ intruded' = (intruded \/ \E t \in Threads : pc[t] \in {"secure", "unlink"})
  /\ UNCHANGED <<binds, stuck, orphans, object, mutex, serving, calls, last>>

\* The process dies and is started again; the entry stays.
Crash ==
  /\ orphans' = orphans \cup ({entry} \cap Sockets)
  /\ listener' = NoEntry /\ owns' = FALSE /\ identity' = NoEntry
  /\ intruded' = FALSE /\ mutex' = Nobody /\ serving' = Nobody
  /\ pc' = [t \in Threads |-> "idle"] /\ after' = "none"
  /\ captured' = [t \in Threads |-> NoEntry]
  /\ expired' = [t \in Threads |-> FALSE] /\ last' = "none"
  /\ UNCHANGED <<entry, binds, stuck>>

-----------------------------------------------------------------------------
Init ==
  /\ entry \in {NoEntry, Foreign} /\ binds = 0
  /\ stuck = {} /\ orphans = {} /\ intruded = FALSE
  /\ listener = NoEntry /\ owns = FALSE /\ identity = NoEntry
  /\ mutex = Nobody /\ serving = Nobody
  /\ pc = [t \in Threads |-> "idle"] /\ after = "none"
  /\ captured = [t \in Threads |-> NoEntry]
  /\ expired = [t \in Threads |-> FALSE] /\ last = "none"

StartStep(t) == CheckAddress(t) \/ Bind(t) \/ Secure(t) \/ Ready(t)
StopStep(t) == Close(t) \/ Stat(t) \/ Unlink(t)
ServeStep(t) == Poll(t) \/ Accept(t) \/ Admit(t) \/ Session(t)
Call(t) == Start(t) \/ Stop(t) \/ Destroy(t) \/ Claim(t) \/ Capture(t)

Next ==
  \/ \E t \in Threads :
       StartStep(t) \/ StopStep(t) \/ ServeStep(t) \/ Call(t) \/ Expire(t)
  \/ Others \/ Crash

Spec == Init /\ [][Next]_vars

(***************************************************************************)
(* Threads inside a call keep running and time passes.  Nothing is assumed *)
(* of a thread that waits for the mutex: POSIX mutexes need not be fair.   *)
(***************************************************************************)
FairSpec ==
  /\ Spec
  /\ \A t \in Threads :
       WF_vars(StartStep(t) \/ StopStep(t) \/ ServeStep(t)) /\ WF_vars(Expire(t))

-----------------------------------------------------------------------------
\* Every variable of the listener, its callers and the path has its type.
TypeOK ==
  /\ entry \in Sockets \cup {NoEntry, Foreign} /\ binds \in 0 .. MaxBinds
  /\ stuck \subseteq Sockets /\ orphans \subseteq Sockets /\ intruded \in BOOLEAN
  /\ listener \in Sockets \cup {NoEntry} /\ owns \in BOOLEAN
  /\ identity \in Sockets \cup {NoEntry, Foreign}
  /\ mutex \in Threads \cup {Nobody} /\ serving \in Threads \cup {Nobody}
  /\ pc \in [Threads -> {"idle"} \cup StartSteps \cup StopSteps \cup ServeSteps]
  /\ after \in Statuses /\ captured \in [Threads -> Sockets \cup {NoEntry}]
  /\ expired \in [Threads -> BOOLEAN] /\ last \in Statuses

(***************************************************************************)
(* The descriptor that serve_one() copied and polls or accepts on is still *)
(* the open listener: no interleaving of stop(), a new start() and         *)
(* serve_one() closes it, or lets its number be reused, under a caller,    *)
(* although serve_one() gave the mutex back before using it.               *)
(***************************************************************************)
ListenerOutlivesUse ==
  \A t \in Threads :
    pc[t] \in {"poll", "accept"} => listener # NoEntry /\ captured[t] = listener

(***************************************************************************)
(* The rate limiter, which has no lock of its own, is never touched by two *)
(* threads at once: neither by two try_admit() nor by try_admit() and the  *)
(* reset() at the end of start().                                          *)
(***************************************************************************)
LimiterIsPrivate ==
  \A t, u \in Threads :
    t # u /\ pc[t] = "admit" => pc[u] \notin {"admit", "ready"}

(***************************************************************************)
(* Claiming serving_ without the mutex is enough: what serve_one() uses    *)
(* after it gave the mutex back is neither closed nor shared under it.     *)
(***************************************************************************)
ServingIsExclusive == ListenerOutlivesUse /\ LimiterIsPrivate

(***************************************************************************)
(* A socket of ours is at the path only while it is the open listener or a *)
(* call under the mutex is dealing with it.  One that is left behind, dead *)
(* and in the way of every later start(), is there because the process     *)
(* died or because one of three system calls failed on that very socket:   *)
(* the fstatat after bind(), without which the clean-up does not recognise *)
(* it, and the clean-up's own fstatat and unlinkat.  No other failure of   *)
(* start() (group, mode, verification, listen, the readiness event), no    *)
(* stop() and no destructor leaves one (local_listener.cpp:372, :623).     *)
(* After such a failure a later stop() answers "stopped" all the same.     *)
(***************************************************************************)
SocketsAreAccounted ==
  entry \in Sockets =>
    entry = listener \/ mutex # Nobody \/ entry \in stuck \cup orphans

(***************************************************************************)
(* local-controller-listener.md: "if the name has been replaced, the       *)
(* replacement is preserved".  No call removes an entry it did not create, *)
(* whenever it was put there, with the exception of two windows in which   *)
(* names are trusted: others replaced the socket between bind() and the    *)
(* fstatat that records its identity, or between the fstatat that compares *)
(* the identity and the unlinkat (local_listener.cpp:372, :643).           *)
(***************************************************************************)
ReplacementIsPreserved ==
  [][entry = Foreign /\ entry' # Foreign => Others \/ intruded]_vars

(***************************************************************************)
(* Every call that is past its wait for the mutex returns, however often   *)
(* poll() and accept() are interrupted or come back empty-handed, so that  *)
(* a stop() refused as busy can be retried with success.                   *)
(***************************************************************************)
CallsReturn ==
  \A t \in Threads : pc[t] \notin {"idle", "capture"} ~> pc[t] = "idle"
=============================================================================
