------------------------ MODULE LocalListener_proofs ------------------------
(***************************************************************************)
(* The listener's life cycle for any number of threads: serve_one() uses   *)
(* the descriptor after it gave lifecycle_mutex_ back, and nothing closes  *)
(* it meanwhile; the entry at the socket path is always accounted for.     *)
(***************************************************************************)
EXTENDS LocalListener, TLAPS

(***************************************************************************)
(* The inductive invariant.  A thread inside start() or stop() has the     *)
(* mutex, a thread inside serve_one() has the flag.  stop() tests the flag *)
(* and closes later, when another thread may have the flag: what saves the *)
(* descriptor is that such a thread still waits for the mutex to copy it,  *)
(* so while a copied descriptor is in use nobody has the mutex.            *)
(***************************************************************************)
UseSteps == {"poll", "accept", "admit", "session"}
Locking == \A t \in Threads : pc[t] \in StartSteps \cup StopSteps => mutex = t
Claiming == \A t \in Threads : pc[t] \in ServeSteps => serving = t
Using == \A t \in Threads :
  pc[t] \in UseSteps =>
    mutex = Nobody /\ listener # NoEntry /\ captured[t] = listener

(***************************************************************************)
(* Only cleanup_socket_path() may find a socket of ours at the path that   *)
(* is neither open any more nor explained, and then it knows its identity. *)
(* Whatever start() has recorded is still the identity of its socket, so   *)
(* that from then on the comparison cannot miss it.                        *)
(***************************************************************************)
Accounting ==
  entry \in Sockets =>
    \/ entry \in stuck \cup orphans
    \/ /\ entry = listener
       /\ entry = identity \/ \E t \in Threads : pc[t] = "secure"
    \/ entry = identity /\ \E t \in Threads : pc[t] \in {"stat", "unlink"}

ListenerInv == TypeOK /\ Locking /\ Claiming /\ Using /\ Accounting

USE ListenerAssumption
    DEF NoEntry, Foreign, Sockets, StartSteps, StopSteps, ServeSteps, UseSteps,
        Statuses, Goto, path, object, calls

\* Nobody is in a call and no socket of ours exists yet.
LEMMA ListenerInit == Init => ListenerInv
<1> SUFFICES ASSUME Init PROVE ListenerInv
  OBVIOUS
<1>1. TypeOK
  <2>1. owns \in BOOLEAN /\ intruded \in BOOLEAN /\ expired \in [Threads -> BOOLEAN]
    BY Zenon DEF Init
  <2>2. captured \in [Threads -> Sockets \cup {NoEntry}]
    BY DEF Init
  <2> QED
    BY <2>1, <2>2 DEF Init, TypeOK
<1>2. Locking /\ Claiming /\ Using
  BY DEF Init, Locking, Claiming, Using
<1>3. Accounting
  BY DEF Init, Accounting
<1> QED
  BY <1>1, <1>2, <1>3 DEF ListenerInv

\* A thread that leaves serve_one() gives the flag back and keeps the rest.
LEMMA ReturnKeeps ==
  ASSUME ListenerInv, NEW t \in Threads, pc[t] \in ServeSteps,
         NEW s \in Statuses, Return(t, s), UNCHANGED <<path, object, mutex, after>>
  PROVE  ListenerInv'
<1>1. TypeOK'
  BY DEF ListenerInv, TypeOK, Return
<1>2. Locking' /\ Accounting'
  BY DEF ListenerInv, TypeOK, Locking, Accounting, Return
<1>3. Claiming' /\ Using'
  BY DEF ListenerInv, TypeOK, Claiming, Using, Return
<1> QED
  BY <1>1, <1>2, <1>3 DEF ListenerInv

\* A step inside serve_one() that only moves on, its descriptor copied before.
LEMMA ServeMoves ==
  ASSUME ListenerInv, NEW t \in Threads, NEW s \in UseSteps,
         pc[t] \in UseSteps, Goto(t, s),
         UNCHANGED <<path, object, mutex, after, serving, captured, expired, last>>
  PROVE  ListenerInv'
  BY DEF ListenerInv, TypeOK, Locking, Claiming, Using, Accounting

\* start() returns with a ready listener; the path is accounted for.
LEMMA UnlockKeeps ==
  ASSUME ListenerInv, NEW t \in Threads, pc[t] = "ready",
         NEW s \in Statuses, Unlock(t, s),
         UNCHANGED <<path, object, serving, after, captured, expired>>
  PROVE  ListenerInv'
  BY DEF ListenerInv, TypeOK, Locking, Claiming, Using, Accounting, Unlock

\* While a thread holds the mutex no other one is in start() or stop(), and none serves.
LEMMA OwnerIsAlone ==
  ASSUME ListenerInv, NEW t \in Threads, pc[t] \in StartSteps \cup StopSteps
  PROVE  /\ mutex = t
         /\ \A u \in Threads : pc[u] \notin UseSteps
         /\ \A u \in Threads \ {t} : pc[u] \in {"idle", "capture"}
  BY DEF ListenerInv, TypeOK, Locking, Using

\* start(): the callers' refusals, the check of the path and the bind.
LEMMA StartKeeps ==
  ASSUME ListenerInv, NEW t \in Threads,
         Start(t) \/ CheckAddress(t) \/ Bind(t)
  PROVE  ListenerInv'
<1>1. CASE Start(t)
  <2>1. TypeOK' /\ Locking' /\ Claiming'
    BY <1>1 DEF Start, ListenerInv, TypeOK, Locking, Claiming
  <2>2. Using' /\ Accounting'
    BY <1>1 DEF Start, ListenerInv, TypeOK, Using, Accounting
  <2> QED
    BY <2>1, <2>2 DEF ListenerInv
<1>2. CASE CheckAddress(t)
  BY <1>2, OwnerIsAlone
     DEF CheckAddress, Unlock, ListenerInv, TypeOK, Locking, Claiming, Using, Accounting
<1>3. CASE Bind(t)
  <2>1. CASE Unlock(t, "io_error") /\ UNCHANGED <<path, object>>
    BY <1>3, <2>1, OwnerIsAlone
       DEF Bind, Unlock, ListenerInv, TypeOK, Locking, Claiming, Using, Accounting
  <2>2. CASE /\ entry = NoEntry /\ binds < MaxBinds
             /\ binds' = binds + 1 /\ entry' = binds + 1 /\ listener' = binds + 1
             /\ owns' = TRUE
             /\ Goto(t, "secure")
             /\ UNCHANGED <<stuck, orphans, intruded, identity, mutex, last>>
    <3>1. binds + 1 \in Sockets
      BY <2>2 DEF ListenerInv, TypeOK
    <3>2. TypeOK'
      BY <1>3, <2>2, <3>1 DEF Bind, ListenerInv, TypeOK
    <3>3. Locking' /\ Claiming' /\ Using' /\ Accounting'
      BY <1>3, <2>2, <3>1, OwnerIsAlone
         DEF Bind, ListenerInv, TypeOK, Locking, Claiming, Using, Accounting
    <3> QED
      BY <3>2, <3>3 DEF ListenerInv
  <2> QED
    BY <1>3, <2>1, <2>2 DEF Bind
<1> QED
  BY <1>1, <1>2, <1>3

\* Closing the descriptor and turning to the path: nobody uses the descriptor, and
\* the socket is known by its identity or explained.
LEMMA WithdrawKeeps ==
  ASSUME ListenerInv, NEW t \in Threads, NEW s \in Statuses, Withdraw(t, s),
         \A u \in Threads : pc[u] \notin UseSteps,
         \A u \in Threads \ {t} : pc[u] \in {"idle", "capture"},
         pc[t] \notin ServeSteps, mutex' = t,
         identity' \in Sockets \cup {NoEntry, Foreign},
         stuck' \subseteq Sockets,
         entry \in Sockets => entry = identity' \/ entry \in stuck' \cup orphans,
         UNCHANGED <<entry, binds, orphans, intruded, owns, serving, captured,
                     expired, last>>
  PROVE  ListenerInv'
<1>1. TypeOK'
  BY DEF Withdraw, ListenerInv, TypeOK
<1>2. Locking' /\ Claiming' /\ Using'
  BY DEF Withdraw, ListenerInv, TypeOK, Locking, Claiming, Using
<1>3. Accounting'
  BY DEF Withdraw, ListenerInv, TypeOK, Accounting
<1> QED
  BY <1>1, <1>2, <1>3 DEF ListenerInv

\* Outside "secure" the owner of the mutex, and a quiet listener, know the socket.
LEMMA SocketIsKnown ==
  ASSUME ListenerInv, \A u \in Threads : pc[u] # "secure", entry \in Sockets
  PROVE  entry = identity \/ entry \in stuck \cup orphans
  BY DEF ListenerInv, Accounting

\* The other steps of start() and stop() before cleanup_socket_path().
LEMMA CloseKeeps ==
  ASSUME ListenerInv, NEW t \in Threads,
         Secure(t) \/ Ready(t) \/ Stop(t) \/ Close(t) \/ Destroy(t)
  PROVE  ListenerInv'
<1>1. CASE Secure(t)
  <2>1. CASE entry # NoEntry /\ identity' = entry /\ UNCHANGED stuck /\ Withdraw(t, "io_error")
    <3>1. identity' \in Sockets \cup {NoEntry, Foreign} /\ stuck' \subseteq Sockets
      BY <2>1 DEF ListenerInv, TypeOK
    <3> QED
      BY <1>1, <2>1, <3>1, WithdrawKeeps, OwnerIsAlone DEF Secure
  <2>2. CASE UNCHANGED identity /\ Stick /\ Withdraw(t, "io_error")
    <3>1. /\ identity' \in Sockets \cup {NoEntry, Foreign} /\ stuck' \subseteq Sockets
          /\ entry \in Sockets => entry \in stuck'
      BY <2>2 DEF Stick, ListenerInv, TypeOK
    <3> QED
      BY <1>1, <2>2, <3>1, WithdrawKeeps, OwnerIsAlone DEF Secure
  <2>3. CASE /\ entry # NoEntry /\ identity' = entry /\ UNCHANGED stuck
             /\ Goto(t, "ready") /\ UNCHANGED <<listener, after>>
    <3>1. TypeOK' /\ Locking' /\ Claiming'
      BY <1>1, <2>3, OwnerIsAlone DEF Secure, ListenerInv, TypeOK, Locking, Claiming
    <3>2. Using' /\ Accounting'
      BY <1>1, <2>3, OwnerIsAlone DEF Secure, ListenerInv, TypeOK, Using, Accounting
    <3> QED
      BY <3>1, <3>2 DEF ListenerInv
  <2> QED
    BY <1>1, <2>1, <2>2, <2>3 DEF Secure
<1>2. CASE Ready(t)
  <2>1. CASE Unlock(t, "listening") /\ UNCHANGED <<listener, after>>
    BY <1>2, <2>1, UnlockKeeps DEF Ready
  <2>2. CASE Withdraw(t, "audit_failed") /\ UNCHANGED <<mutex, last>>
    <3>1. identity' \in Sockets \cup {NoEntry, Foreign} /\ stuck' \subseteq Sockets
      BY <1>2 DEF Ready, ListenerInv, TypeOK
    <3>2. \A u \in Threads : pc[u] # "secure"
      BY <1>2, OwnerIsAlone DEF Ready
    <3> QED
      BY <1>2, <2>2, <3>1, <3>2, SocketIsKnown, WithdrawKeeps, OwnerIsAlone DEF Ready
  <2> QED
    BY <1>2, <2>1, <2>2 DEF Ready
<1>3. CASE Stop(t)
  <2>1. TypeOK' /\ Locking' /\ Claiming'
    BY <1>3 DEF Stop, ListenerInv, TypeOK, Locking, Claiming
  <2>2. Using' /\ Accounting'
    BY <1>3 DEF Stop, ListenerInv, TypeOK, Claiming, Using, Accounting
  <2> QED
    BY <2>1, <2>2 DEF ListenerInv
<1>4. CASE Close(t)
  <2>1. identity' \in Sockets \cup {NoEntry, Foreign} /\ stuck' \subseteq Sockets
    BY <1>4 DEF Close, ListenerInv, TypeOK
  <2>2. \A u \in Threads : pc[u] # "secure"
    BY <1>4, OwnerIsAlone DEF Close
  <2> QED
    BY <1>4, <2>1, <2>2, SocketIsKnown, WithdrawKeeps, OwnerIsAlone DEF Close
<1>5. CASE Destroy(t)
  <2>1. identity' \in Sockets \cup {NoEntry, Foreign} /\ stuck' \subseteq Sockets
    BY <1>5 DEF Destroy, ListenerInv, TypeOK
  <2> QED
    BY <1>5, <2>1, SocketIsKnown, WithdrawKeeps DEF Destroy
<1> QED
  BY <1>1, <1>2, <1>3, <1>4, <1>5

\* cleanup_socket_path() ends: no socket of ours is there, or it is explained.
LEMMA ForgetKeeps ==
  ASSUME ListenerInv, NEW t \in Threads, pc[t] \in {"stat", "unlink"},
         NEW removed \in BOOLEAN, Forget(t, removed),
         entry' \in {entry, NoEntry}, stuck' \subseteq Sockets,
         entry' \in Sockets => entry' \in stuck' \cup orphans,
         UNCHANGED <<binds, orphans, listener, serving, after, captured, expired>>
  PROVE  ListenerInv'
<1>1. /\ pc' = [pc EXCEPT ![t] = "idle"] /\ mutex' = Nobody /\ last' \in Statuses
      /\ owns' = FALSE /\ identity' = NoEntry /\ intruded' = FALSE
  BY DEF Forget, Unlock, ListenerInv, TypeOK
<1>2. TypeOK'
  BY <1>1 DEF ListenerInv, TypeOK
<1>3. Locking' /\ Claiming' /\ Using'
  BY <1>1, OwnerIsAlone DEF ListenerInv, TypeOK, Locking, Claiming, Using
<1>4. Accounting'
  BY <1>1 DEF ListenerInv, TypeOK, Accounting
<1> QED
  BY <1>2, <1>3, <1>4 DEF ListenerInv

\* The identity check and the unlink.  An entry that the check does not recognise
\* is no socket of ours that start() had recorded.
LEMMA CleanupKeeps ==
  ASSUME ListenerInv, NEW t \in Threads, Stat(t) \/ Unlink(t)
  PROVE  ListenerInv'
<1> stuck \subseteq Sockets
  BY DEF ListenerInv, TypeOK
<1>1. CASE Stat(t)
  <2>1. CASE entry = NoEntry /\ Forget(t, TRUE) /\ UNCHANGED stuck
    <3>1. entry' = NoEntry /\ entry' \notin Sockets
      BY <1>1, <2>1 DEF Stat
    <3> QED
      BY <1>1, <2>1, <3>1, ForgetKeeps DEF Stat
  <2>2. CASE entry \notin {NoEntry, identity} /\ Forget(t, FALSE) /\ UNCHANGED stuck
    <3>1. \A u \in Threads : pc[u] # "secure"
      BY <1>1, OwnerIsAlone DEF Stat
    <3> QED
      BY <1>1, <2>2, <3>1, SocketIsKnown, ForgetKeeps DEF Stat
  <2>3. CASE Forget(t, FALSE) /\ Stick
    BY <1>1, <2>3, ForgetKeeps DEF Stat, Stick
  <2>4. CASE /\ entry # NoEntry /\ entry = identity /\ Goto(t, "unlink")
             /\ UNCHANGED <<stuck, intruded, owns, identity, mutex, last>>
    BY <1>1, <2>4, OwnerIsAlone
       DEF Stat, ListenerInv, TypeOK, Locking, Claiming, Using, Accounting
  <2> QED
    BY <1>1, <2>1, <2>2, <2>3, <2>4 DEF Stat
<1>2. CASE Unlink(t)
  <2>1. CASE entry' = NoEntry /\ Forget(t, TRUE) /\ UNCHANGED stuck
    <3>1. entry' \notin Sockets
      BY <2>1
    <3> QED
      BY <1>2, <2>1, <3>1, ForgetKeeps DEF Unlink
  <2>2. CASE UNCHANGED entry /\ Forget(t, FALSE) /\ Stick
    BY <1>2, <2>2, ForgetKeeps DEF Unlink, Stick
  <2> QED
    BY <1>2, <2>1, <2>2 DEF Unlink
<1> QED
  BY <1>1, <1>2

\* serve_one(): the claim, the copy of the descriptor and the session.
LEMMA ServeKeeps ==
  ASSUME ListenerInv, NEW t \in Threads,
         Claim(t) \/ Capture(t) \/ ServeStep(t) \/ Expire(t)
  PROVE  ListenerInv'
<1>1. CASE Claim(t)
  <2>1. TypeOK' /\ Locking' /\ Claiming'
    BY <1>1 DEF Claim, ListenerInv, TypeOK, Locking, Claiming
  <2>2. Using' /\ Accounting'
    BY <1>1 DEF Claim, ListenerInv, TypeOK, Using, Accounting
  <2> QED
    BY <2>1, <2>2 DEF ListenerInv
<1>2. CASE Capture(t)
  <2>1. CASE Return(t, "not_listening") \/ Return(t, "invalid_configuration")
    BY <1>2, <2>1, ReturnKeeps DEF Capture
  <2>2. CASE /\ listener # NoEntry
             /\ captured' = [captured EXCEPT ![t] = listener]
             /\ expired' = [expired EXCEPT ![t] = FALSE]
             /\ Goto(t, "poll") /\ UNCHANGED <<serving, last>>
    <3>1. TypeOK' /\ Locking' /\ Claiming'
      BY <1>2, <2>2 DEF Capture, ListenerInv, TypeOK, Locking, Claiming
    <3>2. Using' /\ Accounting'
      BY <1>2, <2>2 DEF Capture, ListenerInv, TypeOK, Using, Accounting
    <3> QED
      BY <3>1, <3>2 DEF ListenerInv
  <2> QED
    BY <1>2, <2>1, <2>2 DEF Capture
<1>3. CASE Poll(t)
  BY <1>3, ReturnKeeps, ServeMoves DEF Poll
<1>4. CASE Accept(t)
  BY <1>4, ReturnKeeps, ServeMoves DEF Accept
<1>5. CASE Admit(t)
  BY <1>5, ReturnKeeps, ServeMoves DEF Admit
<1>6. CASE Session(t)
  BY <1>6, ReturnKeeps DEF Session
<1>7. CASE Expire(t)
  BY <1>7 DEF Expire, ListenerInv, TypeOK, Locking, Claiming, Using, Accounting
<1> QED
  BY <1>1, <1>2, <1>3, <1>4, <1>5, <1>6, <1>7 DEF ServeStep

\* Every step of a thread, of others at the path and a crash keeps the invariant.
LEMMA ListenerStep == ListenerInv /\ [Next]_vars => ListenerInv'
<1> SUFFICES ASSUME ListenerInv, [Next]_vars PROVE ListenerInv'
  OBVIOUS
<1>1. ASSUME NEW t \in Threads,
             StartStep(t) \/ StopStep(t) \/ ServeStep(t) \/ Call(t) \/ Expire(t)
      PROVE  ListenerInv'
  BY <1>1, StartKeeps, CloseKeeps, CleanupKeeps, ServeKeeps
     DEF StartStep, StopStep, Call
<1>2. CASE Others
  BY <1>2 DEF Others, ListenerInv, TypeOK, Locking, Claiming, Using, Accounting
<1>3. CASE Crash
  <2>1. TypeOK'
    BY <1>3 DEF Crash, ListenerInv, TypeOK
  <2>2. Locking' /\ Claiming' /\ Using' /\ Accounting'
    BY <1>3 DEF Crash, ListenerInv, TypeOK, Locking, Claiming, Using, Accounting
  <2> QED
    BY <2>1, <2>2 DEF ListenerInv
<1>4. CASE UNCHANGED vars
  BY <1>4 DEF vars, ListenerInv, TypeOK, Locking, Claiming, Using, Accounting
<1> QED
  BY <1>1, <1>2, <1>3, <1>4 DEF Next

(***************************************************************************)
(* What serve_one() uses after it gave lifecycle_mutex_ back is neither    *)
(* closed nor shared under it, for any number of threads in start(),       *)
(* serve_one() and stop() (local_listener.cpp, serve_one and stop).        *)
(***************************************************************************)
THEOREM DescriptorOutlivesUse == Spec => []ServingIsExclusive
<1>1. ListenerInv => ServingIsExclusive
  <2> SUFFICES ASSUME ListenerInv PROVE ServingIsExclusive
    OBVIOUS
  <2>1. ListenerOutlivesUse
    BY DEF ListenerInv, Using, ListenerOutlivesUse
  <2>2. LimiterIsPrivate
    BY DEF ListenerInv, Locking, Claiming, Using, LimiterIsPrivate
  <2> QED
    BY <2>1, <2>2 DEF ServingIsExclusive
<1> QED
  BY <1>1, ListenerInit, ListenerStep, PTL DEF Spec

(***************************************************************************)
(* A dead socket at the path, which would make every later start() refuse, *)
(* was left by a process that died, or the fstatat after bind() or one of  *)
(* the clean-up's two system calls failed on it; no other path through     *)
(* start(), stop() or the destructor leaves one, for any number of threads *)
(* and whatever others do at the path (local_listener.cpp:372, :623).      *)
(***************************************************************************)
THEOREM DeadSocketsAreExplained == Spec => []SocketsAreAccounted
<1>1. ListenerInv => SocketsAreAccounted
  BY DEF ListenerInv, TypeOK, Locking, Accounting, SocketsAreAccounted
<1> QED
  BY <1>1, ListenerInit, ListenerStep, PTL DEF Spec

(***************************************************************************)
(* Unless others touched the path in one of the two windows, what they put *)
(* there is never taken for ours: the recorded identity is a socket this   *)
(* process bound.                                                          *)
(***************************************************************************)
OursOnly ==
  ~ intruded =>
    /\ identity # Foreign
    /\ \A t \in Threads : pc[t] \in {"secure", "unlink"} => entry # Foreign

\* Calls keep OursOnly and remove a foreign entry only after an intrusion.
LEMMA OursStep ==
  ASSUME ListenerInv, OursOnly, [Next]_vars
  PROVE  OursOnly' /\ (entry = Foreign /\ entry' # Foreign => Others \/ intruded)
<1>1. ASSUME NEW t \in Threads, StartStep(t)
      PROVE  OursOnly' /\ (entry = Foreign => entry' = Foreign)
  <2>1. entry = Foreign => entry' = Foreign
    BY <1>1 DEF StartStep, CheckAddress, Bind, Secure, Ready
  <2>2. UNCHANGED intruded
    BY <1>1 DEF StartStep, CheckAddress, Bind, Secure, Ready
  <2>3. ~ intruded => identity' # Foreign
    BY <1>1 DEF StartStep, CheckAddress, Bind, Secure, Ready, OursOnly
  <2>4. ASSUME NEW u \in Threads, pc'[u] \in {"secure", "unlink"}, ~ intruded
        PROVE  entry' # Foreign
    BY <1>1, <2>4, OwnerIsAlone DEF StartStep, CheckAddress, Bind, Secure, Ready,
       Unlock, Withdraw, OursOnly, ListenerInv, TypeOK
  <2> QED
    BY <2>1, <2>2, <2>3, <2>4 DEF OursOnly
<1>2. ASSUME NEW t \in Threads, StopStep(t)
      PROVE  OursOnly' /\ (entry = Foreign /\ entry' # Foreign => intruded)
  <2>1. ~ intruded /\ entry = Foreign => entry' = Foreign
    BY <1>2 DEF StopStep, Close, Stat, Unlink, OursOnly
  <2>2. CASE Close(t)
    BY <1>2, <2>1, <2>2, OwnerIsAlone
       DEF Close, Withdraw, OursOnly, ListenerInv, TypeOK
  <2>3. ASSUME NEW removed \in BOOLEAN, Forget(t, removed), Stat(t) \/ Unlink(t)
        PROVE  OursOnly'
    <3>1. identity' # Foreign
      BY <2>3 DEF Forget
    <3>2. \A u \in Threads : pc'[u] \notin {"secure", "unlink"}
      BY <2>3, OwnerIsAlone DEF Forget, Unlock, Stat, Unlink, ListenerInv, TypeOK
    <3> QED
      BY <3>1, <3>2 DEF OursOnly
  <2>4. CASE /\ pc[t] = "stat" /\ entry # NoEntry /\ entry = identity
             /\ Goto(t, "unlink") /\ UNCHANGED <<entry, intruded, identity>>
    BY <2>4 DEF OursOnly
  <2> QED
    BY <1>2, <2>1, <2>2, <2>3, <2>4 DEF StopStep, Stat, Unlink
<1>3. ASSUME NEW t \in Threads, ServeStep(t) \/ Call(t) \/ Expire(t)
      PROVE  OursOnly' /\ UNCHANGED entry
  <2>1. UNCHANGED <<entry, identity, intruded>>
    BY <1>3 DEF ServeStep, Poll, Accept, Admit, Session, Expire,
       Call, Start, Stop, Destroy, Claim, Capture
  <2>2. ASSUME NEW u \in Threads, pc'[u] \in {"secure", "unlink"}
        PROVE  pc[u] \in {"secure", "unlink"}
    BY <1>3, <2>2 DEF ServeStep, Poll, Accept, Admit, Session, Expire, Return,
       Call, Start, Stop, Destroy, Claim, Capture, Withdraw, ListenerInv, TypeOK
  <2> QED
    BY <2>1, <2>2 DEF OursOnly
<1>4. CASE Others
  BY <1>4 DEF Others, OursOnly
<1>5. CASE Crash
  BY <1>5 DEF Crash, OursOnly
<1>6. CASE UNCHANGED vars
  BY <1>6 DEF vars, OursOnly
<1> QED
  BY <1>1, <1>2, <1>3, <1>4, <1>5, <1>6 DEF Next, Crash, vars

(***************************************************************************)
(* A name that somebody replaced is preserved: no call of start(), stop()  *)
(* or the destructor removes an entry that is not a socket of this         *)
(* process, unless it was put there between bind() and the fstatat that    *)
(* records the identity or between the comparison of device and inode and  *)
(* the unlink (local_listener.cpp, cleanup_socket_path).                   *)
(***************************************************************************)
THEOREM ForeignEntryIsKept == Spec => ReplacementIsPreserved
<1>1. Init => OursOnly
  BY DEF Init, OursOnly
<1>2. ListenerInv /\ OursOnly /\ [Next]_vars =>
        OursOnly' /\ [entry = Foreign /\ entry' # Foreign => Others \/ intruded]_vars
  BY OursStep
<1> QED
  BY <1>1, <1>2, ListenerInit, ListenerStep, PTL DEF Spec, ReplacementIsPreserved
=============================================================================
