----------------------------- MODULE ProcessLock -----------------------------
(***************************************************************************)
(* DaemonProcessLock::acquire, run by several gateholdd processes that     *)
(* share a transaction root.  flock locks an inode; the entry              *)
(* .gateholdd.lock only names one, and others may remove the entry or put  *)
(* another file there.                                                     *)
(***************************************************************************)
EXTENDS Integers

CONSTANTS
  Processes,
  MaxInodes   \* bound: lock files created
ASSUME LockAssumption == MaxInodes \in Nat

VARIABLES
  entry,    \* inode named .gateholdd.lock, or NoFile
  inodes,   \* inodes used so far
  locked,   \* inodes with an exclusive flock, and the process that has it
  opened,   \* lock_descriptor of each process: the inode it opened, or NoFile
  pc        \* step of acquire(), "running" with the lock, or "down"

vars == <<entry, inodes, locked, opened, pc>>

NoFile == 0
Inodes == 1 .. MaxInodes
Free(i) == \A p \in Processes : <<i, p>> \notin locked
Holders == {p \in Processes : pc[p] = "running"}

Goto(p, step) == pc' = [pc EXCEPT ![p] = step]

\* The process ends or gives up: its descriptor is closed, which drops the lock.
Release(p) ==
  /\ locked' = {l \in locked : l[2] # p}
  /\ opened' = [opened EXCEPT ![p] = NoFile]
  /\ Goto(p, "down")

-----------------------------------------------------------------------------
\* A daemon is started: open the root, inspect the entry (it may be unsafe).
Inspect(p) ==
  /\ pc[p] = "down"
  /\ Goto(p, "open")
  /\ UNCHANGED <<entry, inodes, locked, opened>>

\* openat(O_CREAT) without O_EXCL: the first process to come creates the file.
Open(p) ==
  /\ pc[p] = "open"
  /\ \/ /\ entry # NoFile
        /\ opened' = [opened EXCEPT ![p] = entry] /\ UNCHANGED <<entry, inodes>>
     \/ /\ entry = NoFile /\ inodes < MaxInodes
        /\ inodes' = inodes + 1 /\ entry' = inodes + 1
        /\ opened' = [opened EXCEPT ![p] = inodes + 1]
  /\ Goto(p, "flock")
  /\ UNCHANGED locked

\* LOCK_EX | LOCK_NB: contention refuses at once (GH-DMN-1005).
Flock(p) ==
  /\ pc[p] = "flock"
  /\ \/ /\ Free(opened[p])
        /\ locked' = locked \cup {<<opened[p], p>>}
        /\ Goto(p, "verify") /\ UNCHANGED opened
     \/ ~ Free(opened[p]) /\ Release(p)
  /\ UNCHANGED <<entry, inodes>>

\* Plausible bug: the lock is trusted without looking at the entry again.
VerifyNothing(p) ==
  /\ pc[p] = "verify"
  /\ Goto(p, "running") /\ UNCHANGED <<entry, inodes, locked, opened>>

\* The locked inode must still be the one the entry names.
Verify(p) ==
  /\ pc[p] = "verify"
  /\ \/ entry = opened[p] /\ Goto(p, "running") /\ UNCHANGED <<locked, opened>>
     \/ entry # opened[p] /\ Release(p)
  /\ UNCHANGED <<entry, inodes>>

\* Any failing system call of acquire(), a normal exit, or a crash.
End(p) ==
  /\ pc[p] # "down"
  /\ Release(p)
  /\ UNCHANGED <<entry, inodes>>

\* Somebody removes the lock file or installs a fresh one (a restore, a cleanup
\* job).  ADR-0018 forbids that while a daemon runs: the entry is not the lease.
Replace ==
  /\ Holders = {}
  /\ \/ entry # NoFile /\ entry' = NoFile /\ UNCHANGED inodes
     \/ inodes < MaxInodes /\ inodes' = inodes + 1 /\ entry' = inodes + 1
  /\ UNCHANGED <<locked, opened, pc>>

-----------------------------------------------------------------------------
Init ==
  /\ entry = NoFile /\ inodes = 0 /\ locked = {}
  /\ opened = [p \in Processes |-> NoFile] /\ pc = [p \in Processes |-> "down"]

Next ==
  \/ \E p \in Processes : Inspect(p) \/ Open(p) \/ Flock(p) \/ Verify(p) \/ End(p)
  \/ Replace

Spec == Init /\ [][Next]_vars

-----------------------------------------------------------------------------
\* Entries, descriptors, locks and steps have their types.
TypeOK ==
  /\ entry \in Inodes \cup {NoFile} /\ inodes \in 0 .. MaxInodes
  /\ locked \subseteq Inodes \X Processes
  /\ opened \in [Processes -> Inodes \cup {NoFile}]
  /\ pc \in [Processes -> {"down", "open", "flock", "verify", "running"}]

(***************************************************************************)
(* ADR-0018: "At most one correctly operating daemon can recover or serve  *)
(* a given transaction root at a time", also when the entry was removed or *)
(* replaced between another process's openat and flock.                    *)
(***************************************************************************)
MutualExclusion == \A p, q \in Holders : p = q
==============================================================================
