----------------------- MODULE DaemonProcesses_proofs -----------------------
(***************************************************************************)
(* The daemons of a machine together: they use the process lock and the    *)
(* journal as those are specified, so what is proved of lock and journal   *)
(* holds of the system, and start-up is audited and finds the socket path  *)
(* free or knows why it is not.  For any number of processes.              *)
(***************************************************************************)
EXTENDS DaemonProcesses, SequenceTheorems, TLAPS

-----------------------------------------------------------------------------
(* The process lock, for any number of processes and of replacements of    *)
(* the lock file.                                                          *)

(***************************************************************************)
(* The inductive invariant.  Mutual exclusion alone is not inductive: it   *)
(* needs that no two processes lock one inode, that a process past flock   *)
(* still has its lock, and that a running one locked the inode the entry   *)
(* names, which is what the second look at the entry in acquire() secures. *)
(***************************************************************************)
OneLocker == \A i \in Inodes, p, q \in Processes :
  <<i, p>> \in locked /\ <<i, q>> \in locked => p = q
Locking == \A p \in Processes :
  pc[p] \in {"verify", "running"} => <<opened[p], p>> \in locked
Opened == \A p \in Processes :
  pc[p] \in {"flock", "verify", "running"} => opened[p] \in Inodes
Naming == \A p \in Processes : pc[p] = "running" => opened[p] = entry

LockInv == TypeOK /\ OneLocker /\ Locking /\ Opened /\ Naming

USE LockAssumption DEF Inodes, NoFile, Goto

\* With no file, no process and no lock, the invariant holds at once.
LEMMA LockInit == Init => LockInv
  BY DEF Init, LockInv, TypeOK, OneLocker, Locking, Opened, Naming

\* Closing a descriptor drops only that process's locks.
LEMMA ReleaseKeeps ==
  ASSUME LockInv, NEW p \in Processes, Release(p), UNCHANGED <<entry, inodes>>
  PROVE  LockInv'
<1>1. TypeOK'
  BY DEF LockInv, TypeOK, Release
<1>2. OneLocker'
  BY DEF LockInv, OneLocker, Release
<1>3. ASSUME NEW q \in Processes, pc'[q] \in {"verify", "running"}
      PROVE  q # p /\ pc[q] = pc'[q] /\ opened'[q] = opened[q]
  BY <1>3 DEF LockInv, TypeOK, Release
<1>4. Locking'
  <2> SUFFICES ASSUME NEW q \in Processes, pc'[q] \in {"verify", "running"}
               PROVE  <<opened'[q], q>> \in locked'
    BY DEF Locking
  <2>1. <<opened[q], q>> \in locked /\ q # p /\ opened'[q] = opened[q]
    BY <1>3 DEF LockInv, Locking
  <2> QED
    BY <2>1 DEF Release
<1>5. Opened'
  BY DEF LockInv, TypeOK, Opened, Release
<1>6. Naming'
  BY DEF LockInv, TypeOK, Naming, Release
<1> QED
  BY <1>1, <1>2, <1>4, <1>5, <1>6 DEF LockInv

\* Every step of every process, and every replacement of the file, keeps it.
LEMMA LockStep == LockInv /\ [Next]_vars => LockInv'
<1> SUFFICES ASSUME LockInv, [Next]_vars PROVE LockInv'
  OBVIOUS
<1>1. ASSUME NEW p \in Processes, Inspect(p) PROVE LockInv'
  BY <1>1 DEF LockInv, TypeOK, OneLocker, Locking, Opened, Naming, Inspect
<1>2. ASSUME NEW p \in Processes, Open(p) PROVE LockInv'
  <2>1. TypeOK'
    BY <1>2 DEF LockInv, TypeOK, Open
  <2>2. OneLocker' /\ Locking' /\ Opened'
    BY <1>2 DEF LockInv, TypeOK, OneLocker, Locking, Opened, Open
  <2>3. Naming'
    BY <1>2 DEF LockInv, TypeOK, Opened, Naming, Open
  <2> QED
    BY <2>1, <2>2, <2>3 DEF LockInv
<1>3. ASSUME NEW p \in Processes, Flock(p) PROVE LockInv'
  <2>1. CASE Release(p)
    BY <1>3, <2>1, ReleaseKeeps DEF Flock
  <2>2. CASE /\ Free(opened[p]) /\ locked' = locked \cup {<<opened[p], p>>}
             /\ Goto(p, "verify") /\ UNCHANGED opened
    <3>1. pc[p] = "flock" /\ opened[p] \in Inodes /\ UNCHANGED <<entry, inodes>>
      BY <1>3 DEF Flock, LockInv, Opened
    <3>2. TypeOK'
      BY <2>2, <3>1 DEF LockInv, TypeOK
    <3>3. OneLocker'
      BY <2>2, <3>1 DEF LockInv, OneLocker, Free
    <3>4. Locking' /\ Opened' /\ Naming'
      BY <2>2, <3>1 DEF LockInv, TypeOK, Locking, Opened, Naming
    <3> QED
      BY <3>2, <3>3, <3>4 DEF LockInv
  <2> QED
    BY <1>3, <2>1, <2>2 DEF Flock
<1>4. ASSUME NEW p \in Processes, Verify(p) PROVE LockInv'
  <2>1. CASE Release(p)
    BY <1>4, <2>1, ReleaseKeeps DEF Verify
  <2>2. CASE entry = opened[p] /\ Goto(p, "running") /\ UNCHANGED <<locked, opened>>
    BY <1>4, <2>2 DEF Verify, LockInv, TypeOK, OneLocker, Locking, Opened, Naming
  <2> QED
    BY <1>4, <2>1, <2>2 DEF Verify
<1>5. ASSUME NEW p \in Processes, End(p) PROVE LockInv'
  BY <1>5, ReleaseKeeps DEF End
<1>6. CASE Replace
  <2>1. \A p \in Processes : pc[p] # "running"
    BY <1>6 DEF Replace, Holders
  <2> QED
    BY <1>6, <2>1 DEF Replace, LockInv, TypeOK, OneLocker, Locking, Opened, Naming
<1>7. CASE UNCHANGED vars
  BY <1>7 DEF vars, LockInv, TypeOK, OneLocker, Locking, Opened, Naming
<1> QED
  BY <1>1, <1>2, <1>3, <1>4, <1>5, <1>6, <1>7 DEF Next

(***************************************************************************)
(* At most one daemon runs on a transaction root, for any number of        *)
(* daemons started and ended in any order (process_lock.cpp, acquire).     *)
(***************************************************************************)
THEOREM OneDaemonRuns == Spec => []MutualExclusion
<1>1. LockInv => MutualExclusion
  BY DEF LockInv, OneLocker, Locking, Opened, Naming, MutualExclusion, Holders
<1> QED
  BY <1>1, LockInit, LockStep, PTL DEF Spec

HIDE LockAssumption DEF Inodes, NoFile, Goto

-----------------------------------------------------------------------------
(* The journal, for any number of writers, entry size and limit: an append *)
(* reported as successful is never lost, lines are never mixed and the     *)
(* limit holds, wherever appends fail, writers die and power is lost.      *)

\* What the writers do to the journal, in whatever order their processes run.
JournalNext ==
  \/ \E w \in Writers : OpenJournal(w) \/ JournalStep(w) \/ DropAppend(w)
  \/ PowerLoss

JournalSpec == JournalInit /\ [][JournalNext]_journalVars

(***************************************************************************)
(* The inductive invariant.  From flock to close a writer has the file to  *)
(* itself; every append has a number of its own.                           *)
(***************************************************************************)
Exclusive ==
  \A w \in Writers : step[w] \in {"write", "fsync", "close"} => owner = w

Numbered ==
  /\ \A w \in Writers : append[w] <= appends /\ (append[w] = 0 <=> step[w] = "idle")
  /\ \A v, w \in Writers : append[v] = append[w] /\ append[v] # 0 => v = w
  /\ \A j \in 1 .. Len(file) : file[j][1] <= appends

\* No unit is in the file twice, and none that its writer has not written yet.
Distinct == \A i, j \in 1 .. Len(file) : file[i] = file[j] => i = j
Fresh == \A w \in Writers : step[w] \in {"flock", "write"} =>
  \A j \in 1 .. Len(file) : file[j][1] = append[w] => file[j][2] <= written[w]

\* A half-written entry is the end of the file, and there is room for its rest.
Growing == \A w \in Writers :
  /\ step[w] \in {"idle", "flock"} => written[w] = 0
  /\ step[w] = "write" =>
       /\ written[w] < EntrySize /\ written[w] <= Len(file)
       /\ \A i \in 1 .. written[w] :
            file[Len(file) - written[w] + i] = <<append[w], i>>
       /\ Len(file) - written[w] + EntrySize <= MaximumJournal

\* Entry a is in one piece within the first n units of f.
Stored(f, n, a) ==
  \E k \in 0 .. n - EntrySize : \A i \in 1 .. EntrySize : f[k + i] = <<a, i>>
Placed == \A w \in Writers :
  /\ step[w] = "fsync" => Stored(file, Len(file), append[w])
  /\ step[w] \in {"close", "sync_directory"} => Stored(file, synced, append[w])

\* What was reported is durable, and so is the name of the file it is in.
Kept == \A a \in appended : Stored(file, synced, a)
Named == appended # {} => link = "durable"
OldIsKept == \A j \in 1 .. Len(file) : file[j][1] = 0 => 0 \in appended

JournalInv ==
  /\ JournalTypes /\ Exclusive /\ Numbered /\ Distinct /\ Fresh /\ Growing
  /\ Placed /\ Kept /\ Named /\ OldIsKept /\ OnlyFailuresTear /\ WithinCapacity

USE JournalAssumption DEF Steps, GotoJournal

\* A unit is the number of an append and a place in its entry.
LEMMA Units ==
  ASSUME JournalTypes
  PROVE  /\ Len(file) \in Nat
         /\ \A j \in 1 .. Len(file) :
              /\ file[j] \in (0 .. MaxAppends) \X (1 .. EntrySize)
              /\ file[j][1] \in 0 .. MaxAppends /\ file[j][2] \in 1 .. EntrySize
              /\ file[j] = <<file[j][1], file[j][2]>>
<1>1. Len(file) \in Nat
  BY LenProperties DEF JournalTypes
<1>2. \A j \in 1 .. Len(file) : file[j] \in (0 .. MaxAppends) \X (1 .. EntrySize)
  BY ElementOfSeq DEF JournalTypes
<1> QED
  BY <1>1, <1>2

\* No journal, or one old entry, and nobody writing.
LEMMA JournalInitHolds == JournalInit => JournalInv
<1> SUFFICES ASSUME JournalInit PROVE JournalInv
  OBVIOUS
<1> DEFINE old == [i \in 1 .. EntrySize |-> <<0, i>>]
           unit == (0 .. MaxAppends) \X (1 .. EntrySize)
<1>1. old \in Seq(unit) /\ Len(old) = EntrySize
  <2>1. old \in [1 .. EntrySize -> unit]
    OBVIOUS
  <2>2. old \in Seq(unit)
    BY <2>1, SeqDef
  <2>3. DOMAIN old = 1 .. Len(old) /\ Len(old) \in Nat
    BY <2>2, LenProperties
  <2> QED
    BY <2>2, <2>3
<1>2. <<>> \in Seq(unit) /\ Len(<<>>) = 0
  BY EmptySeq
<1>3. \/ file = <<>> /\ Len(file) = 0 /\ appended = {}
      \/ /\ file = old /\ Len(file) = EntrySize /\ file # <<>>
         /\ appended = {0} /\ link = "durable" /\ EntrySize <= MaximumJournal
  BY <1>1, <1>2 DEF JournalInit
<1>4. JournalTypes
  <2>1. file \in Seq(unit)
    BY <1>1, <1>2, <1>3
  <2>2. appended \subseteq 0 .. MaxAppends /\ synced \in 0 .. Len(file)
    BY <1>3 DEF JournalInit
  <2> QED
    BY <2>1, <2>2 DEF JournalInit, JournalTypes
<1>5. Exclusive /\ Fresh /\ Growing /\ Placed
  <2>1. \A w \in Writers : step[w] = "idle" /\ written[w] = 0
    BY DEF JournalInit
  <2> QED
    BY <2>1 DEF Exclusive, Fresh, Growing, Placed
<1>6. Distinct /\ Named /\ OldIsKept /\ WithinCapacity
  BY <1>3 DEF JournalInit, Distinct, Named, OldIsKept, WithinCapacity
<1>7. Numbered
  <2>1. \A j \in 1 .. Len(file) : file[j][1] = 0
    BY <1>3
  <2> QED
    BY <2>1 DEF JournalInit, Numbered
<1>8. Kept
  <2>1. CASE appended = {0}
    <3>1. file = old /\ synced = EntrySize
      BY <1>3, <2>1 DEF JournalInit
    <3>2. \A i \in 1 .. EntrySize : file[0 + i] = <<0, i>>
      BY <3>1
    <3>3. Stored(file, synced, 0)
      BY <3>1, <3>2 DEF Stored
    <3> QED
      BY <2>1, <3>3 DEF Kept
  <2> QED
    BY <1>3, <2>1 DEF Kept
<1>9. OnlyFailuresTear
  BY <1>3 DEF OnlyFailuresTear
<1> QED
  BY <1>4, <1>5, <1>6, <1>7, <1>8, <1>9 DEF JournalInv

\* Nothing happens to the journal.
LEMMA StutterHolds == ASSUME JournalInv, UNCHANGED journalVars PROVE JournalInv'
<1>1. JournalTypes' /\ Exclusive' /\ Numbered' /\ Distinct'
  BY DEF JournalInv, journalVars, JournalTypes, Exclusive, Numbered, Distinct
<1>2. Fresh' /\ Growing' /\ Placed' /\ Kept' /\ Named' /\ OldIsKept'
  BY DEF JournalInv, journalVars, Fresh, Growing, Placed, Kept, Named, OldIsKept
<1>3. OnlyFailuresTear' /\ WithinCapacity'
  BY DEF JournalInv, journalVars, OnlyFailuresTear, WithinCapacity
<1> QED
  BY <1>1, <1>2, <1>3 DEF JournalInv

\* append() of w ends early, or its process dies: the file keeps what it has.
LEMMA ReturnHolds ==
  ASSUME JournalInv, NEW w \in Writers, ReturnJournal(w),
         UNCHANGED <<file, link, synced, appends, appended>>
  PROVE  JournalInv'
<1>1. JournalTypes'
  BY DEF JournalInv, JournalTypes, ReturnJournal
<1>2. /\ \A v \in Writers : v # w => step'[v] = step[v] /\ append'[v] = append[v]
                                     /\ written'[v] = written[v]
      /\ step'[w] = "idle" /\ append'[w] = 0 /\ written'[w] = 0
  BY DEF JournalInv, JournalTypes, ReturnJournal
<1>3. Exclusive'
  BY <1>2 DEF JournalInv, Exclusive, ReturnJournal
<1>4. Numbered'
  <2>1. appends \in Nat
    BY DEF JournalInv, JournalTypes
  <2> QED
    BY <1>2, <2>1 DEF JournalInv, Numbered
<1>5. Distinct' /\ Fresh'
  BY <1>2 DEF JournalInv, Distinct, Fresh
<1>6. Growing'
  <2> SUFFICES ASSUME NEW v \in Writers, v # w PROVE Growing!(v)'
    BY <1>2 DEF Growing
  <2> QED
    BY <1>2 DEF JournalInv, Growing
<1>7. Placed'
  BY <1>2 DEF JournalInv, Placed
<1>8. Kept' /\ Named' /\ OldIsKept' /\ WithinCapacity'
  BY DEF JournalInv, Kept, Named, OldIsKept, WithinCapacity
<1>9. OnlyFailuresTear'
  <2> SUFFICES ASSUME NEW i \in 1 .. Len(file) - 1, file[i][1] # file[i + 1][1]
               PROVE  /\ file[i + 1][2] = 1
                      /\ file[i][2] = EntrySize \/
                           file[i][1] \notin appended \cup {append'[v] : v \in Writers}
    BY DEF OnlyFailuresTear
  <2>1. /\ file[i + 1][2] = 1
        /\ file[i][2] = EntrySize \/
             file[i][1] \notin appended \cup {append[v] : v \in Writers}
    BY DEF JournalInv, OnlyFailuresTear
  <2>2. file[i][1] = 0 => 0 \in appended
    BY Units DEF JournalInv, OldIsKept
  <2> QED
    BY <1>2, <2>1, <2>2
<1> QED
  BY <1>1, <1>3, <1>4, <1>5, <1>6, <1>7, <1>8, <1>9 DEF JournalInv

\* A new append has a number no unit in the file has.
LEMMA OpenHolds ==
  ASSUME JournalInv, NEW w \in Writers, OpenJournal(w)
  PROVE  JournalInv'
<1>1. CASE UNCHANGED <<step, appends, append, link>>
  <2>1. UNCHANGED journalVars
    BY <1>1 DEF OpenJournal, journalVars
  <2> QED
    BY <2>1, StutterHolds
<1>2. CASE /\ GotoJournal(w, "flock")
           /\ appends' = appends + 1 /\ append' = [append EXCEPT ![w] = appends + 1]
           /\ link' = (IF link = "absent" THEN "linked" ELSE link)
  <2>1. /\ step[w] = "idle" /\ appends < MaxAppends
        /\ UNCHANGED <<file, synced, owner, written, appended>>
    BY DEF OpenJournal
  <2>2. JournalTypes'
    BY <1>2, <2>1 DEF JournalInv, JournalTypes
  <2>3. /\ \A v \in Writers : v # w => step'[v] = step[v] /\ append'[v] = append[v]
        /\ step'[w] = "flock" /\ append'[w] = appends + 1 /\ written[w] = 0
        /\ appends \in Nat
    BY <1>2, <2>1 DEF JournalInv, JournalTypes, Growing
  <2>4. \A j \in 1 .. Len(file) : file[j][1] # appends + 1
    BY <2>3, Units DEF JournalInv, Numbered
  <2>5. Exclusive' /\ Distinct' /\ WithinCapacity'
    BY <2>1, <2>3 DEF JournalInv, Exclusive, Distinct, WithinCapacity
  <2>6. Growing'
    <3> SUFFICES ASSUME NEW v \in Writers PROVE Growing!(v)'
      BY DEF Growing
    <3>1. CASE v = w
      BY <2>1, <2>3, <3>1
    <3>2. CASE v # w
      BY <2>1, <2>3, <3>2 DEF JournalInv, Growing
    <3> QED
      BY <3>1, <3>2
  <2>7. Numbered'
    <3>1. \A v \in Writers : append[v] \in Nat
      BY DEF JournalInv, JournalTypes
    <3>2. \A v \in Writers : append[v] <= appends
      BY DEF JournalInv, Numbered
    <3>3. \A v \in Writers : append[v] \in Nat /\ append[v] <= appends
      BY <3>1, <3>2
    <3>4. \A v \in Writers : append'[v] <= appends + 1
                             /\ (append'[v] = 0 <=> step'[v] = "idle")
      BY <2>3, <3>3 DEF JournalInv, Numbered
    <3>5. \A u, v \in Writers : append'[u] = append'[v] /\ append'[u] # 0 => u = v
      BY <2>3, <3>3 DEF JournalInv, Numbered
    <3>6. ASSUME NEW j \in 1 .. Len(file) PROVE file[j][1] <= appends + 1
      <4>1. file[j][1] \in Nat /\ file[j][1] <= appends
        BY Units DEF JournalInv, Numbered
      <4> QED
        BY <2>3, <4>1
    <3> QED
      BY <1>2, <2>1, <3>4, <3>5, <3>6 DEF Numbered
  <2>8. Fresh'
    BY <2>1, <2>3, <2>4 DEF JournalInv, Fresh
  <2>9. Placed' /\ Kept'
    BY <2>1, <2>3 DEF JournalInv, Placed, Kept
  <2>10. Named' /\ OldIsKept'
    BY <1>2, <2>1 DEF JournalInv, Named, OldIsKept
  <2>11. OnlyFailuresTear'
    <3> SUFFICES ASSUME NEW i \in 1 .. Len(file) - 1, file[i][1] # file[i + 1][1]
                 PROVE  /\ file[i + 1][2] = 1
                        /\ file[i][2] = EntrySize \/
                             file[i][1] \notin appended \cup {append'[v] : v \in Writers}
      BY <2>1 DEF OnlyFailuresTear
    <3>1. /\ file[i + 1][2] = 1
          /\ file[i][2] = EntrySize \/
               file[i][1] \notin appended \cup {append[v] : v \in Writers}
      BY DEF JournalInv, OnlyFailuresTear
    <3>2. file[i][1] # appends + 1
      BY <2>4, Units DEF JournalInv
    <3> QED
      BY <2>3, <3>1, <3>2
  <2> QED
    BY <2>2, <2>5, <2>6, <2>7, <2>8, <2>9, <2>10, <2>11 DEF JournalInv
<1> QED
  BY <1>1, <1>2 DEF OpenJournal

\* The lock is granted to one writer at a time, and only if the entry fits.
LEMMA LockHolds ==
  ASSUME JournalInv, NEW w \in Writers, LockJournal(w)
  PROVE  JournalInv'
<1>1. CASE ReturnJournal(w)
  BY <1>1, ReturnHolds DEF LockJournal
<1>2. CASE /\ HasLock(w) /\ ~ ExceedsCapacity
           /\ owner' = w /\ GotoJournal(w, "write") /\ UNCHANGED <<append, written>>
  <2>1. /\ step[w] = "flock" /\ owner = Nobody /\ Len(file) + EntrySize <= MaximumJournal
        /\ UNCHANGED <<file, link, synced, append, written, appends, appended>>
    BY <1>2, Units DEF LockJournal, HasLock, ExceedsCapacity, JournalInv
  <2>2. /\ \A v \in Writers : v # w => step'[v] = step[v]
        /\ step'[w] = "write" /\ written[w] = 0
    BY <1>2, <2>1 DEF JournalInv, JournalTypes, Growing
  <2>3. JournalTypes'
    BY <1>2, <2>1 DEF JournalInv, JournalTypes
  <2>4. Exclusive'
    BY <1>2, <2>1, <2>2 DEF JournalInv, Exclusive
  <2>5. Numbered' /\ Distinct' /\ Fresh'
    BY <2>1, <2>2 DEF JournalInv, Numbered, Distinct, Fresh
  <2>6. Growing'
    <3>1. Growing!(w)'
      BY <2>1, <2>2, Units DEF JournalInv
    <3>2. ASSUME NEW v \in Writers, v # w PROVE Growing!(v)'
      BY <2>1, <2>2, <3>2 DEF JournalInv, Growing
    <3> QED
      BY <3>1, <3>2 DEF Growing
  <2>7. Placed'
    BY <2>1, <2>2 DEF JournalInv, Placed
  <2>8. Kept' /\ Named' /\ OldIsKept' /\ WithinCapacity' /\ OnlyFailuresTear'
    BY <2>1 DEF JournalInv, Kept, Named, OldIsKept, WithinCapacity, OnlyFailuresTear
  <2> QED
    BY <2>3, <2>4, <2>5, <2>6, <2>7, <2>8 DEF JournalInv
<1> QED
  BY <1>1, <1>2 DEF LockJournal

\* What is stored stays stored when units are added behind it.
LEMMA StoredStays ==
  ASSUME NEW f, NEW g, NEW m \in Nat, NEW n \in Nat, NEW a, m <= n,
         \A j \in 1 .. m : g[j] = f[j], Stored(f, m, a)
  PROVE  Stored(g, n, a)
<1>1. PICK k \in 0 .. m - EntrySize : \A i \in 1 .. EntrySize : f[k + i] = <<a, i>>
  BY DEF Stored
<1>2. \A i \in 1 .. EntrySize : g[k + i] = <<a, i>>
  BY <1>1
<1>3. k \in 0 .. n - EntrySize
  OBVIOUS
<1> QED
  BY <1>2, <1>3 DEF Stored

\* An entry that is in the file whole does not end in the middle of it.
LEMMA StoredIsWhole ==
  ASSUME JournalTypes, Distinct, NEW a, NEW n \in 0 .. Len(file), Stored(file, n, a),
         Len(file) # 0, file[Len(file)][1] = a
  PROVE  file[Len(file)][2] = EntrySize
<1>1. PICK k \in 0 .. n - EntrySize : \A i \in 1 .. EntrySize : file[k + i] = <<a, i>>
  BY DEF Stored
<1> DEFINE i == file[Len(file)][2]
<1>2. i \in 1 .. EntrySize /\ file[Len(file)] = <<a, i>> /\ Len(file) \in Nat
  BY Units
<1>3. file[k + i] = file[Len(file)]
  BY <1>1, <1>2
<1>4. k + i \in 1 .. Len(file) /\ Len(file) \in 1 .. Len(file)
  BY <1>2
<1>5. k + i = Len(file)
  BY <1>3, <1>4 DEF Distinct
<1> QED
  BY <1>2, <1>5

\* Writing n units leaves the old ones alone and numbers the new ones on.
LEMMA WriteAdds ==
  ASSUME JournalTypes, NEW w \in Writers, NEW n \in 1 .. EntrySize - written[w],
         file' = file \o [i \in 1 .. n |-> <<append[w], written[w] + i>>]
  PROVE  /\ file' \in Seq((0 .. MaxAppends) \X (1 .. EntrySize))
         /\ Len(file') = Len(file) + n
         /\ \A j \in 1 .. Len(file) : file'[j] = file[j]
         /\ \A j \in Len(file) + 1 .. Len(file) + n :
              file'[j] = <<append[w], written[w] + j - Len(file)>>
<1> DEFINE unit == (0 .. MaxAppends) \X (1 .. EntrySize)
           new == [i \in 1 .. n |-> <<append[w], written[w] + i>>]
<1>1. /\ append[w] \in 0 .. MaxAppends /\ written[w] \in 0 .. EntrySize
      /\ file \in Seq(unit) /\ Len(file) \in Nat /\ n \in Nat
  BY Units DEF JournalTypes
<1>2. new \in [1 .. n -> unit]
  <2> SUFFICES ASSUME NEW i \in 1 .. n PROVE <<append[w], written[w] + i>> \in unit
    OBVIOUS
  <2>1. PICK wr \in Nat : wr = written[w] /\ wr + n <= EntrySize
    BY <1>1
  <2>2. written[w] + i \in 1 .. EntrySize
    BY <2>1
  <2> QED
    BY <1>1, <2>2
<1>3. new \in Seq(unit)
  BY <1>1, <1>2, SeqDef
<1>4. Len(new) = n
  <2>1. DOMAIN new = 1 .. Len(new) /\ Len(new) \in Nat
    BY <1>3, LenProperties
  <2> QED
    BY <1>1, <2>1
<1>5. \A j \in 1 .. n : new[j] = <<append[w], written[w] + j>>
  OBVIOUS
<1>6. file' = file \o new
  OBVIOUS
<1> HIDE DEF new, unit
<1>7. PICK old \in Nat : old = Len(file)
  BY <1>1
<1>8. /\ file \o new \in Seq(unit) /\ Len(file \o new) = Len(file) + Len(new)
      /\ \A j \in 1 .. Len(file) + Len(new) :
           (file \o new)[j] = IF j <= Len(file) THEN file[j] ELSE new[j - Len(file)]
  BY <1>1, <1>3, ConcatProperties
<1>9. /\ file' \in Seq(unit) /\ Len(file') = old + n
      /\ \A j \in 1 .. old + n : file'[j] = IF j <= old THEN file[j] ELSE new[j - old]
  BY <1>4, <1>6, <1>7, <1>8
<1>10. ASSUME NEW j \in 1 .. old PROVE file'[j] = file[j]
  BY <1>9
<1>11. ASSUME NEW j \in old + 1 .. old + n
      PROVE  file'[j] = <<append[w], written[w] + j - old>>
  <2>1. j - old \in 1 .. n /\ j \in 1 .. old + n /\ ~ (j <= old)
    BY <1>1
  <2>2. file'[j] = new[j - old]
    BY <1>9, <2>1
  <2>3. new[j - old] = <<append[w], written[w] + (j - old)>>
    BY <1>5, <2>1
  <2>4. written[w] + (j - old) = written[w] + j - old
    BY <1>1
  <2> QED
    BY <2>2, <2>3, <2>4
<1> QED
  BY <1>7, <1>9, <1>10, <1>11 DEF unit

\* The writer that has the file adds n units of its entry.
Adds(w, n) ==
  /\ step[w] = "write" /\ n \in 1 .. EntrySize - written[w]
  /\ file' = file \o [i \in 1 .. n |-> <<append[w], written[w] + i>>]
  /\ written' = [written EXCEPT ![w] = @ + n]
  /\ IF written[w] + n = EntrySize THEN GotoJournal(w, "fsync") ELSE UNCHANGED step
  /\ UNCHANGED <<link, synced, owner, append, appends, appended>>

LEMMA WriteHolds ==
  ASSUME JournalInv, NEW w \in Writers, NEW n \in Nat, Adds(w, n)
  PROVE  JournalInv'
<1>1. step[w] = "write"
  BY DEF Adds
<1>2. /\ synced' = synced /\ append' = append /\ owner' = owner
      /\ appends' = appends /\ appended' = appended /\ link' = link
  BY DEF Adds
<1>3. PICK old \in Nat, wr \in Nat, id \in Nat :
        old = Len(file) /\ wr = written[w] /\ id = append[w]
  BY Units DEF JournalInv, JournalTypes
<1>4. /\ id <= MaxAppends /\ wr < EntrySize /\ synced \in 0 .. old /\ owner = w
      /\ wr <= old /\ old - wr + EntrySize <= MaximumJournal
      /\ id # 0 /\ id <= appends /\ appends \in Nat /\ n >= 1 /\ wr + n <= EntrySize
  <2>1. id <= MaxAppends /\ synced \in 0 .. old /\ appends \in Nat
    BY <1>3 DEF JournalInv, JournalTypes
  <2>2. wr < EntrySize /\ wr <= old /\ old - wr + EntrySize <= MaximumJournal
    BY <1>1, <1>3 DEF JournalInv, Growing
  <2>3. id # 0 /\ id <= appends /\ owner = w
    BY <1>1, <1>3 DEF JournalInv, Numbered, Exclusive
  <2>4. n >= 1 /\ wr + n <= EntrySize
    BY <1>3, <2>2 DEF Adds
  <2> QED
    BY <2>1, <2>2, <2>3, <2>4
<1>5. \A i, j \in 1 .. old : file[i] = file[j] => i = j
  BY <1>3 DEF JournalInv, Distinct
<1>6. \A i \in 1 .. wr : file[old - wr + i] = <<id, i>>
  BY <1>1, <1>3 DEF JournalInv, Growing
<1>7. /\ Len(file') = old + n
      /\ \A j \in 1 .. old : file'[j] = file[j]
      /\ \A j \in old + 1 .. old + n : file'[j] = <<id, wr + j - old>>
  BY <1>3, WriteAdds DEF Adds, JournalInv
<1>8. Len(file') = old + n
  BY <1>7
<1>9. \A j \in 1 .. old : file'[j] = file[j]
  BY <1>7
<1>10. ASSUME NEW j \in Nat, j > old, j <= old + n
       PROVE  file'[j] = <<id, wr + j - old>>
  BY <1>7, <1>10
<1>11. /\ \A v \in Writers : v # w => step'[v] = step[v] /\ written'[v] = written[v]
      /\ written'[w] = wr + n
      /\ step'[w] = IF wr + n = EntrySize THEN "fsync" ELSE "write"
  BY <1>1, <1>3 DEF Adds, JournalInv, JournalTypes
<1>12. \A v \in Writers : v # w => step[v] \in {"idle", "flock", "sync_directory"}
  BY <1>4 DEF JournalInv, JournalTypes, Exclusive
<1>13. JournalTypes'
  <2>1. file' \in Seq((0 .. MaxAppends) \X (1 .. EntrySize)) /\ synced' \in 0 .. Len(file')
    <3>1. file' \in Seq((0 .. MaxAppends) \X (1 .. EntrySize))
      BY WriteAdds DEF Adds, JournalInv
    <3>2. synced' \in 0 .. Len(file')
      BY <1>2, <1>4, <1>7
    <3> QED
      BY <3>1, <3>2
  <2>2. written' \in [Writers -> 0 .. EntrySize] /\ step' \in [Writers -> Steps]
    <3>1. written' = [written EXCEPT ![w] = wr + n]
      BY <1>3 DEF Adds
    <3>2. wr + n \in 0 .. EntrySize
      BY <1>4
    <3>3. step' \in [Writers -> Steps]
      BY DEF Adds, JournalInv, JournalTypes
    <3> QED
      BY <3>1, <3>2, <3>3 DEF JournalInv, JournalTypes
  <2> QED
    BY <1>2, <2>1, <2>2 DEF JournalInv, JournalTypes
<1>14. Exclusive'
  BY <1>2, <1>4, <1>11 DEF JournalInv, Exclusive
<1>15. Numbered'
  <2>1. ASSUME NEW j \in 1 .. old + n PROVE file'[j][1] <= appends
    <3>1. CASE j <= old
      <4>1. j \in 1 .. Len(file) /\ file'[j] = file[j]
        BY <1>3, <1>9, <3>1
      <4> QED
        BY <4>1 DEF JournalInv, Numbered
    <3>2. CASE j > old
      <4>1. file'[j] = <<id, wr + j - old>>
        BY <1>10, <3>2
      <4> QED
        BY <1>4, <4>1
    <3> QED
      BY <3>1, <3>2
  <2>2. \A v \in Writers : step'[v] = "idle" <=> step[v] = "idle"
    BY <1>1, <1>11
  <2> QED
    BY <1>2, <1>7, <2>1, <2>2 DEF JournalInv, Numbered
<1>16. \A j \in 1 .. old : file[j][1] = id => file[j][2] <= wr
  BY <1>1, <1>3 DEF JournalInv, Fresh
<1>17. Distinct'
  <2> SUFFICES ASSUME NEW i \in 1 .. old + n, NEW j \in 1 .. old + n,
                      file'[i] = file'[j], i <= j
               PROVE  i = j
    BY <1>7 DEF Distinct
  <2>1. CASE j <= old
    <3>1. i \in 1 .. old /\ j \in 1 .. old
      BY <2>1
    <3>2. file[i] = file[j]
      BY <1>9, <3>1
    <3> QED
      BY <1>5, <3>1, <3>2
  <2>2. CASE i <= old /\ j > old
    <3>1. i \in 1 .. old
      BY <2>2
    <3>2. file[i] = <<id, wr + j - old>>
      <4>1. file'[i] = file[i]
        BY <1>9, <3>1
      <4>2. file'[j] = <<id, wr + j - old>>
        BY <1>10, <2>2
      <4> QED
        BY <4>1, <4>2
    <3>3. wr + j - old <= wr
      BY <1>16, <3>1, <3>2
    <3> QED
      BY <2>2, <3>3
  <2>3. CASE i > old
    <3>1. file'[i] = <<id, wr + i - old>>
      BY <1>10, <2>3
    <3>2. file'[j] = <<id, wr + j - old>>
      BY <1>10, <2>3
    <3>3. file'[i][2] = wr + i - old
      BY <3>1
    <3>4. file'[j][2] = wr + j - old
      BY <3>2
    <3> QED
      BY <3>3, <3>4
  <2> QED
    BY <1>4, <2>1, <2>2, <2>3
<1>18. Fresh'
  <2> SUFFICES ASSUME NEW v \in Writers, step'[v] \in {"flock", "write"},
                      NEW j \in 1 .. old + n, file'[j][1] = append[v]
               PROVE  file'[j][2] <= written'[v]
    BY <1>2, <1>7 DEF Fresh
  <2>1. CASE v = w
    <3>1. CASE j <= old
      <4>1. j \in 1 .. old /\ file'[j] = file[j]
        BY <1>9, <3>1
      <4>2. file[j][2] <= wr /\ file[j][2] \in 1 .. EntrySize
        BY <1>3, <1>16, <2>1, <4>1, Units DEF JournalInv
      <4> QED
        BY <1>11, <2>1, <4>1, <4>2
    <3>2. CASE j > old
      <4>1. file'[j] = <<id, wr + j - old>>
        BY <1>10, <3>2
      <4> QED
        BY <1>11, <2>1, <4>1
    <3> QED
      BY <3>1, <3>2
  <2>2. CASE v # w
    <3>1. step[v] \in {"flock", "write"} /\ written'[v] = written[v]
      BY <1>11, <2>2
    <3>2. append[v] # id
      BY <1>3, <1>4, <2>2 DEF JournalInv, Numbered
    <3>3. j <= old
      <4> SUFFICES ASSUME j > old PROVE FALSE
        OBVIOUS
      <4>1. file'[j] = <<id, wr + j - old>>
        BY <1>10
      <4> QED
        BY <3>2, <4>1
    <3>4. j \in 1 .. old /\ file'[j] = file[j]
      BY <1>9, <3>3
    <3> QED
      BY <1>3, <3>1, <3>4 DEF JournalInv, Fresh
  <2> QED
    BY <2>1, <2>2
<1>19. ASSUME NEW i \in 1 .. wr + n PROVE file'[old - wr + i] = <<id, i>>
  <2>1. CASE i <= wr
    <3>1. i \in 1 .. wr
      BY <2>1
    <3>2. file[old - wr + i] = <<id, i>>
      BY <1>6, <3>1
    <3>3. old - wr + i \in 1 .. old
      BY <1>4, <2>1
    <3> QED
      BY <1>9, <3>2, <3>3
  <2>2. CASE i > wr
    <3>1. PICK j \in Nat : j = old - wr + i /\ j > old /\ j <= old + n
      BY <1>4, <2>2
    <3>2. file'[j] = <<id, wr + j - old>>
      BY <1>10, <3>1
    <3>3. wr + j - old = i
      BY <3>1
    <3> QED
      BY <3>1, <3>2, <3>3
  <2> QED
    BY <2>1, <2>2
<1>20. Growing'
  <2>1. ASSUME NEW v \in Writers, v # w PROVE Growing!(v)'
    BY <1>11, <1>12, <2>1 DEF JournalInv, Growing
  <2>2. CASE wr + n = EntrySize
    BY <1>11, <2>1, <2>2 DEF Growing
  <2>3. CASE wr + n # EntrySize
    <3>1. written'[w] < EntrySize /\ written'[w] <= Len(file')
      BY <1>4, <1>8, <1>11, <2>3
    <3>2. Len(file') - written'[w] + EntrySize <= MaximumJournal
      BY <1>4, <1>8, <1>11
    <3>3. ASSUME NEW i \in 1 .. written'[w]
          PROVE  file'[Len(file') - written'[w] + i] = <<id, i>>
      <4>1. Len(file') - written'[w] + i = old - wr + i /\ i \in 1 .. wr + n
        BY <1>8, <1>11
      <4> QED
        BY <1>19, <4>1
    <3>4. step'[w] = "write"
      BY <1>11, <2>3
    <3> QED
      BY <1>2, <1>3, <2>1, <3>1, <3>2, <3>3, <3>4 DEF Growing
  <2> QED
    BY <2>2, <2>3
<1>21. Placed'
  <2>1. ASSUME NEW a, Stored(file, synced, a) PROVE Stored(file', synced, a)
    <3>1. synced \in Nat /\ \A j \in 1 .. synced : file'[j] = file[j]
      BY <1>4, <1>9
    <3> QED
      BY <2>1, <3>1, StoredStays
  <2>2. ASSUME NEW v \in Writers, v # w PROVE Placed!(v)'
    <3>1. step[v] = "sync_directory" => Stored(file, synced, append[v])
      BY DEF JournalInv, Placed
    <3>2. step[v] = "sync_directory" => Stored(file', synced, append[v])
      BY <2>1, <3>1
    <3> QED
      BY <1>2, <1>11, <1>12, <2>2, <3>2
  <2>3. Placed!(w)'
    <3> SUFFICES ASSUME wr + n = EntrySize
                 PROVE  Stored(file', Len(file'), id)
      BY <1>2, <1>3, <1>11
    <3> DEFINE k == old - wr
    <3>1. k \in 0 .. Len(file') - EntrySize
      BY <1>4, <1>8
    <3>2. ASSUME NEW i \in 1 .. EntrySize PROVE file'[k + i] = <<id, i>>
      BY <1>19
    <3> QED
      BY <3>1, <3>2 DEF Stored
  <2> QED
    BY <2>2, <2>3 DEF Placed
<1>22. Kept'
  <2> SUFFICES ASSUME NEW a \in appended PROVE Stored(file', synced, a)
    BY <1>2 DEF Kept
  <2>1. Stored(file, synced, a)
    BY DEF JournalInv, Kept
  <2>2. synced \in Nat /\ \A j \in 1 .. synced : file'[j] = file[j]
    BY <1>4, <1>9
  <2> QED
    BY <2>1, <2>2, StoredStays
<1>23. Named' /\ OldIsKept' /\ WithinCapacity'
  <2>1. Named' /\ WithinCapacity'
    BY <1>2, <1>4, <1>8 DEF JournalInv, Named, WithinCapacity
  <2>2. ASSUME NEW j \in 1 .. old + n, file'[j][1] = 0 PROVE 0 \in appended
    <3>1. CASE j <= old
      <4>1. j \in 1 .. Len(file) /\ file'[j] = file[j]
        BY <1>3, <1>9, <3>1
      <4> QED
        BY <2>2, <4>1 DEF JournalInv, OldIsKept
    <3>2. CASE j > old
      <4>1. file'[j] = <<id, wr + j - old>>
        BY <1>10, <3>2
      <4> QED
        BY <1>4, <2>2, <4>1
    <3> QED
      BY <3>1, <3>2
  <2> QED
    BY <1>2, <1>8, <2>1, <2>2 DEF OldIsKept
<1>24. OnlyFailuresTear'
  <2> SUFFICES ASSUME NEW i \in 1 .. old + n - 1, file'[i][1] # file'[i + 1][1]
               PROVE  /\ file'[i + 1][2] = 1
                      /\ file'[i][2] = EntrySize \/
                           file'[i][1] \notin appended \cup {append[v] : v \in Writers}
    BY <1>2, <1>8 DEF OnlyFailuresTear
  <2>1. CASE i < old
    <3>1. i \in 1 .. Len(file) - 1 /\ file'[i] = file[i] /\ file'[i + 1] = file[i + 1]
      BY <1>3, <1>9, <2>1
    <3> QED
      BY <3>1 DEF JournalInv, OnlyFailuresTear
  <2>2. CASE i > old
    <3>1. file'[i] = <<id, wr + i - old>>
      BY <1>10, <2>2
    <3>2. file'[i + 1] = <<id, wr + (i + 1) - old>>
      BY <1>10, <2>2
    <3> QED
      BY <3>1, <3>2
  <2>3. CASE i = old
    <3>1. /\ file'[i] = file[old] /\ old # 0
          /\ file'[i + 1] = <<id, wr + 1>>
      <4>1. file'[i] = file[old] /\ old # 0
        BY <1>9, <2>3
      <4>2. file'[i + 1] = <<id, wr + (i + 1) - old>>
        BY <1>10, <2>3
      <4>3. wr + (i + 1) - old = wr + 1
        BY <2>3
      <4> QED
        BY <4>1, <4>2, <4>3
    <3>2. wr = 0
      <4> SUFFICES ASSUME wr # 0 PROVE FALSE
        OBVIOUS
      <4>1. wr \in 1 .. wr
        BY <1>4
      <4>2. file[old - wr + wr] = <<id, wr>>
        BY <1>6, <4>1
      <4>3. file[old] = <<id, wr>>
        BY <1>4, <4>2
      <4> QED
        BY <3>1, <4>3
    <3>3. ASSUME NEW a \in appended \cup {append[v] : v \in Writers}, file[old][1] = a
          PROVE  file[old][2] = EntrySize
      <4>1. CASE a \in appended
        BY <1>3, <1>4, <3>1, <3>3, <4>1, StoredIsWhole DEF JournalInv, Kept
      <4>2. ASSUME NEW v \in Writers, a = append[v], a \notin appended
            PROVE  file[old][2] = EntrySize
        <5>1. v # w
          <6>1. file[old][1] # id
            BY <3>1
          <6> QED
            BY <1>3, <3>3, <4>2, <6>1
        <5>2. file[old][2] \in 1 .. EntrySize
          BY <1>3, <3>1, Units DEF JournalInv
        <5>3. CASE step[v] = "idle"
          <6>1. a = 0
            BY <4>2, <5>3 DEF JournalInv, Numbered
          <6> QED
            BY <1>3, <3>1, <3>3, <4>2, <6>1 DEF JournalInv, OldIsKept
        <5>4. CASE step[v] = "flock"
          <6>1. written[v] = 0
            BY <5>4 DEF JournalInv, Growing
          <6>2. file[old][2] <= written[v]
            BY <1>3, <3>1, <3>3, <4>2, <5>4 DEF JournalInv, Fresh
          <6> QED
            BY <5>2, <6>1, <6>2
        <5>5. CASE step[v] = "sync_directory"
          BY <1>3, <1>4, <3>1, <3>3, <4>2, <5>5, StoredIsWhole DEF JournalInv, Placed
        <5> QED
          BY <1>12, <5>1, <5>3, <5>4, <5>5
      <4> QED
        BY <4>1, <4>2
    <3> QED
      BY <1>4, <3>1, <3>2, <3>3
  <2> QED
    BY <1>4, <2>1, <2>2, <2>3
<1> QED
  BY <1>13, <1>14, <1>15, <1>17, <1>18, <1>20, <1>21, <1>22, <1>23, <1>24 DEF JournalInv

\* fsync, and the close that gives the lock back: what w wrote becomes durable.
LEMMA SyncHolds ==
  ASSUME JournalInv, NEW w \in Writers, SyncEntry(w) \/ CloseJournal(w)
  PROVE  JournalInv'
<1>1. CASE ReturnJournal(w) /\ UNCHANGED <<file, link, synced, appends, appended>>
  BY <1>1, ReturnHolds
<1>2. CASE /\ \/ step[w] = "fsync" /\ synced' = Len(file) /\ GotoJournal(w, "close")
                 /\ UNCHANGED owner
              \/ /\ step[w] = "close" /\ GotoJournal(w, "sync_directory")
                 /\ owner' = Nobody /\ UNCHANGED synced
           /\ UNCHANGED <<file, link, append, written, appends, appended>>
  <2>1. PICK old \in Nat : old = Len(file)
    BY Units DEF JournalInv
  <2>2. /\ file' = file /\ link' = link /\ append' = append /\ written' = written
        /\ appends' = appends /\ appended' = appended
    BY <1>2
  <2>3. synced \in 0 .. old /\ synced' \in {synced, old}
    BY <1>2, <2>1 DEF JournalInv, JournalTypes
  <2>4. /\ \A v \in Writers : v # w => step'[v] = step[v]
        /\ step'[w] \in {"close", "sync_directory"} /\ step[w] \in {"fsync", "close"}
    BY <1>2 DEF JournalInv, JournalTypes
  <2>5. JournalTypes'
    <3>1. synced' \in 0 .. Len(file')
      BY <2>1, <2>2, <2>3
    <3>2. step' \in [Writers -> Steps] /\ owner' \in Writers \cup {Nobody}
      BY <1>2 DEF JournalInv, JournalTypes
    <3> QED
      BY <2>2, <3>1, <3>2 DEF JournalInv, JournalTypes
  <2>6. Exclusive'
    BY <1>2, <2>4 DEF JournalInv, JournalTypes, Exclusive
  <2>7. Numbered' /\ Distinct' /\ OldIsKept' /\ Named'
    BY <2>2, <2>4 DEF JournalInv, Numbered, Distinct, OldIsKept, Named
  <2>8. Fresh' /\ OnlyFailuresTear' /\ WithinCapacity'
    BY <2>2, <2>4 DEF JournalInv, Fresh, OnlyFailuresTear, WithinCapacity
  <2>9. Growing'
    <3> SUFFICES ASSUME NEW v \in Writers PROVE Growing!(v)'
      BY DEF Growing
    <3> QED
      BY <2>2, <2>4 DEF JournalInv, Growing
  <2>10. ASSUME NEW a, Stored(file, synced, a) PROVE Stored(file', synced', a)
    BY <2>2, <2>3, <2>10, StoredStays
  <2>11. Placed'
    <3>1. ASSUME NEW v \in Writers, v # w PROVE Placed!(v)'
      BY <2>2, <2>4, <2>10, <3>1 DEF JournalInv, Placed
    <3>2. Stored(file', synced', append[w])
      BY <1>2, <2>2, <2>10 DEF JournalInv, Placed
    <3> QED
      BY <2>2, <2>4, <3>1, <3>2 DEF Placed
  <2>12. Kept'
    BY <2>2, <2>10 DEF JournalInv, Kept
  <2> QED
    BY <2>5, <2>6, <2>7, <2>8, <2>9, <2>11, <2>12 DEF JournalInv
<1> QED
  BY <1>1, <1>2 DEF SyncEntry, CloseJournal

\* The directory is synced and the append reported: its line is durable by then.
LEMMA DirectoryHolds ==
  ASSUME JournalInv, NEW w \in Writers, SyncDirectory(w)
  PROVE  JournalInv'
<1>1. CASE UNCHANGED <<link, appended>>
  BY <1>1, ReturnHolds DEF SyncDirectory
<1>2. CASE link' = "durable" /\ appended' = appended \cup {append[w]}
  <2>1. /\ step[w] = "sync_directory" /\ file' = file /\ synced' = synced
        /\ appends' = appends
    BY DEF SyncDirectory
  <2>2. /\ \A v \in Writers : v # w => step'[v] = step[v] /\ append'[v] = append[v]
                                       /\ written'[v] = written[v]
        /\ step'[w] = "idle" /\ append'[w] = 0 /\ written'[w] = 0
    BY DEF SyncDirectory, ReturnJournal, JournalInv, JournalTypes
  <2>3. JournalTypes'
    <3>1. appended' \subseteq 0 .. MaxAppends /\ link' \in {"absent", "linked", "durable"}
      BY <1>2 DEF JournalInv, JournalTypes
    <3>2. /\ step' \in [Writers -> Steps] /\ append' \in [Writers -> 0 .. MaxAppends]
          /\ written' \in [Writers -> 0 .. EntrySize]
          /\ owner' \in Writers \cup {Nobody}
      BY DEF SyncDirectory, ReturnJournal, JournalInv, JournalTypes
    <3> QED
      BY <2>1, <3>1, <3>2 DEF JournalInv, JournalTypes
  <2>4. Exclusive'
    BY <2>2 DEF SyncDirectory, ReturnJournal, JournalInv, Exclusive
  <2>5. Numbered'
    <3>1. appends \in Nat
      BY DEF JournalInv, JournalTypes
    <3> QED
      BY <2>1, <2>2, <3>1 DEF JournalInv, Numbered
  <2>6. Distinct' /\ Fresh' /\ WithinCapacity'
    BY <2>1, <2>2 DEF JournalInv, Distinct, Fresh, WithinCapacity
  <2>7. Growing'
    <3> SUFFICES ASSUME NEW v \in Writers PROVE Growing!(v)'
      BY DEF Growing
    <3> QED
      BY <2>1, <2>2 DEF JournalInv, Growing
  <2>8. Placed' /\ Kept'
    BY <1>2, <2>1, <2>2 DEF JournalInv, Placed, Kept
  <2>9. Named' /\ OldIsKept'
    BY <1>2, <2>1 DEF JournalInv, Named, OldIsKept
  <2>10. OnlyFailuresTear'
    <3> SUFFICES ASSUME NEW i \in 1 .. Len(file) - 1, file[i][1] # file[i + 1][1]
                 PROVE  /\ file[i + 1][2] = 1
                        /\ file[i][2] = EntrySize \/
                             file[i][1] \notin appended' \cup {append'[v] : v \in Writers}
      BY <2>1 DEF OnlyFailuresTear
    <3>1. /\ file[i + 1][2] = 1
          /\ file[i][2] = EntrySize \/
               file[i][1] \notin appended \cup {append[v] : v \in Writers}
      BY DEF JournalInv, OnlyFailuresTear
    <3>2. file[i][1] = 0 => 0 \in appended
      BY Units DEF JournalInv, OldIsKept
    <3> QED
      BY <1>2, <2>2, <3>1, <3>2
  <2> QED
    BY <2>3, <2>4, <2>5, <2>6, <2>7, <2>8, <2>9, <2>10 DEF JournalInv
<1> QED
  BY <1>1, <1>2 DEF SyncDirectory

\* Cut(n): power is lost and the first n units survive, with the durable ones.
Cut(n) ==
  /\ \A w \in Writers : step[w] = "idle"
  /\ file' = SubSeq(file, 1, n) /\ synced' = n /\ link' = "durable"
  /\ UNCHANGED <<owner, step, append, written, appends, appended>>

LEMMA CutHolds ==
  ASSUME JournalInv, NEW n \in Nat, n \in synced .. Len(file), Cut(n)
  PROVE  JournalInv'
<1>1. PICK old \in Nat : old = Len(file) /\ synced \in 0 .. old /\ n <= old
  BY Units DEF JournalInv, JournalTypes
<1>2. /\ synced' = n /\ append' = append /\ appends' = appends /\ written' = written
      /\ appended' = appended /\ link' = "durable" /\ step' = step
      /\ \A w \in Writers : step[w] = "idle"
  BY DEF Cut
<1>3. /\ file' \in Seq((0 .. MaxAppends) \X (1 .. EntrySize)) /\ Len(file') = n
      /\ \A j \in 1 .. n : file'[j] = file[j]
  <2> DEFINE unit == (0 .. MaxAppends) \X (1 .. EntrySize)
  <2>1. \A j \in 1 .. n : file[j] \in unit
    BY <1>1, Units DEF JournalInv
  <2> HIDE DEF unit
  <2>2. /\ SubSeq(file, 1, n) \in Seq(unit)
        /\ Len(SubSeq(file, 1, n)) = IF 1 <= n THEN n - 1 + 1 ELSE 0
        /\ \A j \in 1 .. n - 1 + 1 : SubSeq(file, 1, n)[j] = file[1 + j - 1]
    BY <2>1, SubSeqProperties
  <2>3. file' = SubSeq(file, 1, n)
    BY DEF Cut
  <2> QED
    BY <2>2, <2>3 DEF unit
<1>4. Len(file') = n
  BY <1>3
<1>5. \A j \in 1 .. n : file'[j] = file[j]
  BY <1>3
<1>6. JournalTypes'
  BY <1>2, <1>3 DEF Cut, JournalInv, JournalTypes
<1>7. Exclusive' /\ Fresh' /\ Placed' /\ Named'
  BY <1>2 DEF Exclusive, Fresh, Placed, Named
<1>8. Growing'
  BY <1>2 DEF JournalInv, Growing
<1>9. Numbered'
  BY <1>1, <1>2, <1>4, <1>5 DEF JournalInv, Numbered
<1>10. Distinct' /\ OldIsKept' /\ WithinCapacity'
  <2>1. WithinCapacity'
    BY <1>1, <1>4 DEF JournalInv, WithinCapacity
  <2>2. OldIsKept'
    BY <1>1, <1>2, <1>4, <1>5 DEF JournalInv, OldIsKept
  <2>3. Distinct'
    <3> SUFFICES ASSUME NEW i \in 1 .. n, NEW j \in 1 .. n, file'[i] = file'[j]
                 PROVE  i = j
      BY <1>4 DEF Distinct
    <3>1. i \in 1 .. Len(file) /\ j \in 1 .. Len(file) /\ file[i] = file[j]
      BY <1>1, <1>5
    <3> QED
      BY <3>1 DEF JournalInv, Distinct
  <2> QED
    BY <2>1, <2>2, <2>3
<1>11. Kept'
  <2> SUFFICES ASSUME NEW a \in appended PROVE Stored(file', n, a)
    BY <1>2 DEF Kept
  <2>1. Stored(file, synced, a)
    BY DEF JournalInv, Kept
  <2>2. synced \in Nat /\ synced <= n /\ \A j \in 1 .. synced : file'[j] = file[j]
    BY <1>1, <1>5
  <2> QED
    BY <2>1, <2>2, StoredStays
<1>12. OnlyFailuresTear'
  <2> SUFFICES ASSUME NEW i \in 1 .. n - 1, file'[i][1] # file'[i + 1][1]
               PROVE  /\ file'[i + 1][2] = 1
                      /\ file'[i][2] = EntrySize \/
                           file'[i][1] \notin appended \cup {append[v] : v \in Writers}
    BY <1>2, <1>4 DEF OnlyFailuresTear
  <2>1. i \in 1 .. Len(file) - 1 /\ file'[i] = file[i] /\ file'[i + 1] = file[i + 1]
    BY <1>1, <1>5
  <2> QED
    BY <2>1 DEF JournalInv, OnlyFailuresTear
<1> QED
  BY <1>6, <1>7, <1>8, <1>9, <1>10, <1>11, <1>12 DEF JournalInv

\* A loss of power: an unnamed file goes, a named one keeps its durable prefix.
LEMMA PowerHolds == ASSUME JournalInv, PowerLoss PROVE JournalInv'
<1>1. CASE /\ link # "absent" /\ link' = "durable"
           /\ \E n \in synced .. Len(file) : file' = SubSeq(file, 1, n) /\ synced' = n
  <2>1. PICK n \in synced .. Len(file) : file' = SubSeq(file, 1, n) /\ synced' = n
    BY <1>1
  <2>2. n \in Nat
    BY Units DEF JournalInv, JournalTypes
  <2>3. Cut(n)
    BY <1>1, <2>1 DEF PowerLoss, Cut
  <2> QED
    BY <2>2, <2>3, CutHolds
<1>2. CASE link = "linked" /\ link' = "absent" /\ file' = <<>> /\ synced' = 0
  <2>1. /\ appended = {} /\ \A w \in Writers : step[w] = "idle"
        /\ UNCHANGED <<owner, step, append, written, appends, appended>>
    BY <1>2 DEF PowerLoss, JournalInv, Named
  <2>2. file' \in Seq((0 .. MaxAppends) \X (1 .. EntrySize)) /\ Len(file') = 0
    BY <1>2, EmptySeq
  <2>3. JournalTypes'
    BY <1>2, <2>1, <2>2 DEF JournalInv, JournalTypes
  <2>4. Exclusive' /\ Fresh' /\ Placed' /\ Named' /\ Kept'
    BY <2>1 DEF Exclusive, Fresh, Placed, Named, Kept
  <2>5. Growing'
    BY <2>1 DEF JournalInv, Growing
  <2>6. Numbered' /\ Distinct' /\ OldIsKept' /\ WithinCapacity' /\ OnlyFailuresTear'
    BY <2>1, <2>2 DEF JournalInv, Numbered, Distinct, OldIsKept, WithinCapacity,
       OnlyFailuresTear
  <2> QED
    BY <2>3, <2>4, <2>5, <2>6 DEF JournalInv
<1> QED
  BY <1>1, <1>2 DEF PowerLoss

\* Every step of every writer, its death and a loss of power keep the invariant.
LEMMA JournalStepHolds == JournalInv /\ [JournalNext]_journalVars => JournalInv'
<1> SUFFICES ASSUME JournalInv, [JournalNext]_journalVars PROVE JournalInv'
  OBVIOUS
<1>1. ASSUME NEW w \in Writers, WriteEntry(w) PROVE JournalInv'
  <2>1. CASE ReturnJournal(w) /\ UNCHANGED file
    BY <1>1, <2>1, ReturnHolds DEF WriteEntry
  <2>2. ASSUME NEW n \in 1 .. EntrySize - written[w],
               file' = file \o [i \in 1 .. n |-> <<append[w], written[w] + i>>],
               written' = [written EXCEPT ![w] = @ + n],
               IF written[w] + n = EntrySize THEN GotoJournal(w, "fsync") ELSE UNCHANGED step,
               UNCHANGED <<owner, append>>
        PROVE  JournalInv'
    <3>1. n \in Nat
      BY DEF JournalInv, JournalTypes
    <3>2. Adds(w, n)
      BY <1>1, <2>2 DEF WriteEntry, Adds
    <3> QED
      BY <3>1, <3>2, WriteHolds
  <2> QED
    BY <1>1, <2>1, <2>2 DEF WriteEntry
<1>2. ASSUME NEW w \in Writers, JournalStep(w) PROVE JournalInv'
  BY <1>1, <1>2, LockHolds, SyncHolds, DirectoryHolds DEF JournalStep
<1>3. ASSUME NEW w \in Writers, DropAppend(w) PROVE JournalInv'
  BY <1>3, ReturnHolds DEF DropAppend
<1> QED
  BY <1>2, <1>3, OpenHolds, PowerHolds, StutterHolds DEF JournalNext

(***************************************************************************)
(* An append is reported as successful only when its line will still be in *)
(* the file, whole and in one piece, for any number of writers, sizes of   *)
(* entry and failures (operation_journal.cpp, append).                     *)
(***************************************************************************)
THEOREM ReportedEventsStay == JournalSpec => []AppendedIsDurable
<1>1. JournalInv => AppendedIsDurable
  <2> SUFFICES ASSUME JournalInv, NEW a \in appended
               PROVE  \E k \in 0 .. Len(file) - EntrySize :
                        \A i \in 1 .. EntrySize : file[k + i] = <<a, i>>
    BY DEF AppendedIsDurable
  <2>1. synced \in 0 .. Len(file) /\ Len(file) \in Nat /\ Stored(file, synced, a)
    BY Units DEF JournalInv, JournalTypes, Kept
  <2>2. Stored(file, Len(file), a)
    BY <2>1, StoredStays
  <2> QED
    BY <2>2 DEF Stored
<1> QED
  BY <1>1, JournalInitHolds, JournalStepHolds, PTL DEF JournalSpec

(***************************************************************************)
(* Lines of different events are never mixed, an event is glued only to    *)
(* the fragment of an append that failed, and the journal never outgrows   *)
(* its limit although room is looked for before writing.                   *)
(***************************************************************************)
THEOREM JournalStaysSound == JournalSpec => []JournalIsSound
<1>1. JournalInv => JournalIsSound
  BY DEF JournalInv, JournalIsSound
<1> QED
  BY <1>1, JournalInitHolds, JournalStepHolds, PTL DEF JournalSpec

HIDE JournalAssumption DEF Steps, GotoJournal
USE StartupAssumption, JournalAssumption

-----------------------------------------------------------------------------
(* Each step of a process is at most one step of the lock and one of the   *)
(* journal.                                                                *)

LockStepOf(p) == Inspect(p) \/ Open(p) \/ Flock(p) \/ Verify(p) \/ End(p)
JournalStepOf(p) == OpenJournal(p) \/ JournalStep(p) \/ DropAppend(p)

\* What a process does to the lock, to the journal and to its own record.
LEMMA StepParts ==
  ASSUME NEW p \in Processes, ProcessStep(p)
  PROVE  /\ LockStepOf(p) \/ UNCHANGED vars
         /\ JournalStepOf(p) \/ UNCHANGED journalVars
<1>1. CASE Start(p) \/ Preflight(p)
  BY <1>1 DEF Start, Preflight, LeaveWith, LockStepOf, JournalStepOf
<1>2. CASE Acquire(p)
  BY <1>2 DEF Acquire, LeaveWith, LockStepOf, JournalStepOf
<1>3. CASE Announce(p) \/ AppendStep(p)
  BY <1>3 DEF Announce, AppendStep, LockStepOf, JournalStepOf
<1>4. CASE Bind(p) \/ Stop(p)
  BY <1>4 DEF Bind, Stop, Leave, LockStepOf, JournalStepOf
<1>5. CASE Crash(p)
  BY <1>5 DEF Crash, LockStepOf, JournalStepOf
<1> QED
  BY <1>1, <1>2, <1>3, <1>4, <1>5 DEF ProcessStep

\* The system's steps are steps of the lock's specification, or do not touch it.
LEMMA SystemIsLock == [SystemNext]_allVars => [Next]_vars
<1> SUFFICES ASSUME [SystemNext]_allVars PROVE [Next]_vars
  OBVIOUS
<1>1. ASSUME NEW p \in Processes, ProcessStep(p) PROVE [Next]_vars
  BY <1>1, StepParts DEF LockStepOf, Next
<1>2. CASE RemoveDeadSocket \/ ReplaceLockFile \/ LosePower
  BY <1>2 DEF RemoveDeadSocket, ReplaceLockFile, LosePower, Next
<1>3. CASE UNCHANGED allVars
  BY <1>3 DEF allVars
<1> QED
  BY <1>1, <1>2, <1>3 DEF SystemNext

\* And so for the journal.
LEMMA SystemIsJournal == [SystemNext]_allVars => [JournalNext]_journalVars
<1> SUFFICES ASSUME [SystemNext]_allVars PROVE [JournalNext]_journalVars
  OBVIOUS
<1>1. ASSUME NEW p \in Processes, ProcessStep(p) PROVE [JournalNext]_journalVars
  BY <1>1, StepParts DEF JournalStepOf, JournalNext
<1>2. CASE RemoveDeadSocket \/ ReplaceLockFile \/ LosePower
  BY <1>2 DEF RemoveDeadSocket, ReplaceLockFile, LosePower, JournalNext
<1>3. CASE UNCHANGED allVars
  BY <1>3 DEF allVars
<1> QED
  BY <1>1, <1>2, <1>3 DEF SystemNext

(***************************************************************************)
(* The start-up sequence, the exits and the deaths of the daemons use the  *)
(* lock as ProcessLock specifies (main.cpp, run_read_only_daemon).         *)
(***************************************************************************)
THEOREM DaemonsImplementLock == SystemSpec => ImplementsLock
<1>1. SystemInit => Init
  BY DEF SystemInit
<1> QED
  BY <1>1, SystemIsLock, PTL DEF SystemSpec, ImplementsLock, Spec

\* The daemons together use the journal as JournalSpec says.
LEMMA DaemonsImplementJournal == SystemSpec => JournalSpec
<1>1. SystemInit => JournalInit
  BY DEF SystemInit
<1> QED
  BY <1>1, SystemIsJournal, PTL DEF SystemSpec, JournalSpec

(***************************************************************************)
(* At most one of the daemons runs with the lock, whatever the others are  *)
(* doing: what is proved of the lock, for the whole system.                *)
(***************************************************************************)
THEOREM OneDaemonServes == SystemSpec => []MutualExclusion
  BY DaemonsImplementLock, OneDaemonRuns DEF ImplementsLock

(***************************************************************************)
(* No event that append() reported to a daemon is ever lost, whatever the  *)
(* other daemons append, and however they and the machine go down.         *)
(***************************************************************************)
THEOREM SharedJournalKeepsEvents == SystemSpec => []AppendedIsDurable
  BY DaemonsImplementJournal, ReportedEventsStay

(***************************************************************************)
(* The journal the daemons share is torn only by failures and stays within *)
(* its limit, although each daemon looks for room on its own.              *)
(***************************************************************************)
THEOREM SharedJournalIsSound == SystemSpec => []JournalIsSound
  BY DaemonsImplementJournal, JournalStaysSound

-----------------------------------------------------------------------------
(***************************************************************************)
(* The stages of start-up.  Announced(f, n, id, events): the events are in *)
(* the first n units of file f, in this order, and before every unit of    *)
(* the append id that may still be going on.                               *)
(***************************************************************************)
Announced(f, n, id, events) ==
  \E at \in [1 .. Len(events) -> 1 .. n] :
    /\ \A i \in 1 .. Len(events) : f[at[i]] = <<events[i], EntrySize>>
    /\ \A i \in 1 .. Len(events) - 1 : at[i] < at[i + 1]
    /\ id # 0 => \A i \in 1 .. Len(events), j \in 1 .. Len(f) :
                   f[j][1] = id => at[i] < j

Stages == \A p \in Processes :
  /\ life[p] \in {"announce", "recover", "serve"} => pc[p] = "running"
  /\ life[p] \in {"recover", "serve"} => Len(announced[p]) = StartupEvents
  /\ life[p] = "off" => announced[p] = <<>>
  /\ Announced(file, synced, append[p], announced[p])

\* A bound socket has a server, and a server one; who passed the preflight knows of later ones.
Servers == socket = "bound" <=> \E p \in Processes : life[p] = "serve"
Overtaken == \A p \in Processes :
  life[p] \in {"acquire", "announce", "recover"} /\ socket # "none" => p \in overtaken

SystemInv ==
  /\ LockInv /\ JournalInv /\ SystemTypes /\ Stages /\ Servers /\ Overtaken

\* No event, nothing to look for.
LEMMA NothingAnnounced ==
  ASSUME NEW f, NEW n, NEW id, NEW events, Len(events) = 0
  PROVE  Announced(f, n, id, events)
<1> DEFINE none == [i \in {} |-> 1]
<1>1. 1 .. Len(events) = {} /\ 1 .. Len(events) - 1 = {}
  OBVIOUS
<1>2. none \in [1 .. Len(events) -> 1 .. n]
  BY <1>1
<1> HIDE DEF none
<1> QED
  BY <1>1, <1>2 DEF Announced

\* Events stay where they are when the file grows; the append may end or be new.
LEMMA AnnouncedStays ==
  ASSUME NEW f, NEW g, NEW n \in Nat, NEW m \in Nat, Len(f) \in Nat, Len(g) \in Nat,
         n <= m, n <= Len(f), Len(f) <= Len(g), \A j \in 1 .. Len(f) : g[j] = f[j],
         NEW id, NEW new, new \in {0, id} \/ \A j \in 1 .. Len(g) : g[j][1] # new,
         NEW events, Announced(f, n, id, events)
  PROVE  Announced(g, m, new, events)
<1>1. PICK a \in Nat, b \in Nat : a = Len(f) /\ b = Len(g)
  OBVIOUS
<1>2. PICK at \in [1 .. Len(events) -> 1 .. n] :
        /\ \A i \in 1 .. Len(events) : f[at[i]] = <<events[i], EntrySize>>
        /\ \A i \in 1 .. Len(events) - 1 : at[i] < at[i + 1]
        /\ id # 0 => \A i \in 1 .. Len(events), j \in 1 .. Len(f) :
                       f[j][1] = id => at[i] < j
  BY DEF Announced
<1>3. at \in [1 .. Len(events) -> 1 .. m]
  OBVIOUS
<1>4. ASSUME NEW i \in 1 .. Len(events) PROVE at[i] \in 1 .. n /\ g[at[i]] = f[at[i]]
  <2>1. at[i] \in 1 .. n /\ at[i] \in 1 .. Len(f)
    OBVIOUS
  <2> QED
    BY <2>1
<1>5. ASSUME NEW i \in 1 .. Len(events), NEW j \in 1 .. b, new # 0, g[j][1] = new
      PROVE  at[i] < j
  <2>1. new = id
    BY <1>1, <1>5
  <2>2. CASE j <= a
    <3>1. j \in 1 .. Len(f) /\ f[j][1] = id
      BY <1>1, <1>5, <2>1, <2>2
    <3> QED
      BY <1>2, <1>5, <2>1, <3>1
  <2>3. CASE j > a
    BY <1>1, <1>4, <2>3
  <2> QED
    BY <2>2, <2>3
<1>6. \A i \in 1 .. Len(events) : g[at[i]] = <<events[i], EntrySize>>
  BY <1>2, <1>4
<1>7. new # 0 => \A i \in 1 .. Len(events), j \in 1 .. Len(g) : g[j][1] = new => at[i] < j
  BY <1>1, <1>5
<1> QED
  BY <1>2, <1>3, <1>6, <1>7 DEF Announced

\* The append that is stored now comes after all the earlier events.
LEMMA AnnouncedGrows ==
  ASSUME NEW f, NEW n \in Nat, n <= Len(f), Len(f) \in Nat, NEW id \in 1 .. MaxAppends,
         NEW events \in Seq(1 .. MaxAppends),
         Announced(f, n, id, events), Stored(f, n, id)
  PROVE  Announced(f, n, 0, Append(events, id))
<1>1. PICK len \in Nat : len = Len(events)
  BY LenProperties
<1>2. /\ Len(Append(events, id)) = len + 1
      /\ \A i \in 1 .. len : Append(events, id)[i] = events[i]
      /\ Append(events, id)[len + 1] = id
  BY <1>1, AppendProperties
<1>3. PICK at \in [1 .. len -> 1 .. n] :
        /\ \A i \in 1 .. len : f[at[i]] = <<events[i], EntrySize>>
        /\ \A i \in 1 .. len - 1 : at[i] < at[i + 1]
        /\ \A i \in 1 .. len, j \in 1 .. Len(f) : f[j][1] = id => at[i] < j
  <2>1. id # 0
    OBVIOUS
  <2> QED
    BY <1>1, <2>1 DEF Announced
<1>4. PICK k \in 0 .. n - EntrySize : \A i \in 1 .. EntrySize : f[k + i] = <<id, i>>
  BY DEF Stored
<1> DEFINE last == k + EntrySize
           new == [i \in 1 .. len + 1 |-> IF i <= len THEN at[i] ELSE last]
<1>5. last \in 1 .. n /\ f[last] = <<id, EntrySize>> /\ f[last][1] = id
  <2>1. EntrySize \in 1 .. EntrySize
    OBVIOUS
  <2>2. f[k + EntrySize] = <<id, EntrySize>>
    BY <1>4, <2>1
  <2>3. k + EntrySize \in 1 .. n
    OBVIOUS
  <2> QED
    BY <2>2, <2>3
<1>6. \A i \in 1 .. len : at[i] < last
  <2>1. last \in 1 .. Len(f)
    BY <1>5
  <2> HIDE DEF last
  <2> QED
    BY <1>3, <1>5, <2>1
<1>7. new \in [1 .. len + 1 -> 1 .. n]
  BY <1>5
<1>8. ASSUME NEW i \in 1 .. len + 1 PROVE f[new[i]] = <<Append(events, id)[i], EntrySize>>
  <2>1. CASE i <= len
    BY <1>2, <1>3, <2>1
  <2>2. CASE i = len + 1
    BY <1>2, <1>5, <2>2
  <2>3. i <= len \/ i = len + 1
    OBVIOUS
  <2> QED
    BY <2>1, <2>2, <2>3
<1>9. ASSUME NEW i \in 1 .. len PROVE new[i] < new[i + 1]
  <2>1. CASE i < len
    <3>1. new[i] = at[i] /\ new[i + 1] = at[i + 1] /\ i \in 1 .. len - 1
      BY <2>1
    <3>2. at[i] < at[i + 1]
      BY <1>3, <3>1
    <3> QED
      BY <3>1, <3>2
  <2>2. CASE i = len
    BY <1>6, <2>2
  <2> QED
    BY <2>1, <2>2
<1>10. 1 .. len = 1 .. Len(Append(events, id)) - 1
  BY <1>2
<1> HIDE DEF new, last
<1> QED
  BY <1>2, <1>7, <1>8, <1>9, <1>10 DEF Announced

\* Writers only add to the file; an append keeps its number, ends, or is new.
LEMMA JournalGrows ==
  ASSUME JournalInv, NEW p \in Writers, JournalStepOf(p) \/ UNCHANGED journalVars
  PROVE  /\ Len(file') \in Nat /\ Len(file) \in Nat /\ Len(file) <= Len(file')
         /\ \A j \in 1 .. Len(file) : file'[j] = file[j]
         /\ synced \in Nat /\ synced' \in Nat
         /\ synced <= synced' /\ synced <= Len(file) /\ synced' <= Len(file')
         /\ \A q \in Writers : q # p => append'[q] = append[q]
         /\ \/ append'[p] \in {0, append[p]}
            \/ \A j \in 1 .. Len(file') : file'[j][1] # append'[p]
<1>1. synced \in 0 .. Len(file) /\ Len(file) \in Nat
  BY Units DEF JournalInv, JournalTypes
<1>2. CASE OpenJournal(p)
  <2>1. UNCHANGED <<file, synced>>
    BY <1>2 DEF OpenJournal
  <2>2. CASE UNCHANGED append
    BY <1>1, <2>1, <2>2
  <2>3. CASE append' = [append EXCEPT ![p] = appends + 1]
    <3>1. append'[p] = appends + 1 /\ \A q \in Writers : q # p => append'[q] = append[q]
      BY <2>3 DEF JournalInv, JournalTypes
    <3>2. ASSUME NEW j \in 1 .. Len(file) PROVE file[j][1] # appends + 1
      <4>1. appends \in Nat
        BY DEF JournalInv, JournalTypes
      <4>2. file[j][1] \in Nat /\ file[j][1] <= appends
        BY Units DEF JournalInv, Numbered
      <4> QED
        BY <4>1, <4>2
    <3> QED
      BY <1>1, <2>1, <3>1, <3>2
  <2> QED
    BY <1>2, <2>2, <2>3 DEF OpenJournal
<1>3. CASE ReturnJournal(p) /\ UNCHANGED <<file, synced>>
  BY <1>1, <1>3 DEF ReturnJournal, JournalInv, JournalTypes
<1>4. CASE UNCHANGED <<file, append>> /\ synced' \in {synced, Len(file)}
  BY <1>1, <1>4
<1>5. CASE WriteEntry(p)
  <2>1. CASE ReturnJournal(p) /\ UNCHANGED file
    BY <1>3, <1>5, <2>1 DEF WriteEntry
  <2>2. ASSUME NEW n \in 1 .. EntrySize - written[p],
               file' = file \o [i \in 1 .. n |-> <<append[p], written[p] + i>>],
               UNCHANGED <<append, synced>>
        PROVE  /\ Len(file') \in Nat /\ Len(file) <= Len(file')
               /\ \A j \in 1 .. Len(file) : file'[j] = file[j]
    <3>1. n \in Nat
      BY DEF JournalInv, JournalTypes
    <3>2. Len(file') = Len(file) + n /\ \A j \in 1 .. Len(file) : file'[j] = file[j]
      BY <2>2, WriteAdds DEF JournalInv
    <3> QED
      BY <1>1, <3>1, <3>2
  <2>3. CASE UNCHANGED <<append, synced>>
    BY <1>1, <1>5, <2>1, <2>2, <2>3 DEF WriteEntry
  <2> QED
    BY <1>5, <2>1, <2>3 DEF WriteEntry
<1>6. CASE LockJournal(p) \/ SyncEntry(p) \/ CloseJournal(p) \/ SyncDirectory(p)
  BY <1>3, <1>4, <1>6 DEF LockJournal, SyncEntry, CloseJournal, SyncDirectory
<1>7. CASE DropAppend(p)
  BY <1>3, <1>7 DEF DropAppend
<1>8. CASE UNCHANGED journalVars
  BY <1>4, <1>8 DEF journalVars
<1> QED
  BY <1>2, <1>5, <1>6, <1>7, <1>8 DEF JournalStepOf, JournalStep

\* A process changes no other one's place in lock and journal, stage or record.
LEMMA OthersKeep ==
  ASSUME SystemInv, NEW p \in Processes, ProcessStep(p), NEW q \in Processes, q # p
  PROVE  /\ pc'[q] = pc[q] /\ life'[q] = life[q] /\ announced'[q] = announced[q]
         /\ q \in overtaken => q \in overtaken'
<1>1. pc'[q] = pc[q]
  <2>1. CASE LockStepOf(p)
    BY <2>1 DEF LockStepOf, Inspect, Open, Flock, Verify, End, Release, Goto,
       SystemInv, SystemTypes, TypeOK
  <2> QED
    BY <2>1, StepParts DEF vars
<1>2. life'[q] = life[q]
  BY DEF ProcessStep, Start, Preflight, Acquire, Announce, AppendStep, Bind, Stop, Crash,
     Leave, LeaveWith, Become, SystemInv, SystemTypes
<1>3. announced'[q] = announced[q]
  BY DEF ProcessStep, Start, Preflight, Acquire, Announce, AppendStep, Bind, Stop, Crash,
     Leave, LeaveWith, Become, SystemInv, SystemTypes
<1>4. q \in overtaken => q \in overtaken'
  BY DEF ProcessStep, Start, Preflight, Acquire, Announce, AppendStep, Bind, Stop, Crash,
     Leave, LeaveWith, Become
<1> QED
  BY <1>1, <1>2, <1>3, <1>4

(***************************************************************************)
(* What a process does to its own stage: it ends and its record is empty,  *)
(* it goes on with the record it has, or it adds the append that succeeded.*)
(***************************************************************************)
Ends(p) == life'[p] = "off" /\ announced'[p] = <<>>
GoesOn(p) ==
  /\ announced'[p] = announced[p] /\ life'[p] \in Lives \ {"off"}
  /\ life'[p] \in {"announce", "recover", "serve"} => pc'[p] = "running"
  /\ life'[p] \in {"recover", "serve"} => life[p] \in {"recover", "serve"}
Records(p) ==
  /\ step[p] # "idle" /\ step'[p] = "idle" /\ append[p] \in appended'
  /\ announced' = [announced EXCEPT ![p] = Append(@, append[p])]
  /\ life[p] = "announce" /\ life'[p] \in {"announce", "recover"}
  /\ life'[p] = "recover" => Len(announced'[p]) = StartupEvents
  /\ pc'[p] = "running"

LEMMA OwnStep ==
  ASSUME SystemInv, NEW p \in Processes, ProcessStep(p)
  PROVE  Ends(p) \/ GoesOn(p) \/ Records(p)
<1> USE DEF Lives
<1>1. /\ life \in [Processes -> Lives] /\ announced \in [Processes -> Seq(1 .. MaxAppends)]
      /\ life[p] \in {"announce", "recover", "serve"} => pc[p] = "running"
  BY DEF SystemInv, SystemTypes, Stages
<1>2. ASSUME NEW l \in Lives, Become(p, l), l # "off"
      PROVE  life'[p] = l /\ announced'[p] = announced[p]
  BY <1>1, <1>2 DEF Become
<1>3. ASSUME Become(p, "off") PROVE Ends(p)
  BY <1>1, <1>3 DEF Become, Ends
<1>4. ASSUME NEW l \in {"refused", "closing"}, Become(p, l) PROVE GoesOn(p)
  BY <1>2, <1>4 DEF GoesOn
<1>5. CASE Start(p)
  BY <1>2, <1>5 DEF Start, GoesOn
<1>6. CASE Preflight(p)
  <2>1. CASE Become(p, "acquire")
    BY <1>2, <2>1 DEF GoesOn
  <2> QED
    BY <1>3, <1>4, <1>6, <2>1 DEF Preflight, LeaveWith
<1>7. CASE Acquire(p)
  <2>1. CASE Become(p, "acquire")
    BY <1>2, <2>1 DEF GoesOn
  <2>2. CASE Become(p, "announce") /\ pc'[p] = "running"
    BY <1>2, <2>2 DEF GoesOn
  <2> QED
    BY <1>3, <1>4, <1>7, <2>1, <2>2 DEF Acquire, LeaveWith
<1>8. CASE Announce(p)
  <2>1. CASE Become(p, "announce") /\ UNCHANGED vars
    BY <1>1, <1>2, <1>8, <2>1 DEF Announce, GoesOn, vars
  <2> QED
    BY <1>3, <1>8, <2>1 DEF Announce
<1>9. CASE AppendStep(p)
  <2>1. CASE Become(p, life[p]) /\ UNCHANGED vars
    <3>1. CASE life[p] = "off"
      BY <1>3, <2>1, <3>1
    <3>2. CASE life[p] # "off"
      BY <1>1, <1>2, <2>1, <3>2 DEF GoesOn, vars
    <3> QED
      BY <3>1, <3>2
  <2>2. CASE /\ life[p] = "announce" /\ Advances(p)
             /\ announced' = [announced EXCEPT ![p] = Append(@, append[p])]
             /\ life' = [life EXCEPT ![p] =
                  IF Len(announced'[p]) = StartupEvents THEN "recover" ELSE "announce"]
             /\ UNCHANGED <<vars, overtaken>>
    BY <1>1, <1>9, <2>2 DEF AppendStep, Advances, Records, vars
  <2> QED
    BY <1>3, <1>9, <2>1, <2>2 DEF AppendStep
<1>10. CASE Bind(p)
  <2>1. CASE /\ life' = [life EXCEPT ![p] = "serve"] /\ UNCHANGED <<vars, announced>>
    BY <1>1, <1>10, <2>1 DEF Bind, GoesOn, vars
  <2> QED
    BY <1>3, <1>4, <1>10, <2>1 DEF Bind, Leave
<1>11. CASE Stop(p)
  BY <1>3, <1>4, <1>11 DEF Stop, Leave
<1>12. CASE Crash(p)
  BY <1>3, <1>12 DEF Crash
<1> QED
  BY <1>5, <1>6, <1>7, <1>8, <1>9, <1>10, <1>11, <1>12 DEF ProcessStep

\* The events of a process stay in the journal, in order, whoever takes a step.
LEMMA StagesHold ==
  ASSUME SystemInv, JournalInv', NEW p \in Processes, ProcessStep(p)
  PROVE  Stages'
<1>1. JournalStepOf(p) \/ UNCHANGED journalVars
  BY StepParts
<1>2. JournalInv /\ Writers = Processes
  BY DEF SystemInv
<1>3. /\ Len(file') \in Nat /\ Len(file) \in Nat /\ Len(file) <= Len(file')
      /\ \A j \in 1 .. Len(file) : file'[j] = file[j]
      /\ synced \in Nat /\ synced' \in Nat
      /\ synced <= synced' /\ synced <= Len(file) /\ synced' <= Len(file')
      /\ \A q \in Processes : q # p => append'[q] = append[q]
      /\ \/ append'[p] \in {0, append[p]}
         \/ \A j \in 1 .. Len(file') : file'[j][1] # append'[p]
  BY <1>1, <1>2, JournalGrows
<1>4. ASSUME NEW q \in Processes, NEW id,
             id \in {0, append[q]} \/ \A j \in 1 .. Len(file') : file'[j][1] # id
      PROVE  Announced(file', synced', id, announced[q])
  <2>1. Announced(file, synced, append[q], announced[q])
    BY DEF SystemInv, Stages
  <2> QED
    BY <1>3, <1>4, <2>1, AnnouncedStays
<1>5. ASSUME NEW q \in Processes, q # p PROVE Stages!(q)'
  <2>1. Announced(file', synced', append'[q], announced'[q])
    BY <1>3, <1>4, <1>5, OthersKeep
  <2> QED
    BY <1>5, <2>1, OthersKeep DEF SystemInv, Stages
<1>6. CASE Ends(p)
  <2>1. Len(announced'[p]) = 0
    BY <1>6, EmptySeq DEF Ends
  <2>2. Announced(file', synced', append'[p], announced'[p])
    BY <2>1, NothingAnnounced
  <2>3. Stages!(p)'
    BY <1>6, <2>2 DEF Ends
  <2> QED
    BY <1>5, <2>3 DEF Stages
<1>7. CASE GoesOn(p)
  <2>1. Announced(file', synced', append'[p], announced'[p])
    BY <1>3, <1>4, <1>7 DEF GoesOn
  <2>2. Stages!(p)'
    BY <1>7, <2>1 DEF GoesOn, SystemInv, Stages
  <2> QED
    BY <1>5, <2>2 DEF Stages
<1>8. CASE Records(p)
  <2>1. /\ append[p] \in 1 .. MaxAppends /\ append'[p] = 0
        /\ announced[p] \in Seq(1 .. MaxAppends)
        /\ announced'[p] = Append(announced[p], append[p])
    <3>1. append[p] \in 0 .. MaxAppends /\ append[p] # 0
      BY <1>2, <1>8 DEF Records, JournalInv, JournalTypes, Numbered
    <3>2. append'[p] = 0
      BY <1>2, <1>8 DEF Records, JournalInv, Numbered
    <3> QED
      BY <1>8, <3>1, <3>2 DEF Records, SystemInv, SystemTypes
  <2>2. Stored(file', synced', append[p])
    BY <1>8 DEF Records, JournalInv, Kept
  <2>3. Announced(file', synced', append[p], announced[p])
    BY <1>4
  <2>4. Announced(file', synced', append'[p], announced'[p])
    BY <1>3, <2>1, <2>2, <2>3, AnnouncedGrows
  <2>5. Stages!(p)'
    BY <1>8, <2>4 DEF Records
  <2> QED
    BY <1>5, <2>5 DEF Stages
<1> QED
  BY <1>6, <1>7, <1>8, OwnStep

\* Two daemons that are past the lock are one.
LEMMA OnePastLock ==
  ASSUME SystemInv, NEW p \in Processes, NEW q \in Processes,
         life[p] \in {"announce", "recover", "serve"},
         life[q] \in {"announce", "recover", "serve"}
  PROVE  p = q
<1>1. pc[p] = "running" /\ pc[q] = "running"
  BY DEF SystemInv, Stages
<1> QED
  BY <1>1 DEF SystemInv, LockInv, OneLocker, Locking, Opened, Naming

\* The socket path: who binds it has the lock, and the others are told.
LEMMA PathHolds ==
  ASSUME SystemInv, NEW p \in Processes, ProcessStep(p)
  PROVE  Servers' /\ Overtaken'
<1> USE DEF Lives
<1> DEFINE Passed == {"acquire", "announce", "recover"}
<1>1. /\ life \in [Processes -> Lives] /\ socket \in {"none", "bound", "dead"}
      /\ overtaken \subseteq Processes
  BY DEF SystemInv, SystemTypes
<1>2. CASE /\ life[p] = "recover" /\ socket = "none" /\ socket' = "bound"
           /\ life' = [life EXCEPT ![p] = "serve"]
           /\ overtaken' = overtaken \cup {q \in Processes \ {p} : life[q] # "off"}
  BY <1>1, <1>2 DEF Servers, Overtaken
<1>3. ASSUME life[p] = "serve", life'[p] \in {"off", "closing"}, socket' \in {"none", "dead"}
      PROVE  Servers' /\ Overtaken'
  <2>1. socket = "bound"
    BY <1>3 DEF SystemInv, Servers
  <2>2. ASSUME NEW q \in Processes PROVE life'[q] # "serve"
    BY <1>3, OthersKeep, OnePastLock
  <2>3. ASSUME NEW q \in Processes, life'[q] \in Passed PROVE q \in overtaken'
    BY <1>3, <2>1, <2>3, OthersKeep DEF SystemInv, Overtaken
  <2> QED
    BY <1>3, <2>2, <2>3 DEF Servers, Overtaken
<1>4. ASSUME socket' = socket, life'[p] = "serve" <=> life[p] = "serve",
             life'[p] \in Passed =>
               \/ socket = "none"
               \/ life[p] \in Passed /\ (p \in overtaken => p \in overtaken')
      PROVE  Servers' /\ Overtaken'
  <2>1. Servers'
    BY <1>4, OthersKeep DEF SystemInv, Servers
  <2>2. ASSUME NEW q \in Processes, life'[q] \in Passed, socket' # "none"
        PROVE  q \in overtaken'
    BY <1>4, <2>2, OthersKeep DEF SystemInv, Overtaken
  <2> QED
    BY <2>1, <2>2 DEF Overtaken
<1>5. ASSUME NEW l \in Lives, Become(p, l)
      PROVE  life'[p] = l /\ (l # "off" => overtaken' = overtaken)
  BY <1>1, <1>5 DEF Become
<1>6. CASE Start(p)
  BY <1>4, <1>5, <1>6 DEF Start
<1>7. CASE Preflight(p)
  BY <1>4, <1>5, <1>7 DEF Preflight, LeaveWith, PathIsFree
<1>8. CASE Acquire(p)
  BY <1>4, <1>5, <1>8 DEF Acquire, LeaveWith
<1>9. CASE Announce(p)
  BY <1>4, <1>5, <1>9 DEF Announce
<1>10. CASE AppendStep(p)
  <2>1. CASE /\ life[p] = "announce"
             /\ life' = [life EXCEPT ![p] =
                  IF Len(announced'[p]) = StartupEvents THEN "recover" ELSE "announce"]
             /\ UNCHANGED overtaken
    BY <1>1, <1>4, <1>10, <2>1 DEF AppendStep
  <2>2. CASE Become(p, life[p]) \/ (Become(p, "off") /\ life[p] # "serve")
    BY <1>1, <1>4, <1>5, <1>10, <2>2 DEF AppendStep
  <2> QED
    BY <1>10, <2>1, <2>2 DEF AppendStep
<1>11. CASE Bind(p)
  <2>1. CASE Leave(p) /\ UNCHANGED socket
    BY <1>4, <1>5, <1>11, <2>1 DEF Bind, Leave
  <2> QED
    BY <1>2, <1>11, <2>1 DEF Bind
<1>12. CASE Stop(p)
  BY <1>3, <1>5, <1>12 DEF Stop, Leave
<1>13. CASE Crash(p)
  <2>1. life'[p] = "off"
    BY <1>5, <1>13 DEF Crash
  <2> QED
    BY <1>3, <1>4, <1>13, <2>1 DEF Crash
<1> QED
  BY <1>6, <1>7, <1>8, <1>9, <1>10, <1>11, <1>12, <1>13 DEF ProcessStep

\* Stages, records and the socket path keep their types.
LEMMA TypesHold ==
  ASSUME SystemInv, LockInv', JournalInv', NEW p \in Processes, ProcessStep(p)
  PROVE  SystemTypes'
<1> USE DEF Lives
<1>1. /\ life \in [Processes -> Lives] /\ socket \in {"none", "bound", "dead"}
      /\ announced \in [Processes -> Seq(1 .. MaxAppends)] /\ overtaken \subseteq Processes
  BY DEF SystemInv, SystemTypes
<1>2. life' \in [Processes -> Lives]
  BY <1>1 DEF ProcessStep, Start, Preflight, Acquire, Announce, AppendStep, Bind, Stop,
     Crash, Leave, LeaveWith, Become
<1>3. announced' \in [Processes -> Seq(1 .. MaxAppends)]
  <2>1. announced' = [announced EXCEPT ![p] = announced'[p]]
    BY <1>1 DEF ProcessStep, Start, Preflight, Acquire, Announce, AppendStep, Bind, Stop,
       Crash, Leave, LeaveWith, Become
  <2>2. CASE Records(p)
    <3>1. append[p] \in 1 .. MaxAppends
      BY <2>2 DEF Records, SystemInv, JournalInv, JournalTypes, Numbered
    <3>2. Append(announced[p], append[p]) \in Seq(1 .. MaxAppends)
      BY <1>1, <3>1, AppendProperties
    <3> QED
      BY <1>1, <2>2, <3>2 DEF Records
  <2>3. CASE Ends(p)
    BY <1>1, <2>1, <2>3, EmptySeq DEF Ends
  <2>4. CASE GoesOn(p)
    BY <1>1, <2>1, <2>4 DEF GoesOn
  <2> QED
    BY <2>2, <2>3, <2>4, OwnStep
<1>4. socket' \in {"none", "bound", "dead"}
  BY <1>1 DEF ProcessStep, Start, Preflight, Acquire, Announce, AppendStep, Bind, Stop,
     Crash
<1>5. overtaken' \subseteq Processes
  BY <1>1 DEF ProcessStep, Start, Preflight, Acquire, Announce, AppendStep, Bind, Stop,
     Crash, Leave, LeaveWith, Become
<1> QED
  BY <1>2, <1>3, <1>4, <1>5 DEF SystemTypes, LockInv, JournalInv

\* No process is up and no event is announced.
LEMMA SystemInitHolds == SystemInit => SystemInv
<1> SUFFICES ASSUME SystemInit PROVE SystemInv
  OBVIOUS
<1>1. LockInv /\ JournalInv
  BY LockInit, JournalInitHolds DEF SystemInit
<1>2. <<>> \in Seq(1 .. MaxAppends) /\ Len(<<>>) = 0
  BY EmptySeq
<1>3. SystemTypes
  BY <1>1, <1>2 DEF SystemInit, SystemTypes, LockInv, JournalInv, Lives
<1>4. ASSUME NEW p \in Processes
      PROVE  Announced(file, synced, append[p], announced[p])
  BY <1>2, NothingAnnounced DEF SystemInit
<1>5. Stages
  BY <1>4 DEF SystemInit, Stages
<1>6. Servers /\ Overtaken
  BY DEF SystemInit, Servers, Overtaken
<1> QED
  BY <1>1, <1>3, <1>5, <1>6 DEF SystemInv

\* Every step of the system keeps the invariant.
LEMMA SystemStepHolds == SystemInv /\ [SystemNext]_allVars => SystemInv'
<1> SUFFICES ASSUME SystemInv, [SystemNext]_allVars PROVE SystemInv'
  OBVIOUS
<1>1. LockInv' /\ JournalInv'
  BY SystemIsLock, SystemIsJournal, LockStep, JournalStepHolds DEF SystemInv
<1>2. ASSUME NEW p \in Processes, ProcessStep(p) PROVE SystemInv'
  BY <1>1, <1>2, StagesHold, PathHolds, TypesHold DEF SystemInv
<1>3. CASE RemoveDeadSocket
  BY <1>1, <1>3 DEF RemoveDeadSocket, vars, journalVars, SystemInv, SystemTypes, Stages,
     Servers, Overtaken, LockInv, JournalInv
<1>4. CASE ReplaceLockFile
  <2>1. UNCHANGED <<pc, journalVars, systemVars>>
    BY <1>4 DEF ReplaceLockFile, Replace
  <2> QED
    BY <1>1, <2>1 DEF systemVars, journalVars, SystemInv, SystemTypes, Stages,
       Servers, Overtaken, LockInv, JournalInv
<1>5. CASE LosePower
  <2>1. \A p \in Processes : life[p] = "off" /\ announced[p] = <<>>
    BY <1>5 DEF LosePower, SystemInv, Stages
  <2>2. UNCHANGED <<pc, systemVars>>
    BY <1>5 DEF LosePower, vars
  <2>3. ASSUME NEW p \in Processes PROVE Announced(file', synced', append'[p], announced'[p])
    <3>1. Len(announced'[p]) = 0
      BY <2>1, <2>2, EmptySeq DEF systemVars
    <3> QED
      BY <3>1, NothingAnnounced
  <2>4. Stages'
    BY <2>1, <2>2, <2>3 DEF systemVars, Stages
  <2> QED
    BY <1>1, <2>2, <2>4 DEF systemVars, SystemInv, SystemTypes, Servers, Overtaken,
       LockInv, JournalInv
<1>6. CASE UNCHANGED allVars
  BY <1>1, <1>6 DEF allVars, vars, journalVars, systemVars, SystemInv, SystemTypes,
     Stages, Servers, Overtaken, LockInv, JournalInv
<1> QED
  BY <1>2, <1>3, <1>4, <1>5, <1>6 DEF SystemNext

(***************************************************************************)
(* A daemon recovers and serves only with all its start-up events durable  *)
(* in the shared journal, whole and in the order of its appends, for any   *)
(* number of daemons and events (main.cpp, run_read_only_daemon).          *)
(***************************************************************************)
THEOREM DaemonsAreAudited == SystemSpec => []ServiceIsAudited
<1>1. SystemInv => ServiceIsAudited
  <2> SUFFICES ASSUME SystemInv, NEW p \in Processes, life[p] \in {"recover", "serve"}
               PROVE  ServiceIsAudited!(p)!2
    BY DEF ServiceIsAudited
  <2>1. /\ Len(announced[p]) = StartupEvents
        /\ Announced(file, synced, append[p], announced[p])
    BY DEF SystemInv, Stages
  <2> QED
    BY <2>1 DEF Announced
<1> QED
  BY <1>1, SystemInitHolds, SystemStepHolds, PTL DEF SystemSpec

(***************************************************************************)
(* A daemon that recovers never meets a live socket at the path, and a     *)
(* dead one only if another daemon served since its preflight              *)
(* (filesystem_preflight.cpp, main.cpp).                                   *)
(***************************************************************************)
THEOREM RecoveryMeetsNoLiveSocket == SystemSpec => []OccupiedPathIsExplained
<1>1. SystemInv => OccupiedPathIsExplained
  <2> SUFFICES ASSUME SystemInv, NEW p \in Processes, life[p] = "recover"
               PROVE  socket # "bound" /\ (socket = "dead" => p \in overtaken)
    BY DEF OccupiedPathIsExplained
  <2>1. socket # "bound"
    BY OnePastLock DEF SystemInv, Servers
  <2>2. socket = "dead" => p \in overtaken
    BY DEF SystemInv, Overtaken
  <2> QED
    BY <2>1, <2>2
<1> QED
  BY <1>1, SystemInitHolds, SystemStepHolds, PTL DEF SystemSpec
=============================================================================
