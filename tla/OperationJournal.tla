-------------------------- MODULE OperationJournal --------------------------
(***************************************************************************)
(* OperationJournal::append, called by several processes on one file.  An  *)
(* entry is a line of EntrySize units of which the last one is the         *)
(* newline; a write can stop after any of them.  What fsync has not        *)
(* reached, a loss of power can take away.                                 *)
(***************************************************************************)
EXTENDS Integers, Sequences

CONSTANTS
  Writers,
  EntrySize,       \* units of a serialized event, newline included
  MaximumJournal,  \* maximum_journal_size (16 MiB in the code)
  MaxAppends       \* bound: appends begun

Nobody == "nobody"

\* An entry has at most maximum_entry_size (64 KiB) units.
ASSUME JournalAssumption ==
  /\ Nobody \notin Writers
  /\ EntrySize \in Nat \ {0} /\ MaximumJournal \in Nat /\ MaxAppends \in Nat
  /\ EntrySize <= MaximumJournal

VARIABLES
  file,       \* units of the journal: the append each belongs to, and its place
  link,       \* the directory entry: "absent", "linked", "durable"
  synced,     \* units that fsync has made durable
  owner,      \* the writer that has the flock, or Nobody
  step,       \* step of append() of each writer
  append,     \* the append each writer is at, 0 outside of one
  written,    \* units of it that are in the file
  appends,    \* appends begun
  appended    \* history: appends reported as "appended"

journalVars ==
  <<file, link, synced, owner, step, append, written, appends, appended>>

Steps == {"idle", "flock", "write", "fsync", "close", "sync_directory"}

\* append() returns; closing the descriptor drops the lock.  All callers ask only
\* whether the result is "appended".
ReturnJournal(w) ==
  /\ step' = [step EXCEPT ![w] = "idle"] /\ append' = [append EXCEPT ![w] = 0]
  /\ written' = [written EXCEPT ![w] = 0]
  /\ owner' = (IF owner = w THEN Nobody ELSE owner)

GotoJournal(w, s) == step' = [step EXCEPT ![w] = s]

-----------------------------------------------------------------------------
\* Event and root are checked and the file is opened, or created; or append()
\* fails before it has touched anything.
OpenJournal(w) ==
  /\ step[w] = "idle" /\ appends < MaxAppends
  /\ \/ /\ GotoJournal(w, "flock")
        /\ appends' = appends + 1 /\ append' = [append EXCEPT ![w] = appends + 1]
        /\ link' = (IF link = "absent" THEN "linked" ELSE link)
     \/ UNCHANGED <<step, appends, append, link>>
  /\ UNCHANGED <<file, synced, owner, written, appended>>

\* Plausible bug: the result of flock is not looked at.
HasLockUnchecked(w) == TRUE

HasLock(w) == owner = Nobody

ExceedsCapacity == Len(file) + EntrySize > MaximumJournal

\* flock waits for the lock, under which the size is looked at.
LockJournal(w) ==
  /\ step[w] = "flock"
  /\ \/ /\ HasLock(w) /\ ~ ExceedsCapacity
        /\ owner' = w /\ GotoJournal(w, "write") /\ UNCHANGED <<append, written>>
     \/ HasLock(w) /\ ExceedsCapacity /\ ReturnJournal(w)
     \/ ReturnJournal(w)
  /\ UNCHANGED <<file, link, synced, appends, appended>>

\* write_all: write() takes some of what is left, or fails.
WriteEntry(w) ==
  /\ step[w] = "write"
  /\ \/ \E n \in 1 .. EntrySize - written[w] :
          /\ file' = file \o [i \in 1 .. n |-> <<append[w], written[w] + i>>]
          /\ written' = [written EXCEPT ![w] = @ + n]
          /\ IF written[w] + n = EntrySize
             THEN GotoJournal(w, "fsync") ELSE UNCHANGED step
          /\ UNCHANGED <<owner, append>>
     \/ ReturnJournal(w) /\ UNCHANGED file
  /\ UNCHANGED <<link, synced, appends, appended>>

SyncEntry(w) ==
  /\ step[w] = "fsync"
  /\ \/ /\ synced' = Len(file) /\ GotoJournal(w, "close")
        /\ UNCHANGED <<owner, append, written>>
     \/ ReturnJournal(w) /\ UNCHANGED synced
  /\ UNCHANGED <<file, link, appends, appended>>

\* LOCK_UN and close.
CloseJournal(w) ==
  /\ step[w] = "close"
  /\ \/ /\ GotoJournal(w, "sync_directory") /\ owner' = Nobody
        /\ UNCHANGED <<append, written>>
     \/ ReturnJournal(w)
  /\ UNCHANGED <<file, link, synced, appends, appended>>

\* Plausible bug: the directory is not synced.
SyncDirectoryNot(w) ==
  /\ step[w] = "sync_directory"
  /\ appended' = appended \cup {append[w]} /\ ReturnJournal(w)
  /\ UNCHANGED <<file, link, synced, appends>>

SyncDirectory(w) ==
  /\ step[w] = "sync_directory" /\ ReturnJournal(w)
  /\ \/ link' = "durable" /\ appended' = appended \cup {append[w]}
     \/ UNCHANGED <<link, appended>>
  /\ UNCHANGED <<file, synced, appends>>

-----------------------------------------------------------------------------
\* The process dies; what it has written stays.
DropAppend(w) ==
  ReturnJournal(w) /\ UNCHANGED <<file, link, synced, appends, appended>>

\* Power is lost with no process left: the file keeps at least its durable prefix,
\* if the directory keeps its name.
PowerLoss ==
  /\ \A w \in Writers : step[w] = "idle"
  /\ \/ /\ link # "absent" /\ link' = "durable"
        /\ \E n \in synced .. Len(file) : file' = SubSeq(file, 1, n) /\ synced' = n
     \/ link = "linked" /\ link' = "absent" /\ file' = <<>> /\ synced' = 0
  /\ UNCHANGED <<owner, step, append, written, appends, appended>>

\* No journal yet, or one with an event of earlier days.
JournalInit ==
  /\ file \in {<<>>, [i \in 1 .. EntrySize |-> <<0, i>>]} /\ synced = Len(file)
  /\ link = (IF file = <<>> THEN "absent" ELSE "durable") /\ owner = Nobody
  /\ step = [w \in Writers |-> "idle"] /\ append = [w \in Writers |-> 0]
  /\ written = [w \in Writers |-> 0] /\ appends = 0
  /\ appended = {file[i][1] : i \in 1 .. Len(file)}

JournalStep(w) ==
  \/ LockJournal(w) \/ WriteEntry(w) \/ SyncEntry(w) \/ CloseJournal(w)
  \/ SyncDirectory(w)

JournalTypes ==
  /\ file \in Seq((0 .. MaxAppends) \X (1 .. EntrySize))
  /\ link \in {"absent", "linked", "durable"} /\ synced \in 0 .. Len(file)
  /\ owner \in Writers \cup {Nobody} /\ step \in [Writers -> Steps]
  /\ append \in [Writers -> 0 .. MaxAppends] /\ written \in [Writers -> 0 .. EntrySize]
  /\ appends \in 0 .. MaxAppends /\ appended \subseteq 0 .. MaxAppends

(***************************************************************************)
(* ADR-0006: an append is reported as successful only when its event will  *)
(* still be there: its line is in the file, whole and in one piece, after  *)
(* any later append, failure, death and loss of power.                     *)
(***************************************************************************)
AppendedIsDurable ==
  \A a \in appended : \E k \in 0 .. Len(file) - EntrySize :
    \A i \in 1 .. EntrySize : file[k + i] = <<a, i>>

(***************************************************************************)
(* Lines of different events are never mixed, and an event shares a line   *)
(* only with the fragment of an append that failed or died half-way, to    *)
(* which the next one is glued (operation_journal.cpp:165): whatever       *)
(* precedes a foreign unit is a newline or belongs to an append that was   *)
(* not reported as successful.                                             *)
(***************************************************************************)
OnlyFailuresTear ==
  \A i \in 1 .. Len(file) - 1 :
    file[i][1] # file[i + 1][1] =>
      /\ file[i + 1][2] = 1
      /\ file[i][2] = EntrySize \/
           file[i][1] \notin appended \cup {append[w] : w \in Writers}

(***************************************************************************)
(* The journal never outgrows its limit, however many processes find room  *)
(* in it at the same time (operation_journal.cpp:153).                     *)
(***************************************************************************)
WithinCapacity == Len(file) <= MaximumJournal

(***************************************************************************)
(* The journal file stays readable and within its limit, whichever         *)
(* processes write to it and wherever their calls fail.                    *)
(***************************************************************************)
JournalIsSound == OnlyFailuresTear /\ WithinCapacity
=============================================================================
