--------------------- MODULE ActivationTransactionStore ---------------------
(***************************************************************************)
(* The single durable pending-activation record.  Each operator maps the   *)
(* file's content to the SET of outcomes the call can have: the status it  *)
(* returns and the content it leaves.  A failed directory fsync is         *)
(* reported as io_error although the file already changed.                 *)
(***************************************************************************)
EXTENDS Gatehold

PhaseNumber ==
  [prepared_for_load |-> 0, target_loaded |-> 1, verified |-> 2,
   awaiting_confirmation |-> 3, committing |-> 4, committed |-> 5]

valid_transition(current, next) == PhaseNumber[next] = PhaseNumber[current] + 1

valid_transaction(t) == t.target # t.rollback

Outcome(s, f) == [status |-> s, file |-> f]

\* The file was replaced but the call still failed.
Unsynced(kind, f) ==
  IF kind \in DirSyncMayFail THEN {Outcome("io_error", f)} ELSE {}

\* Publish a first record with link(2): it never replaces an existing one.
begin(file, t) ==
  IF ~ valid_transaction(t) THEN {Outcome("invalid_record", file)}
  ELSE IF file # NoTransaction
       THEN {Outcome("conflict", file), Outcome("io_error", file)}
       ELSE {Outcome("created", t), Outcome("io_error", file)}
              \cup Unsynced("begin", t)

\* Read the record; "unreadable" stands for every unsafe, malformed or failed read.
load(file) ==
  {IF file = NoTransaction THEN "no_pending" ELSE "loaded", "unreadable"}

\* What advance and clear return when load() gives them no record.
Unloaded(file) ==
  {Outcome(s, file) : s \in load(file) \ {"loaded"}}

CommitKind(phase) == IF phase = "committed" THEN "commit" ELSE "advance"

persist_replacement(file, new, kind) ==
  {Outcome("advanced", new), Outcome("io_error", file)} \cup Unsynced(kind, new)

advance(file, op, next) ==
  Unloaded(file) \cup
    IF file = NoTransaction THEN {}
    ELSE IF file.op # op \/ ~ valid_transition(file.phase, next)
         THEN {Outcome("invalid_transition", file)}
         ELSE persist_replacement(file, [file EXCEPT !.phase = next], CommitKind(next))

clear(file, op) ==
  Unloaded(file) \cup
    IF file = NoTransaction THEN {}
    ELSE IF file.op # op THEN {Outcome("conflict", file)}
         ELSE {Outcome("cleared", NoTransaction), Outcome("io_error", file)}
                \cup Unsynced("clear", NoTransaction)
=============================================================================
