---------------------------- MODULE ProcessRunner ----------------------------
(***************************************************************************)
(* PosixProcessRunner::run: a child whose two output pipes are drained     *)
(* without blocking, which is reaped, and killed at its deadline.  The     *)
(* child writes, forks a descendant that inherits its pipes, loads PF      *)
(* rules and exits as it likes; waitpid, read and poll can fail.           *)
(*                                                                         *)
(* Time is counted in ticks, of which TicksPerMs make a millisecond.       *)
(***************************************************************************)
EXTENDS Integers, FiniteSetsExt

CONSTANTS
  MaximumCaptured,  \* maximum_captured_output (64 KiB in the code)
  ReadBuffer,       \* bytes of one read (4096 in the code)
  PipeSize,         \* bytes a pipe holds
  Timeout,          \* ticks the caller allows
  PollSlice,        \* ticks of one poll while the child runs (10 ms)
  TicksPerMs,
  ExitCodes         \* codes a child can end with by itself

ASSUME RunnerAssumption ==
  /\ MaximumCaptured \in Nat \ {0} /\ ReadBuffer \in Nat \ {0}
  /\ PipeSize \in Nat \ {0} /\ Timeout \in Nat \ {0} /\ PollSlice \in Nat \ {0}
  /\ TicksPerMs \in Nat \ {0}
  /\ ExitCodes \subseteq 0 .. 255 /\ 0 \in ExitCodes

VARIABLES
  pc,         \* step of run(), "idle" outside of it
  fd,         \* the read ends that are still open
  finished,   \* child_finished
  status,     \* child_status, as the exit code it decodes to
  result,     \* ProcessResult without its output
  captured,   \* stream -> bytes of standard_output, standard_error
  left,       \* ticks until the deadline
  pollLeft,   \* ticks until the poll in progress times out
  child,      \* "none", "running", "zombie", "reaped", "gone" (reaped by no one)
  death,      \* exit code the child ended with, or Alive
  writers,    \* processes that hold the write ends
  pipe,       \* stream -> bytes written and not read
  loaded,     \* the child has replaced the PF rules
  ignored,    \* SIGCHLD is ignored: children leave no status behind
  produced,   \* history: stream -> bytes written, up to ProducedBound
  unread,     \* history: streams given up after a failed read
  late        \* history: ticks spent in poll after the deadline

run == <<pc, fd, finished, status, result, captured, left, pollLeft>>
process == <<child, death, writers, pipe, loaded, ignored>>
history == <<produced, unread, late>>
runnerVars == <<run, process, history>>

Streams == {"out", "err"}
Alive == -1
Killed == 128 + 9
ProducedBound == MaximumCaptured + 1
LateBound == PollSlice + 1
NoResult ==
  [launched |-> FALSE, timed_out |-> FALSE, error |-> FALSE, truncated |-> FALSE,
   exit_code |-> -1]

\* The stream a step of run() drains, and the step after it.
Drains == [out |-> "out", err |-> "err", last_out |-> "out", last_err |-> "err"]
After == [out |-> "err", err |-> "reap", last_out |-> "last_err", last_err |-> "end"]
Draining == pc \in DOMAIN Drains

-----------------------------------------------------------------------------
\* Plausible bug: only output beyond a full buffer counts as truncated.
append_boundedSilently(size, chunk) ==
  [size |-> Min({size + chunk, MaximumCaptured}), cut |-> size >= MaximumCaptured]

append_bounded(size, chunk) ==
  [size |-> Min({size + chunk, MaximumCaptured}),
   cut |-> size + chunk > MaximumCaptured]

\* A new call: nothing captured or written yet.
Fresh ==
  /\ captured' = [s \in Streams |-> 0] /\ pipe' = [s \in Streams |-> 0]
  /\ produced' = [s \in Streams |-> 0] /\ unread' = {} /\ late' = 0
  /\ finished' = FALSE /\ status' = 0 /\ pollLeft' = 0

\* Arguments, pipes or fork refuse; capture cannot be set up and the child, which
\* may have loaded its rules by then, is killed; or the loop starts with the child
\* holding both write ends.
Run ==
  /\ pc = "idle" /\ Fresh
  /\ \/ /\ result' = [NoResult EXCEPT !.error = TRUE]
        /\ child' = "none" /\ death' = Alive /\ writers' = {} /\ left' = 0
        /\ loaded' = FALSE /\ UNCHANGED <<pc, fd>>
     \/ /\ result' = [NoResult EXCEPT !.launched = TRUE, !.error = TRUE,
                                      !.exit_code = Killed]
        /\ child' = (IF ignored THEN "gone" ELSE "reaped")
        /\ death' = Killed /\ writers' = {} /\ left' = 0
        /\ loaded' \in BOOLEAN /\ UNCHANGED <<pc, fd>>
     \/ /\ result' = [NoResult EXCEPT !.launched = TRUE]
        /\ child' = "running" /\ death' = Alive /\ writers' = {"child"}
        /\ pc' = "out" /\ fd' = Streams /\ left' = Timeout /\ loaded' = FALSE
  /\ UNCHANGED ignored

DrainEnd(s) ==
  /\ pipe[s] = 0 /\ writers = {}
  /\ pc' = After[pc] /\ fd' = fd \ {s} /\ UNCHANGED <<captured, result, pipe, unread>>

\* drain_descriptor: read until the pipe is empty, at its end, or broken.
Drain ==
  /\ Draining
  /\ LET s == Drains[pc] IN
     \/ /\ s \notin fd
        /\ pc' = After[pc] /\ UNCHANGED <<fd, captured, result, pipe, unread>>
     \/ /\ s \in fd /\ pipe[s] > 0
        /\ LET n == Min({pipe[s], ReadBuffer})
               a == append_bounded(captured[s], n)
           IN /\ pipe' = [pipe EXCEPT ![s] = @ - n]
              /\ captured' = [captured EXCEPT ![s] = a.size]
              /\ result' = [result EXCEPT !.truncated = @ \/ a.cut]
        /\ UNCHANGED <<pc, fd, unread>>
     \/ s \in fd /\ DrainEnd(s)
     \/ /\ s \in fd /\ pipe[s] = 0 /\ writers # {}
        /\ pc' = After[pc] /\ UNCHANGED <<fd, captured, result, pipe, unread>>
     \/ /\ s \in fd   \* an error other than EAGAIN closes without a message
        /\ pc' = After[pc] /\ fd' = fd \ {s} /\ unread' = unread \cup {s}
        /\ UNCHANGED <<captured, result, pipe>>
  /\ UNCHANGED <<finished, status, left, pollLeft, child, death, writers, loaded,
                 ignored, produced, late>>

\* waitpid(WNOHANG): a status, still running (or EINTR), or no such child.
Reap ==
  /\ pc = "reap" /\ pc' = "deadline"
  /\ \/ /\ ~ finished /\ child = "zombie"
        /\ finished' = TRUE /\ status' = death /\ child' = "reaped"
        /\ UNCHANGED result
     \/ /\ ~ finished /\ child = "gone"
        /\ finished' = TRUE /\ result' = [result EXCEPT !.error = TRUE]
        /\ UNCHANGED <<status, child>>
     \/ /\ finished \/ child \in {"running", "zombie"}
        /\ UNCHANGED <<finished, status, child, result>>
  /\ UNCHANGED <<fd, captured, left, pollLeft, death, writers, pipe, loaded,
                 ignored, history>>

Expired == ~ finished /\ left = 0

\* SIGKILL and a blocking waitpid, which yields nothing when no status is left.
Kill ==
  /\ result' = [result EXCEPT !.timed_out = TRUE] /\ finished' = TRUE
  /\ death' = (IF child = "running" THEN Killed ELSE death)
  /\ child' = (IF ignored THEN "gone" ELSE "reaped")
  /\ status' = (IF ignored THEN status ELSE death')
  /\ writers' = writers \ {"child"}

CheckDeadline ==
  /\ pc = "deadline"
  /\ \/ Expired /\ Kill
     \/ ~ Expired /\ UNCHANGED <<result, finished, death, child, status, writers>>
  /\ pc' = IF finished' /\ fd = {} THEN "last_out" ELSE "wait"
  /\ UNCHANGED <<fd, captured, left, pollLeft, pipe, loaded, ignored, history>>

poll_timeout == IF finished THEN 0 ELSE PollSlice

StartPoll ==
  /\ pc = "wait"
  /\ pc' = "poll" /\ pollLeft' = poll_timeout
  /\ UNCHANGED <<fd, finished, status, result, captured, left, process, history>>

Readable == \E s \in fd : pipe[s] > 0 \/ writers = {}

\* poll reports a descriptor or the end of its slice, or is interrupted (EINTR).
Poll ==
  /\ pc = "poll"
  /\ Readable \/ pollLeft = 0
  /\ pc' = "out" /\ pollLeft' = 0
  /\ UNCHANGED <<fd, finished, status, result, captured, left, process, history>>

PollInterrupted ==
  /\ pc = "poll"
  /\ pc' = "out" /\ pollLeft' = 0
  /\ UNCHANGED <<fd, finished, status, result, captured, left, process, history>>

\* The loop is left with the child neither killed nor waited for.
PollFailed ==
  /\ pc = "poll"
  /\ pc' = "last_out" /\ pollLeft' = 0 /\ result' = [result EXCEPT !.error = TRUE]
  /\ UNCHANGED <<fd, finished, status, captured, left, process, history>>

\* Close what is open and decode child_status, which is 0 if nothing was waited for.
End ==
  /\ pc = "end"
  /\ pc' = "idle" /\ fd' = {} /\ result' = [result EXCEPT !.exit_code = status]
  /\ UNCHANGED <<finished, status, captured, left, pollLeft, process, history>>

-----------------------------------------------------------------------------
(* The child and its descendant; what they do after the run is not looked  *)
(* at any more.                                                            *)
Write(s) ==
  /\ pc # "idle" /\ s \in fd /\ writers # {} /\ pipe[s] < PipeSize
  /\ pipe' = [pipe EXCEPT ![s] = @ + 1]
  /\ produced' = [produced EXCEPT ![s] = Min({@ + 1, ProducedBound})]
  /\ UNCHANGED <<run, child, death, writers, loaded, ignored, unread, late>>

\* A process closes its ends; a descendant also by ending.
CloseEnds ==
  /\ pc # "idle"
  /\ \E p \in writers : writers' = writers \ {p}
  /\ UNCHANGED <<run, child, death, pipe, loaded, ignored, history>>

ForkDescendant ==
  /\ pc # "idle" /\ child = "running" /\ "child" \in writers
  /\ writers' = writers \cup {"descendant"}
  /\ UNCHANGED <<run, child, death, pipe, loaded, ignored, history>>

LoadRules ==
  /\ pc # "idle" /\ child = "running" /\ ~ loaded
  /\ loaded' = TRUE
  /\ UNCHANGED <<run, child, death, writers, pipe, ignored, history>>

\* The child ends; pfctl -f exits with 0 only when it has loaded the rules.
Exit(code) ==
  /\ pc # "idle" /\ child = "running"
  /\ code = 0 => loaded
  /\ child' = (IF ignored THEN "gone" ELSE "zombie") /\ death' = code
  /\ writers' = writers \ {"child"}
  /\ UNCHANGED <<run, pipe, loaded, ignored, history>>

\* Time passes, in a poll for at most its slice.
Tick ==
  /\ pc # "idle"
  /\ IF pc = "poll" THEN pollLeft > 0 ELSE left > 0
  /\ left' = Max({left - 1, 0}) /\ pollLeft' = Max({pollLeft - 1, 0})
  /\ late' = IF pc = "poll" /\ left = 0 THEN Min({late + 1, LateBound}) ELSE late
  /\ UNCHANGED <<pc, fd, finished, status, result, captured, process, produced,
                 unread>>

-----------------------------------------------------------------------------
RunnerInit ==
  /\ pc = "idle" /\ fd = {} /\ finished = FALSE /\ status = 0 /\ result = NoResult
  /\ captured = [s \in Streams |-> 0] /\ left = 0 /\ pollLeft = 0
  /\ child = "none" /\ death = Alive /\ writers = {}
  /\ pipe = [s \in Streams |-> 0] /\ loaded = FALSE /\ ignored \in BOOLEAN
  /\ produced = [s \in Streams |-> 0] /\ unread = {} /\ late = 0

RunnerStep == Drain \/ Reap \/ CheckDeadline \/ StartPoll \/ Poll \/ End

ChildStep ==
  \/ \E s \in Streams : Write(s)
  \/ CloseEnds \/ ForkDescendant \/ LoadRules
  \/ \E code \in ExitCodes : Exit(code)
=============================================================================
