------------------------ MODULE HealthProbes_proofs ------------------------
(***************************************************************************)
(* The verdicts of pfctl and of the TCP probe are earned, the captured     *)
(* output is honest and the deadlines are kept: for every buffer size,     *)
(* time-out, set of exit codes and set of endpoints.                       *)
(***************************************************************************)
EXTENDS HealthProbes, TLAPS

-----------------------------------------------------------------------------
(* The inductive invariants.                                               *)

\* The steps of run() that follow its loop.
LeftLoop == pc \in {"last_out", "last_err", "end"}

\* Where the status of a finished child went.
Collected ==
  \/ child = "reaped" /\ status = death
  \/ child = "gone" /\ result.timed_out

\* The child, its exit code and the rules it loaded agree.
ChildInv ==
  /\ death = Alive <=> child \in {"none", "running"}
  /\ death = 0 => loaded
  /\ child = "gone" => ignored
  /\ child \in {"zombie", "reaped"} => ~ ignored

\* run() counts a child as finished only when nothing is left to wait for.
LoopInv ==
  pc # "idle" =>
    /\ result.launched /\ child # "none"
    /\ finished => child \in {"reaped", "gone"}
    /\ child = "reaped" => finished
    /\ LeftLoop => finished \/ result.error
    /\ ~ result.timed_out => death \in ExitCodes \cup {Alive}
    /\ finished /\ ~ result.error => Collected

\* A result without an error decodes the status of a collected child.
ReturnInv ==
  pc = "idle" =>
    /\ ~ result.launched => result = NoResult \/ result.error
    /\ result.launched /\ ~ result.error =>
         /\ Collected /\ result.exit_code = status
         /\ ~ result.timed_out => death \in ExitCodes

RunInv == ChildInv /\ LoopInv /\ ReturnInv

\* While nothing of a stream is cut off, what was written of it is what was
\* captured and what its pipe holds; a closed stream has been read to its end.
StreamInv(s) ==
  /\ captured[s] < MaximumCaptured \/ ~ result.truncated =>
       produced[s] = Min({captured[s] + pipe[s], ProducedBound})
  /\ captured[s] = MaximumCaptured => produced[s] >= MaximumCaptured
  /\ pc # "idle" /\ s \notin fd \cup unread => pipe[s] = 0

CaptureInv ==
  /\ \A s \in Streams : StreamInv(s)
  /\ result.truncated => \E s \in Streams : produced[s] > MaximumCaptured
  /\ LeftLoop /\ ~ result.error => fd = {}
  /\ pc = "idle" /\ result.launched /\ ~ result.error /\ unread = {} =>
       \A s \in Streams : pipe[s] = 0

\* The TCP probe runs alone, for an endpoint it may connect to.
TcpInv ==
  /\ probe # "idle" => pc = "idle" /\ parse_numeric_endpoint(endpoint)
  /\ socket = "connected" => accepted
  /\ probe = "connect" => socket = "connecting"
  /\ HealthyIsAccepted

\* Time spent in poll past the deadline.  A poll of run() that overlaps it ends with
\* its slice and is followed by the kill; one of the TCP probe was rounded up.
RunClock ==
  /\ late <= PollSlice
  /\ late > 0 => left = 0
  /\ pc = "poll" => late + pollLeft <= PollSlice
  /\ pc = "poll" /\ finished => pollLeft = 0
  /\ pc = "wait" /\ ~ finished => late = 0

TcpClock ==
  /\ late < TicksPerMs
  /\ late > 0 => left = 0
  /\ probe = "connect" => late = 0
  /\ probe = "poll" => left <= pollLeft /\ pollLeft + late < left + TicksPerMs

ClockInv == IF probe = "idle" THEN RunClock ELSE TcpClock

-----------------------------------------------------------------------------
(* Helpers.                                                                *)

\* The smaller and the greater of two numbers.
LEMMA MinOfTwo ==
  ASSUME NEW a \in Int, NEW b \in Int
  PROVE  /\ a <= b => Min({a, b}) = a
         /\ b <= a => Min({a, b}) = b
  BY DEF Min

LEMMA MaxOfTwo ==
  ASSUME NEW a \in Int, NEW b \in Int
  PROVE  /\ b <= a => Max({a, b}) = a
         /\ a <= b => Max({a, b}) = b
  BY DEF Max

\* r and q differ in the named field only.
SameBut(r, q, field) ==
  \A f \in {"launched", "timed_out", "error", "truncated", "exit_code"} \ {field} :
    q[f] = r[f]

LEMMA ResultUpdates ==
  ASSUME NEW r \in ResultTypes, NEW b \in BOOLEAN,
         NEW x \in {-1, Killed} \cup ExitCodes
  PROVE  /\ LET q == [r EXCEPT !.error = b] IN
              q \in ResultTypes /\ q.error = b /\ SameBut(r, q, "error")
         /\ LET q == [r EXCEPT !.timed_out = b] IN
              q \in ResultTypes /\ q.timed_out = b /\ SameBut(r, q, "timed_out")
         /\ LET q == [r EXCEPT !.truncated = b] IN
              q \in ResultTypes /\ q.truncated = b /\ SameBut(r, q, "truncated")
         /\ LET q == [r EXCEPT !.exit_code = x] IN
              q \in ResultTypes /\ q.exit_code = x /\ SameBut(r, q, "exit_code")
  BY DEF ResultTypes, SameBut

\* The steps of the runner, its child and the clock.
RunnerMove ==
  \/ Drain \/ Reap \/ CheckDeadline \/ StartPoll \/ Poll \/ End
  \/ PollInterrupted \/ PollFailed
  \/ (\E s \in Streams : Write(s)) \/ CloseEnds \/ ForkDescendant \/ LoadRules
  \/ (\E code \in ExitCodes : Exit(code))
  \/ Tick

\* The steps of the TCP probe leave the runner's results alone.
TcpMove ==
  \/ \E e \in Endpoints : ProbeTcp(e)
  \/ Connect \/ WaitConnected \/ PollConnected \/ Inspect \/ Network \/ TickTcp

RunnerKept ==
  UNCHANGED <<pc, fd, finished, status, result, captured, process, produced, unread>>

LEMMA NextCases ==
  ASSUME [Next]_vars
  PROVE  \/ RunPfctl
         \/ UNCHANGED tcp /\ RunnerMove
         \/ TcpMove /\ RunnerKept
         \/ UNCHANGED vars
  <1>1. TcpMove => RunnerKept
    BY DEF TcpMove, RunnerKept, ProbeTcp, Connect, WaitConnected, PollConnected, Inspect,
           Network, TickTcp, run, process, history, runnerVars
  <1> QED
    BY <1>1 DEF Next, RunnerMove, TcpMove, RunnerStep, ChildStep, TcpStep

-----------------------------------------------------------------------------
(* Types.                                                                  *)
ControlTypes ==
  /\ pc \in {"idle", "reap", "deadline", "wait", "poll", "end"} \cup DOMAIN Drains
  /\ fd \subseteq Streams /\ finished \in BOOLEAN /\ result \in ResultTypes
  /\ status \in {Killed} \cup ExitCodes
  /\ child \in {"none", "running", "zombie", "reaped", "gone"}
  /\ death \in {Alive, Killed} \cup ExitCodes
  /\ writers \subseteq {"child", "descendant"}
  /\ loaded \in BOOLEAN /\ ignored \in BOOLEAN /\ unread \subseteq Streams

StreamTypes ==
  /\ captured \in [Streams -> 0 .. MaximumCaptured]
  /\ pipe \in [Streams -> 0 .. PipeSize]
  /\ produced \in [Streams -> 0 .. ProducedBound]

TcpTypes ==
  /\ probe \in {"idle", "connect", "wait", "poll", "inspect"}
  /\ socket \in {"none", "connecting", "connected", "refused", "expired", "reset"}
  /\ endpoint \in Endpoints \cup {NoEndpoint} /\ accepted \in BOOLEAN
  /\ health \in {"none", "healthy", "unhealthy", "timed_out", "execution_error"}

\* What the steps with alternatives do.
LEMMA RunEffect ==
  ASSUME RunPfctl
  PROVE  /\ Fresh /\ result' \in ResultTypes
         /\ ~ result'.timed_out /\ ~ result'.truncated
         /\ \/ /\ ~ result'.launched /\ result'.error
               /\ child' = "none" /\ death' = Alive /\ writers' = {} /\ left' = 0
               /\ loaded' = FALSE /\ UNCHANGED <<pc, fd>>
            \/ /\ result'.launched /\ result'.error /\ result'.exit_code = Killed
               /\ child' = (IF ignored THEN "gone" ELSE "reaped")
               /\ death' = Killed /\ writers' = {} /\ left' = 0
               /\ loaded' \in BOOLEAN /\ UNCHANGED <<pc, fd>>
            \/ /\ result'.launched /\ ~ result'.error
               /\ child' = "running" /\ death' = Alive /\ writers' = {"child"}
               /\ pc' = "out" /\ fd' = Streams /\ left' = Timeout /\ loaded' = FALSE
         /\ pc = "idle" /\ UNCHANGED ignored
  <1>1. NoResult \in ResultTypes
    BY DEF NoResult, ResultTypes
  <1> DEFINE refused == [NoResult EXCEPT !.error = TRUE]
             aborted == [NoResult EXCEPT !.launched = TRUE, !.error = TRUE,
                                         !.exit_code = Killed]
             started == [NoResult EXCEPT !.launched = TRUE]
  <1>2. /\ refused \in ResultTypes
        /\ ~ refused.launched /\ refused.error
        /\ ~ refused.timed_out /\ ~ refused.truncated
    BY <1>1 DEF NoResult, ResultTypes
  <1>3. /\ aborted \in ResultTypes
        /\ aborted.launched /\ aborted.error /\ aborted.exit_code = Killed
        /\ ~ aborted.timed_out /\ ~ aborted.truncated
    BY <1>1 DEF NoResult, ResultTypes
  <1>4. /\ started \in ResultTypes
        /\ started.launched /\ ~ started.error
        /\ ~ started.timed_out /\ ~ started.truncated
    BY <1>1 DEF NoResult, ResultTypes
  <1>5. result' = refused \/ result' = aborted \/ result' = started
    BY DEF RunPfctl, Run
  <1> HIDE DEF refused, aborted, started
  <1> QED
    BY <1>2, <1>3, <1>4, <1>5 DEF RunPfctl, Run, refused, aborted, started

\* drain_descriptor takes n bytes of s from its pipe, or goes on to the next step.
Takes(s, n) ==
  /\ s \in fd /\ n \in 1 .. pipe[s]
  /\ pipe' = [pipe EXCEPT ![s] = @ - n]
  /\ captured' = [captured EXCEPT ![s] = Min({@ + n, MaximumCaptured})]
  /\ result' \in ResultTypes /\ SameBut(result, result', "truncated")
  /\ result'.truncated = (result.truncated \/ captured[s] + n > MaximumCaptured)
  /\ UNCHANGED <<pc, fd, unread>>

Leaves(s) ==
  /\ pc' = After[pc] /\ UNCHANGED <<captured, result, pipe>>
  /\ \/ UNCHANGED <<fd, unread>>
     \/ fd' = fd \ {s} /\ pipe[s] = 0 /\ UNCHANGED unread
     \/ fd' = fd \ {s} /\ unread' = unread \cup {s}

LEMMA DrainEffect ==
  ASSUME Drain, result \in ResultTypes, StreamTypes
  PROVE  \E s \in Streams : s = Drains[pc] /\ ((\E n \in Nat : Takes(s, n)) \/ Leaves(s))
  <1> DEFINE s == Drains[pc]
             n == Min({pipe[s], ReadBuffer})
             cut == captured[s] + n > MaximumCaptured
  <1>1. s \in Streams
    BY DEF Drain, Draining, Drains, Streams
  <1> HIDE DEF s
  <1>2. pipe[s] \in Nat /\ captured[s] \in Nat
    BY <1>1 DEF StreamTypes
  <1>3. pipe[s] > 0 => n \in 1 .. pipe[s]
    BY <1>2, RunnerAssumption, MinOfTwo
  <1> HIDE DEF n
  <1>4. ASSUME s \in fd, pipe[s] > 0,
               pipe' = [pipe EXCEPT ![s] = @ - n],
               captured' = [captured EXCEPT ![s] = append_bounded(captured[s], n).size],
               result' = [result EXCEPT !.truncated =
                            @ \/ append_bounded(captured[s], n).cut],
               UNCHANGED <<pc, fd, unread>>
        PROVE  Takes(s, n)
    <2>1. append_bounded(captured[s], n).size = Min({captured[s] + n, MaximumCaptured})
      BY DEF append_bounded
    <2>2. append_bounded(captured[s], n).cut = cut
      BY DEF append_bounded
    <2>3. (result.truncated \/ cut) \in BOOLEAN
      OBVIOUS
    <2>4. result' = [result EXCEPT !.truncated = result.truncated \/ cut]
      BY <1>4, <2>2
    <2> HIDE DEF cut
    <2>5. /\ result' \in ResultTypes /\ SameBut(result, result', "truncated")
          /\ result'.truncated = (result.truncated \/ cut)
      BY <2>3, <2>4, ResultUpdates
    <2>6. captured' = [captured EXCEPT ![s] = Min({@ + n, MaximumCaptured})]
      BY <1>4, <2>1
    <2> QED
      BY <1>3, <1>4, <2>5, <2>6 DEF Takes, cut
  <1>5. \/ Leaves(s)
        \/ /\ s \in fd /\ pipe[s] > 0
           /\ pipe' = [pipe EXCEPT ![s] = @ - n]
           /\ captured' = [captured EXCEPT ![s] = append_bounded(captured[s], n).size]
           /\ result' = [result EXCEPT !.truncated = @ \/ append_bounded(captured[s], n).cut]
           /\ UNCHANGED <<pc, fd, unread>>
    BY Zenon DEF Drain, DrainEnd, Leaves, s, n
  <1>6. n \in Nat \/ Leaves(s)
    BY <1>2, <1>3, <1>5
  <1> QED
    BY <1>1, <1>4, <1>5, <1>6 DEF s

LEMMA ReapEffect ==
  ASSUME Reap, result \in ResultTypes
  PROVE  /\ pc = "reap" /\ pc' = "deadline" /\ result' \in ResultTypes
         /\ SameBut(result, result', "error")
         /\ \/ /\ ~ finished /\ child = "zombie"
               /\ finished' = TRUE /\ status' = death /\ child' = "reaped"
               /\ UNCHANGED result
            \/ /\ ~ finished /\ child = "gone"
               /\ finished' = TRUE /\ result'.error = TRUE
               /\ UNCHANGED <<status, child>>
            \/ UNCHANGED <<finished, status, child, result>>
         /\ UNCHANGED <<fd, captured, left, pollLeft, death, writers, pipe, loaded, ignored,
                        produced, unread, late>>
  <1>1. /\ pc = "reap" /\ pc' = "deadline"
        /\ UNCHANGED <<fd, captured, left, pollLeft, death, writers, pipe, loaded, ignored,
                        produced, unread, late>>
    BY DEF Reap, history
  <1>2. CASE UNCHANGED result
    <2>1. SameBut(result, result', "error")
      BY <1>2 DEF SameBut
    <2>2. [result EXCEPT !.error = TRUE].error = TRUE
      BY ResultUpdates
    <2> QED
      BY <1>1, <1>2, <2>1, <2>2 DEF Reap
  <1>3. CASE result' = [result EXCEPT !.error = TRUE] /\ ~ UNCHANGED result
    BY <1>1, <1>3, ResultUpdates DEF Reap
  <1> QED
    BY <1>2, <1>3 DEF Reap

LEMMA KillEffect ==
  ASSUME Kill, result \in ResultTypes
  PROVE  /\ result' \in ResultTypes /\ SameBut(result, result', "timed_out")
         /\ result'.timed_out = TRUE
  BY ResultUpdates DEF Kill

LEMMA ControlStep ==
  ASSUME ControlTypes, StreamTypes, RunInv, [Next]_vars
  PROVE  ControlTypes'
  <1> USE RunnerAssumption DEF ControlTypes
  <1>1. CASE RunPfctl
    BY <1>1, RunEffect DEF RunPfctl, Run, Fresh, Drains, Alive, Killed
  <1>2. CASE UNCHANGED tcp /\ RunnerMove
    <2>1. CASE Drain
      <3>1. PICK s \in Streams :
               s = Drains[pc] /\ ((\E n \in Nat : Takes(s, n)) \/ Leaves(s))
        BY <2>1, DrainEffect
      <3>2. fd' \subseteq Streams /\ unread' \subseteq Streams /\ result' \in ResultTypes
        BY <3>1 DEF Takes, Leaves
      <3>3. pc' = pc \/ (pc \in DOMAIN Drains /\ pc' = After[pc])
        <4>1. pc \in DOMAIN Drains
          BY <2>1 DEF Drain, Draining
        <4>2. ASSUME NEW n \in Nat, Takes(s, n) PROVE pc' = pc
          BY <4>2 DEF Takes
        <4>3. Leaves(s) => pc' = After[pc]
          BY DEF Leaves
        <4> QED
          BY <3>1, <4>1, <4>2, <4>3
      <3>4. pc' \in {"idle", "reap", "deadline", "wait", "poll", "end"} \cup DOMAIN Drains
        BY <3>3 DEF Drains, After
      <3> QED
        BY <2>1, <3>2, <3>4 DEF Drain
    <2>2. CASE Reap
      <3>1. pc' = "deadline" /\ result' \in ResultTypes
        BY <2>2, ReapEffect
      <3>2. UNCHANGED <<fd, death, writers, loaded, ignored, unread>>
        BY <2>2, ReapEffect
      <3>3. \/ child = "zombie" /\ finished' = TRUE /\ status' = death /\ child' = "reaped"
            \/ finished' = TRUE /\ UNCHANGED <<status, child>>
            \/ UNCHANGED <<finished, status, child>>
        BY <2>2, ReapEffect
      <3>4. child = "zombie" => death # Alive
        BY DEF RunInv, ChildInv
      <3> QED
        BY <3>1, <3>2, <3>3, <3>4
    <2>3. CASE CheckDeadline
      <3>1. /\ pc' \in {"last_out", "wait"}
            /\ UNCHANGED <<fd, loaded, ignored, unread>>
        BY <2>3 DEF CheckDeadline, history
      <3>2. CASE Expired /\ Kill
        <4>1. /\ result' \in ResultTypes /\ finished' = TRUE
              /\ writers' \subseteq {"child", "descendant"}
          BY <3>2, KillEffect DEF Kill
        <4>2. death' \in {Killed} \cup ExitCodes \/ child = "none"
          BY <3>2 DEF Kill, RunInv, ChildInv
        <4>3. child # "none"
          BY <2>3 DEF CheckDeadline, RunInv, LoopInv
        <4>4. child' \in {"reaped", "gone"} /\ status' \in {Killed} \cup ExitCodes
          BY <3>2, <4>2, <4>3 DEF Kill
        <4> QED
          BY <3>1, <4>1, <4>2, <4>3, <4>4 DEF Drains
      <3>3. CASE UNCHANGED <<result, finished, death, child, status, writers>>
        BY <3>1, <3>3 DEF Drains
      <3> QED
        BY <2>3, <3>2, <3>3 DEF CheckDeadline
    <2>4. CASE StartPoll
      BY <2>4 DEF StartPoll, poll_timeout, ResultTypes, run, process, history, Drains
    <2>5. CASE Poll
      BY <2>5 DEF Poll, Readable, ResultTypes, run, process, history, Drains
    <2>6. CASE End
      BY <2>6 DEF End, ResultTypes, run, process, history, Drains
    <2>7. CASE PollInterrupted
      BY <2>7 DEF PollInterrupted, ResultTypes, run, process, history, Drains
    <2>8. CASE PollFailed
      BY <2>8 DEF PollFailed, ResultTypes, run, process, history, Drains
    <2>9. ASSUME NEW s \in Streams, Write(s) PROVE ControlTypes'
      BY <2>9 DEF Write, ResultTypes, run, process, history, Drains
    <2>10. CASE CloseEnds
      <3>1. PICK p \in writers : writers' = writers \ {p}
        BY <2>10 DEF CloseEnds
      <3> QED
        BY <2>10, <3>1 DEF CloseEnds, run, process, history
    <2>11. CASE ForkDescendant
      BY <2>11 DEF ForkDescendant, ResultTypes, run, process, history, Drains
    <2>12. CASE LoadRules
      BY <2>12 DEF LoadRules, ResultTypes, run, process, history, Drains
    <2>13. ASSUME NEW code \in ExitCodes, Exit(code) PROVE ControlTypes'
      BY <2>13 DEF Exit, ResultTypes, run, process, history, RunInv, ChildInv, Alive, Killed, Drains
    <2>14. CASE Tick
      BY <2>14 DEF Tick, ResultTypes, run, process, history, Drains
    <2> QED
      BY <1>2, <2>1, <2>2, <2>3, <2>4, <2>5, <2>6, <2>7, <2>8, <2>9, <2>10, <2>11, <2>12, <2>13, <2>14 DEF RunnerMove
  <1>3. CASE TcpMove /\ RunnerKept
    BY <1>3 DEF RunnerKept, process
  <1>4. CASE UNCHANGED vars
    BY <1>4 DEF vars, runnerVars, run, process, history
  <1> QED
    BY <1>1, <1>2, <1>3, <1>4, NextCases

LEMMA StreamStep ==
  ASSUME ControlTypes, StreamTypes, [Next]_vars
  PROVE  StreamTypes'
  <1> USE RunnerAssumption
  <1>1. CASE RunPfctl
    BY <1>1, RunEffect DEF Fresh, StreamTypes, ProducedBound
  <1>2. CASE Drain
    <2>1. PICK s \in Streams :
             s = Drains[pc] /\ ((\E n \in Nat : Takes(s, n)) \/ Leaves(s))
      BY <1>2, DrainEffect DEF ControlTypes
    <2>2. UNCHANGED produced
      BY <1>2 DEF Drain
    <2>3. ASSUME NEW n \in Nat, Takes(s, n) PROVE StreamTypes'
      <3>1. pipe[s] - n \in 0 .. PipeSize
        BY <2>3 DEF StreamTypes, Takes
      <3>2. Min({captured[s] + n, MaximumCaptured}) \in 0 .. MaximumCaptured
        BY MinOfTwo DEF StreamTypes
      <3> QED
        BY <2>2, <2>3, <3>1, <3>2 DEF StreamTypes, Takes
    <2>4. CASE Leaves(s)
      BY <2>2, <2>4 DEF StreamTypes, Leaves
    <2> QED
      BY <2>1, <2>3, <2>4
  <1>3. ASSUME NEW s \in Streams, Write(s) PROVE StreamTypes'
    <2>1. pipe[s] + 1 \in 0 .. PipeSize
      BY <1>3 DEF StreamTypes, Write
    <2>2. Min({produced[s] + 1, ProducedBound}) \in 0 .. ProducedBound
      BY MinOfTwo DEF StreamTypes, ProducedBound
    <2> QED
      BY <1>3, <2>1, <2>2 DEF StreamTypes, Write, run
  <1>4. CASE UNCHANGED <<captured, pipe, produced>>
    BY <1>4 DEF StreamTypes
  <1>5. RunnerMove =>
          \/ Drain \/ (\E s \in Streams : Write(s))
          \/ UNCHANGED <<captured, pipe, produced>>
    BY DEF RunnerMove, Reap, CheckDeadline, StartPoll, Poll, End, PollInterrupted, PollFailed,
           CloseEnds, ForkDescendant, LoadRules, Exit, Tick, run, process, history
  <1>6. RunnerKept \/ UNCHANGED vars => UNCHANGED <<captured, pipe, produced>>
    BY DEF RunnerKept, vars, runnerVars, run, process, history
  <1> QED
    BY <1>1, <1>2, <1>3, <1>4, <1>5, <1>6, NextCases

-----------------------------------------------------------------------------
(* Verdicts.                                                               *)
LEMMA RunStep ==
  ASSUME ControlTypes, StreamTypes, RunInv, [Next]_vars
  PROVE  RunInv'
  <1> USE RunnerAssumption DEF RunInv, LeftLoop
  <1>1. CASE RunPfctl
    <2>1. finished' = FALSE
      BY <1>1, RunEffect DEF Fresh
    <2>2. CASE child' = "none"
      BY <1>1, <2>1, <2>2, RunEffect DEF ChildInv, LoopInv, ReturnInv, Alive
    <2>3. CASE child' = (IF ignored THEN "gone" ELSE "reaped")
      BY <1>1, <2>1, <2>3, RunEffect DEF ChildInv, LoopInv, ReturnInv, Alive, Killed
    <2>4. CASE child' = "running"
      BY <1>1, <2>1, <2>4, RunEffect DEF ChildInv, LoopInv, ReturnInv, Alive, Killed
    <2> QED
      BY <1>1, <2>2, <2>3, <2>4, RunEffect
  <1>2. CASE UNCHANGED tcp /\ RunnerMove
    <2>1. CASE Drain
      <3>1. PICK s \in Streams :
               s = Drains[pc] /\ ((\E n \in Nat : Takes(s, n)) \/ Leaves(s))
        BY <2>1, DrainEffect DEF ControlTypes
      <3>2. pc # "idle" /\ pc' # "idle" /\ (LeftLoop' => LeftLoop)
        <4>1. pc \in DOMAIN Drains
          BY <2>1 DEF Drain, Draining
        <4>2. pc' = pc \/ pc' = After[pc]
          BY <3>1 DEF Takes, Leaves
        <4> QED
          BY <4>1, <4>2 DEF Drains, After
      <3>3. SameBut(result, result', "truncated")
        BY <3>1 DEF Takes, Leaves, SameBut
      <3> QED
        BY <2>1, <3>2, <3>3 DEF Drain, SameBut, ChildInv, LoopInv, ReturnInv, Collected
    <2>2. CASE Reap
      <3>1. /\ pc = "reap" /\ pc' = "deadline" /\ UNCHANGED <<death, loaded, ignored>>
            /\ result'.launched = result.launched
            /\ result'.timed_out = result.timed_out
        BY <2>2, ReapEffect DEF ControlTypes, SameBut
      <3>2. CASE UNCHANGED <<finished, status, child, result>>
        BY <3>1, <3>2 DEF ChildInv, LoopInv, ReturnInv, Collected
      <3>3. CASE /\ ~ finished /\ child = "zombie" /\ finished' = TRUE
                 /\ status' = death /\ child' = "reaped"
        BY <3>1, <3>3 DEF ChildInv, LoopInv, ReturnInv, Collected
      <3>4. CASE child = "gone" /\ child' = child /\ finished' = TRUE /\ result'.error
        BY <3>1, <3>4 DEF ChildInv, LoopInv, ReturnInv, Collected
      <3> QED
        BY <2>2, <3>2, <3>3, <3>4, ReapEffect DEF ControlTypes
    <2>3. CASE CheckDeadline
      <3>1. /\ pc = "deadline" /\ pc' \in {"last_out", "wait"}
            /\ pc' = "last_out" => finished'
            /\ UNCHANGED <<loaded, ignored>>
        BY <2>3 DEF CheckDeadline
      <3>2. CASE Expired /\ Kill
        <4>1. /\ result'.launched = result.launched /\ result'.error = result.error
              /\ result'.timed_out = TRUE
          BY <3>2, KillEffect DEF ControlTypes, SameBut
        <4>2. /\ finished' = TRUE /\ ~ finished
              /\ death' = (IF child = "running" THEN Killed ELSE death)
              /\ child' = (IF ignored THEN "gone" ELSE "reaped")
              /\ status' = (IF ignored THEN status ELSE death')
          BY <3>2 DEF Kill, Expired
        <4>3. ChildInv'
          BY <3>1, <4>2 DEF ChildInv, LoopInv, ControlTypes, Alive, Killed
        <4>4. LoopInv' /\ ReturnInv'
          BY <3>1, <4>1, <4>2 DEF ChildInv, LoopInv, ReturnInv, Collected
        <4> QED
          BY <4>3, <4>4
      <3>3. CASE UNCHANGED <<result, finished, death, child, status, writers>>
        BY <3>1, <3>3 DEF ChildInv, LoopInv, ReturnInv, Collected
      <3> QED
        BY <2>3, <3>2, <3>3 DEF CheckDeadline
    <2>4. CASE StartPoll \/ Poll \/ PollInterrupted
      BY <2>4 DEF StartPoll, Poll, PollInterrupted, process, ChildInv, LoopInv, ReturnInv,
                  Collected
    <2>5. CASE PollFailed
      <3>1. result' \in ResultTypes /\ SameBut(result, result', "error") /\ result'.error
        BY <2>5, ResultUpdates DEF PollFailed, ControlTypes
      <3> QED
        BY <2>5, <3>1 DEF PollFailed, process, SameBut, ChildInv, LoopInv, ReturnInv, Collected
    <2>6. CASE End
      <3>1. /\ result' \in ResultTypes /\ SameBut(result, result', "exit_code")
            /\ result'.exit_code = status
        BY <2>6, ResultUpdates DEF End, ControlTypes
      <3> QED
        BY <2>6, <3>1
        DEF End, process, SameBut, ControlTypes, ChildInv, LoopInv, ReturnInv, Collected, Alive
    <2>7. ASSUME NEW s \in Streams, Write(s) PROVE RunInv'
      BY <2>7 DEF Write, run, ChildInv, LoopInv, ReturnInv, Collected
    <2>8. CASE CloseEnds \/ ForkDescendant
      BY <2>8 DEF CloseEnds, ForkDescendant, run, ChildInv, LoopInv, ReturnInv, Collected
    <2>9. CASE LoadRules
      BY <2>9 DEF LoadRules, run, ChildInv, LoopInv, ReturnInv, Collected
    <2>10. ASSUME NEW code \in ExitCodes, Exit(code) PROVE RunInv'
      BY <2>10 DEF Exit, run, ControlTypes, ChildInv, LoopInv, ReturnInv, Collected, Alive
    <2>11. CASE Tick
      BY <2>11 DEF Tick, process, ChildInv, LoopInv, ReturnInv, Collected
    <2> QED
      BY <1>2, <2>1, <2>2, <2>3, <2>4, <2>5, <2>6, <2>7, <2>8, <2>9, <2>10, <2>11
      DEF RunnerMove
  <1>3. CASE RunnerKept
    BY <1>3 DEF RunnerKept, process, ChildInv, LoopInv, ReturnInv, Collected
  <1>4. UNCHANGED vars => RunnerKept
    BY DEF RunnerKept, vars, runnerVars, run, process, history
  <1> QED
    BY <1>1, <1>2, <1>3, <1>4, NextCases

-----------------------------------------------------------------------------
(* The captured output.                                                    *)

\* What was written, limited as the history variable is.
Written(c, p) == Min({c + p, ProducedBound})

LEMMA WrittenIs ==
  ASSUME NEW c \in Nat, NEW p \in Nat
  PROVE  /\ c + p <= MaximumCaptured => Written(c, p) = c + p
         /\ c + p > MaximumCaptured => Written(c, p) = MaximumCaptured + 1
  BY MinOfTwo, RunnerAssumption DEF Written, ProducedBound

\* A stream that is neither read nor written keeps its part of the invariant.
LEMMA StreamKept ==
  ASSUME NEW s \in Streams, StreamInv(s),
         captured'[s] = captured[s], pipe'[s] = pipe[s], produced'[s] = produced[s],
         result.truncated => result'.truncated,
         pc' # "idle" /\ s \notin fd' \cup unread' =>
           pipe[s] = 0 \/ (pc # "idle" /\ s \notin fd \cup unread)
  PROVE  StreamInv(s)'
  BY DEF StreamInv

\* Reading n bytes: what is cut off is marked.
LEMMA TakesKeepsStream ==
  ASSUME StreamTypes, ControlTypes, NEW s \in Streams, NEW n \in Nat, Takes(s, n),
         StreamInv(s), UNCHANGED produced
  PROVE  /\ StreamInv(s)'
         /\ result'.truncated =>
              result.truncated \/ produced[s] > MaximumCaptured
  <1> USE RunnerAssumption
  <1>1. PICK c \in Nat, p \in Nat, w \in Nat, M \in Nat :
           /\ c = captured[s] /\ p = pipe[s] /\ w = produced[s] /\ M = MaximumCaptured
           /\ c <= M /\ w <= M + 1
    BY DEF StreamTypes, ProducedBound
  <1>2. n <= p /\ pipe'[s] = p - n /\ s \in fd' /\ produced'[s] = w
    BY <1>1 DEF Takes, StreamTypes
  <1>3. captured'[s] = Min({c + n, M})
    BY <1>1 DEF Takes, StreamTypes
  <1>4. c + n <= M => captured'[s] = c + n
    BY <1>1, <1>3, MinOfTwo
  <1>5. c + n > M => captured'[s] = M
    BY <1>1, <1>3, MinOfTwo
  <1>6. result'.truncated <=> result.truncated \/ c + n > M
    BY <1>1 DEF Takes, ControlTypes, ResultTypes
  <1>7. (c < M \/ ~ result.truncated => w = Written(c, p)) /\ (c = M => w >= M)
    BY <1>1 DEF StreamInv, Written
  <1>8. result'.truncated => result.truncated \/ w > M
    BY <1>1, <1>2, <1>6, <1>7, WrittenIs
  <1>9. captured'[s] < M \/ ~ result'.truncated => w = Written(captured'[s], p - n)
    <2>1. captured'[s] < M \/ ~ result'.truncated => c + n <= M
      BY <1>4, <1>5, <1>6
    <2>2. Written(c + n, p - n) = Written(c, p)
      <3>1. (c + n) + (p - n) = c + p
        OBVIOUS
      <3> QED
        BY <3>1 DEF Written
    <2> QED
      BY <1>1, <1>4, <1>6, <1>7, <2>1, <2>2
  <1>10. captured'[s] = M => w >= M
    <2>1. CASE c < M
      <3>1. captured'[s] = M => c + p >= M
        BY <1>1, <1>2, <1>4, <1>5
      <3> QED
        BY <1>1, <1>7, <2>1, <3>1, WrittenIs
    <2>2. CASE c = M
      BY <1>7, <2>2
    <2> QED
      BY <1>1, <2>1, <2>2
  <1> QED
    BY <1>1, <1>2, <1>8, <1>9, <1>10 DEF StreamInv, Written

\* Writing a byte.
LEMMA WriteKeepsStream ==
  ASSUME StreamTypes, NEW s \in Streams, Write(s), StreamInv(s)
  PROVE  StreamInv(s)' /\ produced'[s] >= produced[s]
  <1> USE RunnerAssumption
  <1>1. PICK c \in Nat, p \in Nat, w \in Nat, M \in Nat :
           /\ c = captured[s] /\ p = pipe[s] /\ w = produced[s] /\ M = MaximumCaptured
           /\ c <= M /\ w <= M + 1
    BY DEF StreamTypes, ProducedBound
  <1>2. /\ pipe'[s] = p + 1 /\ s \in fd' /\ captured'[s] = c /\ result' = result
        /\ produced'[s] = Min({w + 1, M + 1})
    BY <1>1 DEF Write, run, StreamTypes, ProducedBound
  <1>3. produced'[s] = IF w <= M THEN w + 1 ELSE M + 1
    <2>1. /\ w + 1 <= M + 1 => Min({w + 1, M + 1}) = w + 1
          /\ M + 1 <= w + 1 => Min({w + 1, M + 1}) = M + 1
      BY MinOfTwo
    <2> QED
      BY <1>1, <1>2, <2>1
  <1>4. (c < M \/ ~ result.truncated => w = Written(c, p)) /\ (c = M => w >= M)
    BY <1>1 DEF StreamInv, Written
  <1>5. c < M \/ ~ result.truncated => produced'[s] = Written(c, p + 1)
    <2>1. /\ c + p <= M => Written(c, p) = c + p
          /\ c + p > M => Written(c, p) = M + 1
      BY <1>1, WrittenIs
    <2>2. /\ c + (p + 1) <= M => Written(c, p + 1) = c + (p + 1)
          /\ c + (p + 1) > M => Written(c, p + 1) = M + 1
      BY <1>1, WrittenIs
    <2> QED
      BY <1>1, <1>3, <1>4, <2>1, <2>2
  <1>6. (c = M => produced'[s] >= M) /\ produced'[s] >= w
    BY <1>1, <1>3, <1>4
  <1> QED
    BY <1>1, <1>2, <1>5, <1>6 DEF StreamInv, Written

LEMMA CaptureStep ==
  ASSUME ControlTypes, StreamTypes, RunInv, CaptureInv, [Next]_vars
  PROVE  CaptureInv'
  <1> USE RunnerAssumption
  <1>1. CASE RunPfctl
    <2>1. /\ Fresh /\ ~ result'.truncated
          /\ pc' \in {"idle", "out"} /\ (pc' = "out" => fd' = Streams)
      BY <1>1, RunEffect
    <2>2. ASSUME NEW s \in Streams PROVE StreamInv(s)' /\ pipe'[s] = 0
      <3>1. /\ captured'[s] = 0 /\ pipe'[s] = 0 /\ produced'[s] = 0
            /\ pc' # "idle" => s \in fd'
        BY <2>1 DEF Fresh
      <3>2. Written(0, 0) = 0
        BY WrittenIs
      <3> QED
        BY <3>1, <3>2 DEF StreamInv, Written
    <2> QED
      BY <2>1, <2>2 DEF CaptureInv, LeftLoop
  <1>2. CASE Drain
    <2>1. PICK s \in Streams :
             s = Drains[pc] /\ ((\E n \in Nat : Takes(s, n)) \/ Leaves(s))
      BY <1>2, DrainEffect DEF ControlTypes
    <2>2. UNCHANGED produced
      BY <1>2 DEF Drain
    <2>3. pc # "idle" /\ pc' # "idle" /\ (LeftLoop' => LeftLoop)
      <3>1. pc \in DOMAIN Drains
        BY <1>2 DEF Drain, Draining
      <3>2. pc' = pc \/ pc' = After[pc]
        BY <2>1 DEF Takes, Leaves
      <3> QED
        BY <3>1, <3>2 DEF Drains, After, LeftLoop
    <2>4. ASSUME NEW n \in Nat, Takes(s, n) PROVE CaptureInv'
      <3>1. /\ StreamInv(s)'
            /\ result'.truncated => result.truncated \/ produced[s] > MaximumCaptured
        BY <2>2, <2>4, TakesKeepsStream DEF CaptureInv
      <3>2. /\ result'.error = result.error /\ (result.truncated => result'.truncated)
            /\ UNCHANGED <<fd, unread>>
        BY <2>4 DEF Takes, SameBut, ControlTypes, ResultTypes
      <3>3. ASSUME NEW t \in Streams, t # s PROVE StreamInv(t)'
        <4>1. captured'[t] = captured[t] /\ pipe'[t] = pipe[t]
          BY <2>4, <3>3 DEF Takes, StreamTypes
        <4> QED
          BY <2>2, <2>3, <3>2, <4>1, StreamKept DEF CaptureInv
      <3> QED
        BY <2>2, <2>3, <3>1, <3>2, <3>3 DEF CaptureInv
    <2>5. CASE Leaves(s)
      <3>1. UNCHANGED <<captured, result, pipe>> /\ fd' \subseteq fd
        BY <2>5 DEF Leaves
      <3>2. ASSUME NEW t \in Streams PROVE StreamInv(t)'
        <4>1. t \notin fd' \cup unread' => pipe[t] = 0 \/ t \notin fd \cup unread
          BY <2>5 DEF Leaves
        <4> QED
          BY <2>2, <2>3, <3>1, <4>1, StreamKept DEF CaptureInv
      <3> QED
        BY <2>2, <2>3, <3>1, <3>2 DEF CaptureInv
    <2> QED
      BY <2>1, <2>4, <2>5
  <1>3. ASSUME NEW s \in Streams, Write(s) PROVE CaptureInv'
    <2>1. StreamInv(s)' /\ produced'[s] >= produced[s]
      BY <1>3, WriteKeepsStream DEF CaptureInv
    <2>2. UNCHANGED <<pc, fd, result, captured, unread>> /\ pc # "idle"
      BY <1>3 DEF Write, run
    <2>3. ASSUME NEW t \in Streams, t # s
          PROVE  StreamInv(t)' /\ produced'[t] = produced[t]
      <3>1. produced'[t] = produced[t] /\ pipe'[t] = pipe[t]
        BY <1>3, <2>3 DEF Write, StreamTypes
      <3> QED
        BY <2>2, <3>1, StreamKept DEF CaptureInv
    <2>4. \A t \in Streams : produced[t] \in Nat /\ produced'[t] >= produced[t]
      BY <2>1, <2>3 DEF StreamTypes
    <2>5. ASSUME result.truncated
          PROVE  \E t \in Streams : produced'[t] > MaximumCaptured
      <3>1. PICK t \in Streams : produced[t] > MaximumCaptured
        BY <2>5 DEF CaptureInv
      <3>2. produced'[t] \in Int
        BY <1>3, StreamStep DEF StreamTypes, ProducedBound
      <3> QED
        BY <2>4, <3>1, <3>2
    <2>6. \A t \in Streams : StreamInv(t)'
      BY <2>1, <2>3
    <2> QED
      BY <2>2, <2>5, <2>6 DEF CaptureInv, LeftLoop
  <1>4. ASSUME UNCHANGED <<captured, pipe, produced, unread>>,
               result'.truncated = result.truncated,
               LeftLoop' /\ ~ result'.error => fd' = {},
               pc' # "idle" => pc # "idle" /\ fd' = fd,
               pc' = "idle" /\ result'.launched /\ ~ result'.error /\ unread = {} =>
                 \A s \in Streams : pipe[s] = 0
        PROVE  CaptureInv'
    <2>1. ASSUME NEW s \in Streams PROVE StreamInv(s)'
      BY <1>4, StreamKept DEF CaptureInv
    <2> QED
      BY <1>4, <2>1 DEF CaptureInv
  <1>5. CASE Reap
    BY <1>4, <1>5, ReapEffect DEF ControlTypes, SameBut, LeftLoop
  <1>6. CASE CheckDeadline
    <2>1. /\ UNCHANGED <<captured, pipe, produced, unread, fd>> /\ pc = "deadline"
          /\ pc' \in {"last_out", "wait"} /\ (pc' = "last_out" => fd = {})
      BY <1>6 DEF CheckDeadline, history
    <2>2. result'.truncated = result.truncated
      BY <1>6, KillEffect DEF CheckDeadline, ControlTypes, SameBut
    <2> QED
      BY <1>4, <2>1, <2>2 DEF LeftLoop
  <1>7. CASE PollFailed
    <2>1. result'.error /\ result'.truncated = result.truncated
      BY <1>7, ResultUpdates DEF PollFailed, ControlTypes, SameBut
    <2> QED
      BY <1>4, <1>7, <2>1 DEF PollFailed, process, history
  <1>8. CASE End
    <2>1. SameBut(result, result', "exit_code")
      BY <1>8, ResultUpdates DEF End, ControlTypes
    <2>2. result'.error = result.error /\ result'.truncated = result.truncated
      BY <2>1 DEF SameBut
    <2>3. ~ result'.error /\ unread = {} => \A s \in Streams : pipe[s] = 0
      BY <1>8, <2>2 DEF End, CaptureInv, StreamInv, LeftLoop
    <2> QED
      BY <1>4, <1>8, <2>2, <2>3 DEF End, process, history, LeftLoop
  <1>9. CASE UNCHANGED <<captured, pipe, produced, unread, result, fd>>
             /\ (pc' = pc \/ (pc # "idle" /\ pc' # "idle" /\ ~ LeftLoop'))
    BY <1>4, <1>9 DEF CaptureInv, LeftLoop
  <1>10. RunnerMove =>
           \/ Drain \/ Reap \/ CheckDeadline \/ PollFailed \/ End
           \/ \E s \in Streams : Write(s)
           \/ /\ UNCHANGED <<captured, pipe, produced, unread, result, fd>>
              /\ pc' = pc \/ (pc # "idle" /\ pc' # "idle" /\ ~ LeftLoop')
    BY DEF RunnerMove, StartPoll, Poll, PollInterrupted, CloseEnds, ForkDescendant, LoadRules,
           Exit, Tick, LeftLoop, run, process, history
  <1>11. RunnerKept \/ UNCHANGED vars =>
           UNCHANGED <<captured, pipe, produced, unread, result, fd, pc>>
    BY DEF RunnerKept, vars, runnerVars, run, process, history
  <1> QED
    BY <1>1, <1>2, <1>3, <1>5, <1>6, <1>7, <1>8, <1>9, <1>10, <1>11, NextCases

-----------------------------------------------------------------------------
(* The TCP probe.                                                          *)
LEMMA TcpStepKeeps ==
  ASSUME TcpTypes, TcpInv, [Next]_vars
  PROVE  TcpTypes' /\ TcpInv'
  <1> USE DEF TcpTypes, TcpInv, HealthyIsAccepted
  <1>1. CASE RunPfctl
    BY <1>1 DEF RunPfctl
  <1>2. CASE UNCHANGED tcp /\ RunnerMove
    <2>1. pc # "idle"
      BY <1>2 DEF RunnerMove, Drain, Draining, Drains, Reap, CheckDeadline, StartPoll, Poll,
                  End, PollInterrupted, PollFailed, Write, CloseEnds, ForkDescendant,
                  LoadRules, Exit, Tick
    <2> QED
      BY <1>2, <2>1 DEF tcp
  <1>3. ASSUME NEW e \in Endpoints, ProbeTcp(e) PROVE TcpTypes' /\ TcpInv'
    BY <1>3 DEF ProbeTcp, Report, run
  <1>4. CASE Connect
    BY <1>4 DEF Connect, Report, connection_error, parse_numeric_endpoint
  <1>5. CASE WaitConnected
    BY <1>5 DEF WaitConnected, Report, parse_numeric_endpoint
  <1>6. CASE PollConnected
    BY <1>6 DEF PollConnected, Report, parse_numeric_endpoint
  <1>7. CASE Inspect
    BY <1>7 DEF Inspect, Report, connection_error, parse_numeric_endpoint, runnerVars, run
  <1>8. CASE Network
    <2>1. /\ UNCHANGED <<pc, probe, endpoint, health>> /\ probe # "connect"
          /\ \/ socket' = "connected" /\ accepted' = TRUE
             \/ socket' \in {"refused", "expired", "reset"} /\ accepted' = accepted
      BY <1>8 DEF Network, runnerVars, run
    <2>2. TcpTypes'
      BY <2>1
    <2>3. accepted => accepted'
      BY <2>1
    <2>4. TcpInv'
      BY <2>1, <2>3
    <2> QED
      BY <2>2, <2>4
  <1>9. CASE TickTcp
    BY <1>9 DEF TickTcp, tcp
  <1>10. CASE UNCHANGED vars
    BY <1>10 DEF vars, tcp, runnerVars, run
  <1> QED
    BY <1>1, <1>2, <1>3, <1>4, <1>5, <1>6, <1>7, <1>8, <1>9, <1>10, NextCases DEF TcpMove

-----------------------------------------------------------------------------
(* The deadlines.                                                          *)
ClockTypes ==
  /\ left \in 0 .. Timeout
  /\ pollLeft \in 0 .. Max({PollSlice, Timeout + TicksPerMs})
  /\ late \in 0 .. LateBound

\* A slice of poll is at least one millisecond long, less a tick (it is 10 ms).
SliceCoversRounding == TicksPerMs <= PollSlice + 1

\* The remaining time is rounded up, by less than a millisecond.
LEMMA RemainingIsCeiling ==
  ASSUME NEW t \in Nat, NEW k \in Nat \ {0}
  PROVE  LET r == ((t + k - 1) \div k) * k IN
         r \in Nat /\ t <= r /\ r < t + k
  <1> DEFINE q == (t + k - 1) \div k
             m == (t + k - 1) % k
  <1>1. /\ q \in Nat /\ m \in 0 .. k - 1
        /\ t + k - 1 = q * k + m
    BY SMT
  <1>2. q * k \in Nat
    BY <1>1, SMT
  <1> HIDE DEF q, m
  <1>3. q * k = t + k - 1 - m
    BY <1>1, <1>2
  <1>4. t <= q * k /\ q * k < t + k
    BY <1>1, <1>2, <1>3
  <1> QED
    BY <1>2, <1>4 DEF q

\* One tick.
LEMMA Countdown ==
  ASSUME NEW t \in Nat
  PROVE  Max({t - 1, 0}) = IF t = 0 THEN 0 ELSE t - 1
  <1>1. /\ 0 <= t - 1 => Max({t - 1, 0}) = t - 1
        /\ t - 1 <= 0 => Max({t - 1, 0}) = 0
    BY MaxOfTwo
  <1> QED
    BY <1>1

LEMMA LateCounts ==
  ASSUME NEW t \in 0 .. LateBound
  PROVE  Min({t + 1, LateBound}) = IF t <= PollSlice THEN t + 1 ELSE LateBound
  <1>1. /\ t + 1 <= LateBound => Min({t + 1, LateBound}) = t + 1
        /\ LateBound <= t + 1 => Min({t + 1, LateBound}) = LateBound
    BY MinOfTwo, RunnerAssumption DEF LateBound
  <1> QED
    BY <1>1, RunnerAssumption DEF LateBound

LEMMA ClockTypesStep ==
  ASSUME ClockTypes, [Next]_vars
  PROVE  ClockTypes'
  <1> USE RunnerAssumption
  <1> DEFINE longest == Max({PollSlice, Timeout + TicksPerMs})
  <1>1. longest \in Nat /\ PollSlice <= longest /\ Timeout + TicksPerMs <= longest
    <2>1. /\ Timeout + TicksPerMs <= PollSlice => longest = PollSlice
          /\ PollSlice <= Timeout + TicksPerMs => longest = Timeout + TicksPerMs
      BY MaxOfTwo
    <2> QED
      BY <2>1
  <1> HIDE DEF longest
  <1>2. ClockTypes <=> /\ left \in 0 .. Timeout /\ pollLeft \in 0 .. longest
                       /\ late \in 0 .. LateBound
    BY DEF ClockTypes, longest
  <1>3. left' \in 0 .. Timeout /\ pollLeft' \in 0 .. longest /\ late' \in 0 .. LateBound
        => ClockTypes'
    BY DEF ClockTypes, longest
  <1>4. CASE RunPfctl
    <2>1. pollLeft' = 0 /\ late' = 0 /\ left' \in {0, Timeout}
      BY <1>4, RunEffect DEF Fresh
    <2> QED
      BY <1>1, <1>3, <2>1 DEF LateBound
  <1>5. CASE StartPoll
    BY <1>1, <1>2, <1>3, <1>5 DEF StartPoll, poll_timeout, history
  <1>6. CASE Tick \/ TickTcp
    <2>1. /\ left' = Max({left - 1, 0}) /\ pollLeft' = Max({pollLeft - 1, 0})
          /\ late' = late \/ late' = Min({late + 1, LateBound})
      BY <1>6 DEF Tick, TickTcp
    <2>2. left' \in 0 .. Timeout /\ pollLeft' \in 0 .. longest
      BY <1>1, <1>2, <2>1, Countdown
    <2>3. late' \in 0 .. LateBound
      BY <1>2, <2>1, LateCounts DEF LateBound
    <2> QED
      BY <1>3, <2>2, <2>3
  <1>7. CASE Connect
    BY <1>2, <1>3, <1>7 DEF Connect, history
  <1>8. CASE WaitConnected
    <2>1. remaining \in Nat /\ remaining < left + TicksPerMs
      <3>1. left \in Nat
        BY <1>2
      <3> HIDE <1>1, <1>2, <1>3
      <3> QED
        BY <3>1, RemainingIsCeiling DEF remaining
    <2>2. pollLeft' \in 0 .. longest
      BY <1>1, <1>2, <1>8, <2>1 DEF WaitConnected
    <2> QED
      BY <1>2, <1>3, <1>8, <2>2 DEF WaitConnected, history
  <1>9. CASE left' = left /\ pollLeft' \in {0, pollLeft} /\ late' \in {0, late}
    BY <1>1, <1>2, <1>3, <1>9, RunnerAssumption DEF LateBound
  <1>10. RunnerMove =>
           \/ StartPoll \/ Tick
           \/ left' = left /\ pollLeft' \in {0, pollLeft} /\ late' \in {0, late}
    BY DEF RunnerMove, Drain, Reap, CheckDeadline, Poll, End, PollInterrupted, PollFailed,
           Write, CloseEnds, ForkDescendant, LoadRules, Exit, run, history
  <1>11. TcpMove =>
           \/ Connect \/ WaitConnected \/ TickTcp
           \/ left' = left /\ pollLeft' \in {0, pollLeft} /\ late' \in {0, late}
    BY DEF TcpMove, ProbeTcp, PollConnected, Inspect, Network, run, runnerVars, history
  <1>12. UNCHANGED vars => UNCHANGED <<left, pollLeft, late>>
    BY DEF vars, runnerVars, run, history
  <1> QED
    BY <1>4, <1>5, <1>6, <1>7, <1>8, <1>9, <1>10, <1>11, <1>12, NextCases

LEMMA ClockStep ==
  ASSUME SliceCoversRounding, ControlTypes, StreamTypes, TcpTypes, TcpInv, ClockTypes, ClockInv,
         [Next]_vars
  PROVE  ClockInv'
  <1> USE RunnerAssumption
  <1>1. CASE RunPfctl
    <2>1. pc' \in {"idle", "out"} /\ late' = 0 /\ probe' = "idle"
      BY <1>1, RunEffect DEF RunPfctl, Fresh
    <2> QED
      BY <2>1 DEF ClockInv, RunClock
  <1>2. CASE UNCHANGED tcp /\ RunnerMove
    <2>1. pc # "idle"
      BY <1>2 DEF RunnerMove, Drain, Draining, Drains, Reap, CheckDeadline, StartPoll, Poll,
                  End, PollInterrupted, PollFailed, Write, CloseEnds, ForkDescendant,
                  LoadRules, Exit, Tick
    <2>2. probe = "idle" /\ probe' = "idle"
      BY <1>2, <2>1 DEF TcpInv, tcp
    <2>3. RunClock
      BY <2>2 DEF ClockInv
    <2>4. /\ left \in Nat /\ pollLeft \in Nat /\ late \in 0 .. LateBound
          /\ PollSlice \in Nat
      BY DEF ClockTypes
    <2>5. CASE StartPoll
      BY <2>2, <2>3, <2>4, <2>5
      DEF StartPoll, poll_timeout, process, history, ClockInv, RunClock
    <2>6. CASE CheckDeadline
      <3>1. /\ pc' \in {"last_out", "wait"} /\ UNCHANGED <<left, late>>
            /\ (~ finished' => left # 0)
        BY <2>6 DEF CheckDeadline, Expired, Kill, history
      <3> QED
        BY <2>2, <2>3, <2>4, <3>1 DEF ClockInv, RunClock
    <2>7. CASE Tick
      <3>1. /\ left' = (IF left = 0 THEN 0 ELSE left - 1)
            /\ pollLeft' = (IF pollLeft = 0 THEN 0 ELSE pollLeft - 1)
        BY <2>4, <2>7, Countdown DEF Tick
      <3>2. /\ IF pc = "poll" THEN pollLeft > 0 ELSE left > 0
            /\ UNCHANGED <<pc, finished>>
            /\ pc = "poll" /\ left = 0 => late' = Min({late + 1, LateBound})
            /\ ~ (pc = "poll" /\ left = 0) => late' = late
        BY <2>7 DEF Tick, process
      <3>3. pc = "poll" /\ left = 0 => late' = late + 1
        BY <2>3, <2>4, <3>2, LateCounts DEF RunClock
      <3>4. late <= PollSlice /\ (late > 0 => left = 0)
            /\ (pc = "poll" => late + pollLeft <= PollSlice)
            /\ (pc = "poll" /\ finished => pollLeft = 0)
            /\ (pc = "wait" /\ ~ finished => late = 0)
        BY <2>3 DEF RunClock
      <3>5. RunClock'
        BY <2>4, <3>1, <3>2, <3>3, <3>4 DEF RunClock
      <3> QED
        BY <2>2, <3>5 DEF ClockInv
    <2>8. CASE /\ UNCHANGED <<left, late>>
               /\ \/ UNCHANGED <<pc, finished, pollLeft>>
                  \/ pc' \notin {"poll", "wait"}
      BY <2>2, <2>3, <2>4, <2>8 DEF ClockInv, RunClock
    <2>9. \/ StartPoll \/ CheckDeadline \/ Tick
          \/ /\ UNCHANGED <<left, late>>
             /\ UNCHANGED <<pc, finished, pollLeft>> \/ pc' \notin {"poll", "wait"}
      <3>1. CASE Drain
        <4>1. pc \in DOMAIN Drains
          BY <3>1 DEF Drain, Draining
        <4>2. pc' = pc \/ pc' = After[pc]
          BY <3>1, DrainEffect DEF ControlTypes, Takes, Leaves
        <4> QED
          BY <3>1, <4>1, <4>2 DEF Drain, Drains, After
      <3> QED
        BY <1>2, <3>1
        DEF RunnerMove, Reap, Poll, End, PollInterrupted, PollFailed, Write, CloseEnds,
            ForkDescendant, LoadRules, Exit, run, history
    <2> QED
      BY <2>5, <2>6, <2>7, <2>8, <2>9
  <1>3. /\ left \in Nat /\ pollLeft \in Nat /\ late \in 0 .. LateBound
        /\ PollSlice \in Nat /\ TicksPerMs \in Nat
    BY DEF ClockTypes
  <1>4. probe # "idle" /\ UNCHANGED pc => pc' = "idle"
    BY DEF TcpInv
  <1>5. ASSUME probe # "idle", probe' = "idle", UNCHANGED <<pc, left, late>>
        PROVE  ClockInv'
    BY <1>3, <1>4, <1>5 DEF ClockInv, TcpClock, RunClock, SliceCoversRounding
  <1>6. ASSUME NEW e \in Endpoints, ProbeTcp(e) PROVE ClockInv'
    <2>1. late' = 0 /\ pc = "idle" /\ pc' = "idle" /\ probe' \in {"idle", "connect"}
      BY <1>6 DEF ProbeTcp, Report, run
    <2> QED
      BY <2>1 DEF ClockInv, RunClock, TcpClock
  <1>7. CASE Connect
    <2>1. /\ UNCHANGED <<pc, late>> /\ probe = "connect"
          /\ \/ probe' = "idle" /\ left' = left
             \/ probe' = "wait"
      BY <1>7 DEF Connect, Report, history
    <2> QED
      BY <1>5, <2>1 DEF ClockInv, TcpClock
  <1>8. CASE WaitConnected
    <2>1. CASE left = 0
      BY <1>5, <1>8, <2>1 DEF WaitConnected, Report, history
    <2>2. CASE left > 0
      <3>1. probe = "wait" /\ probe' = "poll" /\ pollLeft' = remaining /\ UNCHANGED <<left, late>>
        BY <1>8, <2>2 DEF WaitConnected, history
      <3>2. late = 0
        BY <1>3, <2>2, <3>1 DEF ClockInv, TcpClock
      <3>3. remaining \in Nat /\ left <= remaining /\ remaining < left + TicksPerMs
        <4> HIDE <1>4, <1>5, <1>6
        <4> QED
          BY <1>3, RemainingIsCeiling DEF remaining
      <3> QED
        BY <1>3, <3>1, <3>2, <3>3 DEF ClockInv, TcpClock
    <2> QED
      BY <1>3, <2>1, <2>2
  <1>9. CASE PollConnected
    <2>1. /\ probe = "poll" /\ probe' \in {"idle", "wait", "inspect"}
          /\ UNCHANGED <<pc, left, late>>
      BY <1>9 DEF PollConnected, Report, history
    <2> QED
      BY <1>5, <2>1 DEF ClockInv, TcpClock
  <1>10. CASE Inspect
    BY <1>5, <1>10 DEF Inspect, Report, runnerVars, run, history
  <1>11. CASE Network
    BY <1>11 DEF Network, runnerVars, run, history, ClockInv, TcpClock
  <1>12. CASE TickTcp
    <2>1. /\ left' = (IF left = 0 THEN 0 ELSE left - 1)
          /\ pollLeft' = (IF pollLeft = 0 THEN 0 ELSE pollLeft - 1)
      BY <1>3, <1>12, Countdown DEF TickTcp
    <2>2. /\ probe \in {"wait", "poll", "inspect"} /\ UNCHANGED probe
          /\ probe = "poll" => pollLeft > 0
          /\ probe # "poll" => left > 0
          /\ left = 0 => late' = Min({late + 1, LateBound})
          /\ left # 0 => late' = late
      BY <1>12 DEF TickTcp, tcp
    <2>3. left = 0 => late' \in {late, late + 1}
      BY <1>3, <2>2, LateCounts DEF LateBound
    <2>4. TcpClock
      BY <2>2 DEF ClockInv
    <2>5. TcpClock'
      BY <1>3, <2>1, <2>2, <2>3, <2>4 DEF TcpClock
    <2> QED
      BY <2>2, <2>5 DEF ClockInv
  <1>13. CASE UNCHANGED vars
    BY <1>13 DEF vars, tcp, runnerVars, run, history, ClockInv, RunClock, TcpClock
  <1> QED
    BY <1>1, <1>2, <1>6, <1>7, <1>8, <1>9, <1>10, <1>11, <1>12, <1>13, NextCases DEF TcpMove

-----------------------------------------------------------------------------
(* The theorems.                                                           *)
ProbeInv ==
  /\ ControlTypes /\ StreamTypes /\ TcpTypes /\ ClockTypes
  /\ RunInv /\ CaptureInv /\ TcpInv

LEMMA ProbeInitially ==
  ASSUME Init
  PROVE  ProbeInv /\ ClockInv
  <1> USE RunnerAssumption DEF Init, RunnerInit
  <1>1. ControlTypes /\ StreamTypes /\ TcpTypes
    <2>1. result \in ResultTypes
      BY DEF ResultTypes, NoResult
    <2>2. ControlTypes
      BY <2>1 DEF ControlTypes, Drains
    <2>3. StreamTypes
      BY DEF StreamTypes, ProducedBound
    <2>4. TcpTypes
      BY DEF TcpTypes
    <2> QED
      BY <2>2, <2>3, <2>4
  <1>2. ClockTypes
    <2>1. Max({PollSlice, Timeout + TicksPerMs}) \in Nat
      BY MaxOfTwo
    <2> QED
      BY <2>1 DEF ClockTypes, LateBound
  <1>3. RunInv
    BY DEF RunInv, ChildInv, LoopInv, ReturnInv, NoResult, Alive
  <1>4. ASSUME NEW s \in Streams PROVE StreamInv(s)
    <2>1. captured[s] = 0 /\ pipe[s] = 0 /\ produced[s] = 0
      OBVIOUS
    <2>2. Written(0, 0) = 0
      BY WrittenIs
    <2> QED
      BY <2>1, <2>2 DEF StreamInv, Written
  <1>5. CaptureInv
    BY <1>4 DEF CaptureInv, LeftLoop, NoResult
  <1>6. TcpInv /\ ClockInv
    BY DEF TcpInv, HealthyIsAccepted, ClockInv, RunClock
  <1> QED
    BY <1>1, <1>2, <1>3, <1>5, <1>6 DEF ProbeInv

LEMMA ProbeStep ==
  ASSUME ProbeInv, [Next]_vars
  PROVE  ProbeInv'
  BY ControlStep, StreamStep, TcpStepKeeps, ClockTypesStep, RunStep, CaptureStep DEF ProbeInv

(***************************************************************************)
(* Every variable keeps its type, whatever the sizes of the buffers and    *)
(* the time-outs: in particular the capture stays within its limit         *)
(* (posix_process_runner.cpp:32).                                          *)
(***************************************************************************)
THEOREM RunnerIsTyped == Spec => []TypeOK
  <1>1. ProbeInv => TypeOK
    BY DEF ProbeInv, TypeOK, ControlTypes, StreamTypes, TcpTypes, ClockTypes
  <1> QED
    BY <1>1, ProbeInitially, ProbeStep, PTL DEF Spec

(***************************************************************************)
(* A verdict on which the activation goes on is pfctl's own, collected     *)
(* from a child that ended by itself, or that of an endpoint that accepted *)
(* the connection (posix_process_runner.cpp:161, :210,                     *)
(* health_probes.cpp:261).                                                 *)
(***************************************************************************)
THEOREM VerdictsComeFromTheSource == Spec => []VerdictsAreEarned
  <1>1. ASSUME ProbeInv PROVE VerdictsAreEarned
    <2>1. HealthyIsAccepted
      BY <1>1 DEF ProbeInv, TcpInv
    <2>2. ASSUME Returned, result.launched, ~ result.error
          PROVE  /\ child \in {"reaped", "gone"}
                 /\ ~ result.timed_out =>
                      child = "reaped" /\ death \in ExitCodes /\ death = result.exit_code
      BY <1>1, <2>2 DEF ProbeInv, RunInv, ReturnInv, Collected, Returned
    <2>3. ChildIsCollected
      BY <2>2 DEF ChildIsCollected
    <2>4. VerdictIsTheChilds
      BY <2>2, RunnerAssumption
      DEF VerdictIsTheChilds, ValidationStatus, ProbeStatus, Unexecuted
    <2> QED
      BY <2>1, <2>3, <2>4 DEF VerdictsAreEarned
  <1> QED
    BY <1>1, ProbeInitially, ProbeStep, PTL DEF Spec

(***************************************************************************)
(* What a run of pfctl leaves behind is an outcome that the activation     *)
(* service's model allows for: "loaded" only with the rules in PF and      *)
(* nobody left to change them (pfctl_loader.cpp:52).                       *)
(***************************************************************************)
THEOREM RunsAreLoads == Spec => []RunIsALoad
  <1>1. ASSUME ProbeInv PROVE RunIsALoad
    <2> DEFINE st == IF LoadStatus(result) = "loaded" THEN "loaded" ELSE "failed"
               pf == IF loaded THEN "target" ELSE "previous"
               lt == IF child = "running" /\ ~ loaded THEN {"target"} ELSE {}
    <2>1. ASSUME Returned, st = "loaded" PROVE pf = "target" /\ lt = {}
      <3>1. /\ result.launched /\ ~ result.error /\ ~ result.timed_out
            /\ result.exit_code = 0
        BY <2>1 DEF LoadStatus, Unexecuted
      <3>2. child = "reaped" /\ death = 0
        BY <1>1, <2>1, <3>1 DEF ProbeInv, RunInv, ReturnInv, Collected, Returned
      <3> QED
        BY <1>1, <3>2 DEF ProbeInv, RunInv, ChildInv
    <2>2. st \in {"loaded", "failed"} /\ pf \in {"previous", "target"} /\ lt \in {{}, {"target"}}
      OBVIOUS
    <2> HIDE DEF st, pf, lt
    <2>3. ASSUME Returned
          PROVE  Loader!Loading(st, pf, lt) \in Loader!LoadRevision("previous", "target")
      BY <2>1, <2>2, <2>3 DEF Loader!Loading, Loader!LoadRevision, Loader!LateLoads
    <2> QED
      BY <2>3 DEF RunIsALoad, st, pf, lt
  <1> QED
    BY <1>1, ProbeInitially, ProbeStep, PTL DEF Spec

(***************************************************************************)
(* The captured output is the beginning of what was written and is marked  *)
(* as truncated exactly when it is not all of it: however the reads and    *)
(* the writes interleave and however large the buffers are                 *)
(* (posix_process_runner.cpp:32).                                          *)
(***************************************************************************)
THEOREM CapturesAreHonest == Spec => []CaptureIsHonest
  <1>1. ASSUME ProbeInv PROVE CaptureIsHonest
    <2>1. SUFFICES ASSUME Returned, result.launched, ~ result.error, unread = {}
                   PROVE  /\ \A s \in Streams :
                                captured[s] = Min({produced[s], MaximumCaptured})
                          /\ result.truncated <=>
                                \E s \in Streams : produced[s] > MaximumCaptured
      BY DEF CaptureIsHonest
    <2>2. ASSUME NEW s \in Streams
          PROVE  /\ captured[s] = Min({produced[s], MaximumCaptured})
                 /\ ~ result.truncated => produced[s] <= MaximumCaptured
      <3>1. PICK c \in Nat, w \in Nat, M \in Nat :
               c = captured[s] /\ w = produced[s] /\ M = MaximumCaptured /\ c <= M
        BY <1>1, RunnerAssumption DEF ProbeInv, StreamTypes, ProducedBound
      <3>2. pipe[s] = 0
        BY <1>1, <2>1 DEF ProbeInv, CaptureInv, Returned
      <3>3. (c < M \/ ~ result.truncated => w = Written(c, 0)) /\ (c = M => w >= M)
        BY <1>1, <3>1, <3>2 DEF ProbeInv, CaptureInv, StreamInv, Written
      <3>4. Written(c, 0) = c
        BY <3>1, WrittenIs
      <3>5. (w <= M => Min({w, M}) = w) /\ (M <= w => Min({w, M}) = M)
        BY MinOfTwo
      <3> QED
        BY <3>1, <3>3, <3>4, <3>5
    <2>3. \A s \in Streams : produced[s] \in Nat
      BY <1>1 DEF ProbeInv, StreamTypes
    <2>4. result.truncated => \E s \in Streams : produced[s] > MaximumCaptured
      BY <1>1 DEF ProbeInv, CaptureInv
    <2>5. ASSUME NEW s \in Streams, produced[s] > MaximumCaptured PROVE result.truncated
      <3>1. ~ result.truncated => produced[s] <= MaximumCaptured
        BY <2>2
      <3> QED
        BY <2>3, <2>5, <3>1, RunnerAssumption
    <2>6. result.truncated \in BOOLEAN
      BY <1>1 DEF ProbeInv, ControlTypes, ResultTypes
    <2> QED
      BY <2>2, <2>4, <2>5, <2>6
  <1> QED
    BY <1>1, ProbeInitially, ProbeStep, PTL DEF Spec

(***************************************************************************)
(* Deadlines are kept on both sides when a slice of poll is not shorter    *)
(* than the rounding of the TCP probe (posix_process_runner.cpp:180, :195, *)
(* health_probes.cpp:229).                                                 *)
(***************************************************************************)
THEOREM DeadlinesAreKept ==
  ASSUME SliceCoversRounding
  PROVE  Spec => DeadlineIsExact
  <1>1. ASSUME ProbeInv, ClockInv, [Next]_vars
        PROVE  ClockInv'
    BY <1>1, ClockStep DEF ProbeInv
  <1>2. ASSUME ProbeInv, ClockInv, ProbeInv', ClockInv', [Next]_vars
        PROVE  [/\ late' <= IF probe' = "idle" THEN PollSlice ELSE TicksPerMs - 1
                /\ result'.timed_out /\ ~ result.timed_out => left = 0
                /\ health' = "timed_out" /\ health # "timed_out" =>
                     left = 0 \/ socket' = "expired"]_vars
    <2>1. late' <= IF probe' = "idle" THEN PollSlice ELSE TicksPerMs - 1
      <3>1. late' \in Nat
        BY <1>2 DEF ProbeInv, ClockTypes, LateBound
      <3> QED
        BY <1>2, <3>1, RunnerAssumption DEF ClockInv, RunClock, TcpClock
    <2>2. ASSUME result'.timed_out, ~ result.timed_out PROVE left = 0
      <3>1. CASE RunPfctl
        BY <2>2, <3>1, RunEffect
      <3>2. CASE CheckDeadline
        BY <2>2, <3>2 DEF CheckDeadline, Expired
      <3>3. CASE Drain
        BY <1>2, <2>2, <3>3, DrainEffect
        DEF ProbeInv, ControlTypes, Takes, Leaves, SameBut
      <3>4. CASE Reap
        BY <1>2, <2>2, <3>4, ReapEffect DEF ProbeInv, ControlTypes, SameBut
      <3>5. CASE End \/ PollFailed
        <4>1. result \in ResultTypes /\ status \in {-1, Killed} \cup ExitCodes
          BY <1>2 DEF ProbeInv, ControlTypes
        <4>2. \/ result' = [result EXCEPT !.exit_code = status]
              \/ result' = [result EXCEPT !.error = TRUE]
          BY <3>5 DEF End, PollFailed
        <4>3. /\ SameBut(result, [result EXCEPT !.exit_code = status], "exit_code")
              /\ SameBut(result, [result EXCEPT !.error = TRUE], "error")
          BY <4>1, ResultUpdates
        <4>4. SameBut(result, result', "exit_code") \/ SameBut(result, result', "error")
          BY <4>2, <4>3
        <4>5. result'.timed_out = result.timed_out
          BY <4>4 DEF SameBut
        <4> QED
          BY <2>2, <4>5
      <3>6. result' # result
        BY <2>2
      <3>7. RunnerMove => Drain \/ Reap \/ CheckDeadline \/ End \/ PollFailed
        BY <3>6
        DEF RunnerMove, StartPoll, Poll, PollInterrupted, Write, CloseEnds, ForkDescendant,
            LoadRules, Exit, Tick, run
      <3>8. ~ RunnerKept /\ ~ UNCHANGED vars
        BY <3>6 DEF RunnerKept, vars, runnerVars, run
      <3> QED
        BY <1>2, <3>1, <3>2, <3>3, <3>4, <3>5, <3>7, <3>8, NextCases
    <2>3. ASSUME health' = "timed_out", health # "timed_out"
          PROVE  left = 0 \/ socket' = "expired"
      <3>1. TcpMove
        BY <1>2, <2>3, NextCases DEF RunPfctl, tcp, vars
      <3>2. CASE PollConnected
        <4>1. probe = "poll" /\ pollLeft = 0
          BY <2>3, <3>2 DEF PollConnected, Report
        <4>2. left \in Nat /\ left <= pollLeft
          BY <1>2, <4>1 DEF ProbeInv, ClockTypes, ClockInv, TcpClock
        <4> QED
          BY <4>1, <4>2
      <3>3. CASE ~ PollConnected
        BY <2>3, <3>1, <3>3
        DEF TcpMove, ProbeTcp, Connect, WaitConnected, Inspect, Network, TickTcp, tcp, Report,
            connection_error
      <3> QED
        BY <3>2, <3>3
    <2> QED
      BY <2>1, <2>2, <2>3
  <1> QED
    BY <1>1, <1>2, ProbeInitially, ProbeStep, PTL DEF Spec, DeadlineIsExact
=============================================================================
