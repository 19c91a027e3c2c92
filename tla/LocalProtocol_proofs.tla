------------------------ MODULE LocalProtocol_proofs ------------------------
(***************************************************************************)
(* Proofs about one session after the other of the local protocol, for     *)
(* every frame size, time limit, policy and set of requests: an activation *)
(* is earned by an allowed and audited peer, client and service are told   *)
(* the truth, and a frame keeps its one deadline.                          *)
(***************************************************************************)
EXTENDS LocalProtocol, SequenceTheorems, TLAPS

(***************************************************************************)
(* What a session has established by the time it reaches a step.  The      *)
(* journal holds exactly the authentication until the request is parsed,   *)
(* and nothing has been activated until the dispatch.                      *)
(***************************************************************************)
EarnedInv ==
  /\ pc = "peer" => trail = {}
  /\ pc \in {"reading", "parse"} => allows(peer) /\ trail = {"GH-IPC-0001"}
  /\ pc = "dispatch" =>
       /\ allows(peer) /\ trail = {"GH-IPC-0001", "GH-IPC-0003"}
       /\ request.operation = "activate" /\ acceptable(request)
  /\ pc \in {"peer", "reading", "parse", "dispatch"} => performed = <<>>

\* What the response and the verdict to come say of the session.
AnswerInv ==
  pc = "writing" =>
    /\ size = ResponseSize
    /\ verdict # "completed" => performed = <<>>
    /\ verdict = "completed" =>
         /\ response.result \in {"completed", "rejected"}
         /\ request.operation = "activate" =>
              (performed = <<>>) = (response.activation = "not_dispatched")

SessionInv == EarnedInv /\ AnswerInv /\ DispatchIsEarned /\ SessionTellsTruth

(***************************************************************************)
(* The clock of a frame: until the deadline the ticks left and the ticks   *)
(* spent add up to it, and a poll ends neither before the deadline nor a   *)
(* millisecond after it.                                                   *)
(***************************************************************************)
ClockInv ==
  /\ left \in Nat /\ pollLeft \in Nat /\ spent \in Nat /\ spent < SpentBound
  /\ pc \in {"reading", "writing"} =>
       /\ left > 0 => spent + left = Deadline
       /\ left = 0 => spent >= Deadline
       /\ io = "poll" => pollLeft >= left /\ spent + pollLeft < SpentBound

-----------------------------------------------------------------------------
(* The clock.                                                              *)

\* Rounding up to whole milliseconds adds less than one, and nothing to zero.
LEMMA RoundingUp ==
  ASSUME NEW t \in Nat
  PROVE  /\ remaining_timeout(t) \in Nat
         /\ t <= remaining_timeout(t) /\ remaining_timeout(t) < t + TicksPerMs
         /\ t = 0 => remaining_timeout(t) = 0
<1>1. PICK m \in Nat \ {0} : m = TicksPerMs
  BY ProtocolAssumption
<1>2. PICK q \in Nat : /\ q = (t + m - 1) \div m
                       /\ m * q <= t + m - 1 /\ t + m - 1 < m * q + m
  BY <1>1
<1>3. t = 0 => q = 0
  BY <1>1, <1>2
<1>4. q * m \in Nat /\ t <= q * m /\ q * m < t + m
  BY <1>1, <1>2
<1>5. QED
  BY <1>1, <1>2, <1>3, <1>4 DEF remaining_timeout

LEMMA ClockBounds ==
  /\ Deadline \in Nat /\ SpentBound \in Nat /\ TicksPerMs \in Nat \ {0}
  /\ SpentBound = Deadline + TicksPerMs
BY ProtocolAssumption DEF Deadline, SpentBound

\* The ways a step treats the clock.
Restarted == \E step, payload : BeginFrame(step, payload)
Held ==
  /\ UNCHANGED <<left, spent>> /\ pollLeft' \in {0, pollLeft}
  /\ \/ pc' \notin {"reading", "writing"}
     \/ pc' = pc /\ (io' # "poll" \/ UNCHANGED <<io, pollLeft>>)
Polled ==
  /\ pc \in {"reading", "writing"} /\ remaining_timeout(left) > 0
  /\ pollLeft' = remaining_timeout(left) /\ UNCHANGED <<pc, left, spent>>

\* A frame that is given up starts the clock of the response, or ends the session.
LEMMA GiveClock ==
  ASSUME NEW status, Give(status)
  PROVE  Restarted \/ Held
BY DEF Give, Unread, Unwritten, Return, Respond, frame, Restarted, Held

\* Every step starts the clock again, holds it, polls, or is a tick.
LEMMA ClockCases ==
  [Next]_vars => Restarted \/ Held \/ Polled \/ Tick
<1> SUFFICES ASSUME [Next]_vars PROVE Restarted \/ Held \/ Polled \/ Tick
  OBVIOUS
<1> USE DEF frame, vars
<1>1. CASE Serve \/ Client \/ Restart \/ UNCHANGED vars
  BY <1>1 DEF Serve, Client, Restart, Held
<1>2. CASE CheckPeer
  BY <1>2 DEF CheckPeer, Respond, Restarted
<1>3. CASE Wait
  BY <1>3, GiveClock DEF Wait, InFrame, Polled
<1>4. CASE PollReady \/ PollInterrupted
  BY <1>4 DEF PollReady, PollInterrupted, Await, Held
<1>5. CASE PollExpired \/ PollFailed
  BY <1>5, GiveClock DEF PollExpired, PollFailed
<1>6. CASE ReceiveHeader
  BY <1>6 DEF ReceiveHeader, Moved, Respond, Restarted, Held
<1>7. CASE ReceivePayload
  BY <1>7 DEF ReceivePayload, Moved, Held
<1>8. CASE ReceiveNothing
  BY <1>8, GiveClock DEF ReceiveNothing, Await, Held
<1>9. CASE Send
  BY <1>9 DEF Send, Moved, Held
<1>10. CASE SendNothing
  BY <1>10 DEF SendNothing, Await, Unwritten, Return, Held
<1>11. CASE Parse
  BY <1>11 DEF Parse, Respond, Restarted, Held
<1>12. CASE Activate
  BY <1>12 DEF Activate, Respond, Restarted
<1>13. QED
  BY <1>1, <1>2, <1>3, <1>4, <1>5, <1>6, <1>7, <1>8, <1>9, <1>10, <1>11, <1>12
  DEF Next, Progress

LEMMA ClockInit == Init => ClockInv
BY ClockBounds DEF Init, ClockInv

LEMMA ClockStep == ClockInv /\ [Next]_vars => ClockInv'
<1> SUFFICES ASSUME ClockInv, [Next]_vars PROVE ClockInv'
  OBVIOUS
<1> USE ClockBounds DEF ClockInv
<1>1. CASE Restarted
  BY <1>1 DEF Restarted, BeginFrame
<1>2. CASE Held
  <2>1. /\ UNCHANGED <<left, spent>> /\ pollLeft' \in {0, pollLeft}
        /\ pc' \in {"reading", "writing"} => pc \in {"reading", "writing"}
        /\ pc' \in {"reading", "writing"} /\ io' = "poll"
             => io = "poll" /\ UNCHANGED pollLeft
    BY <1>2 DEF Held
  <2>2. left' \in Nat /\ pollLeft' \in Nat /\ spent' \in Nat /\ spent' < SpentBound
    BY <2>1
  <2>3. ASSUME pc' \in {"reading", "writing"}
        PROVE  /\ left' > 0 => spent' + left' = Deadline
               /\ left' = 0 => spent' >= Deadline
    BY <2>1, <2>3
  <2>4. ASSUME pc' \in {"reading", "writing"}, io' = "poll"
        PROVE  pollLeft' >= left' /\ spent' + pollLeft' < SpentBound
    BY <2>1, <2>4
  <2>5. QED
    BY <2>2, <2>3, <2>4
<1>3. CASE Polled
  BY <1>3, RoundingUp DEF Polled
<1>4. CASE Tick
  BY <1>4 DEF Tick
<1>5. QED
  BY <1>1, <1>2, <1>3, <1>4, ClockCases

(***************************************************************************)
(* However the bytes of a frame arrive and however often a call is         *)
(* interrupted, the frame ends less than a millisecond after its deadline, *)
(* and a request is called timed out only once the deadline has passed.    *)
(***************************************************************************)
THEOREM OneDeadlinePerFrame == Spec => DeadlineIsExact
<1> DEFINE Kept == /\ spent' < SpentBound
                   /\ pc = "reading" /\ pc' = "writing" /\ verdict' = "timed_out"
                        => spent >= Deadline
<1>1. ASSUME ClockInv, ClockInv', [Next]_vars PROVE Kept
  <2> SUFFICES ASSUME pc = "reading", pc' = "writing", verdict' = "timed_out"
               PROVE  spent >= Deadline
    BY <1>1 DEF ClockInv
  <2>1. Wait \/ PollExpired
    BY <1>1 DEF Next, Progress, vars, Serve, CheckPeer, PollReady, PollFailed,
       PollInterrupted, ReceiveHeader, ReceivePayload, ReceiveNothing, Send, SendNothing,
       Parse, Activate, Client, Tick, Restart, Await, Give, Unread, Respond
  <2>2. CASE Wait
    BY <1>1, <2>2, RoundingUp, ClockBounds DEF ClockInv, Wait
  <2>3. CASE PollExpired
    BY <1>1, <2>3, ClockBounds DEF ClockInv, PollExpired, InFrame
  <2>4. QED
    BY <2>1, <2>2, <2>3
<1>2. QED
  BY <1>1, ClockInit, ClockStep, PTL DEF Spec, DeadlineIsExact

-----------------------------------------------------------------------------
(* The session.                                                            *)

\* What parse_request calls a valid activation the activation service accepts:
\* the two layers agree on every bound.
LEMMA ParsedIsAcceptable ==
  ASSUME NEW p \in Requests, parse_request(p).valid, p.operation = "activate"
  PROVE  acceptable(p) /\ parse_request(p).event = "GH-IPC-0003"
<1>1. /\ parse_request(p) \in {Malformed, Unsupported, Parsed("GH-IPC-0003")}
      /\ parse_request(p) = Parsed("GH-IPC-0003") => WellFormedActivation(p)
  <2>1. CASE WellFormedActivation(p)
    BY <2>1 DEF parse_request
  <2>2. CASE ~ WellFormedActivation(p)
    <3>1. parse_request(p) \in {Malformed, Unsupported}
      BY <2>2 DEF parse_request
    <3>2. Malformed # Parsed("GH-IPC-0003") /\ Unsupported # Parsed("GH-IPC-0003")
      BY DEF Malformed, Unsupported, Parsed
    <3>3. QED
      BY <3>1, <3>2
  <2>3. QED
    BY <2>1, <2>2
<1>2. WellFormedActivation(p) => acceptable(p)
  <2> SUFFICES ASSUME WellFormedActivation(p) PROVE acceptable(p)
    OBVIOUS
  <2>1. p.operation_id /\ p.authorization_reference /\ p.revision # 0
    BY Zenon DEF WellFormedActivation
  <2>2. p.probe_timeout \in minimum_probe_timeout .. maximum_probe_timeout
    BY Zenon DEF WellFormedActivation
  <2>3. p.confirmation_timeout \in
          minimum_confirmation_timeout .. maximum_confirmation_timeout
    BY Zenon DEF WellFormedActivation
  <2>4. /\ minimum_probe_timeout \in Int /\ maximum_probe_timeout \in Int
        /\ minimum_confirmation_timeout \in Int /\ maximum_confirmation_timeout \in Int
    BY SMT DEF minimum_probe_timeout, maximum_probe_timeout,
       minimum_confirmation_timeout, maximum_confirmation_timeout
  <2>5. /\ p.probe_timeout >= minimum_probe_timeout
        /\ p.probe_timeout <= maximum_probe_timeout
    BY <2>2, <2>4, SMT
  <2>6. /\ p.confirmation_timeout >= minimum_confirmation_timeout
        /\ p.confirmation_timeout <= maximum_confirmation_timeout
    BY <2>3, <2>4, SMT
  <2>7. QED
    BY <2>1, <2>5, <2>6, Zenon DEF acceptable
<1>3. parse_request(p) = Parsed("GH-IPC-0003")
  BY <1>1 DEF Malformed, Unsupported
<1>4. QED
  BY <1>1, <1>2, <1>3 DEF Parsed

\* A response from a connection that activated nothing: it names no activation
\* status, and an error only if no intent is in the journal.
LEMMA AnswerKeeps ==
  ASSUME NEW result \in {"completed", "rejected", "error"},
         NEW activation \in {"none", "not_dispatched"}, NEW v,
         Respond(result, controller', activation, v), performed' = <<>>,
         result = "error" =>
           v # "completed" /\ trail' \cap {"GH-IPC-0002", "GH-IPC-0003"} = {},
         v = "completed" /\ activation = "none" => request'.operation # "activate"
  PROVE  SessionInv'
<1>1. /\ pc' = "writing" /\ size' = ResponseSize /\ verdict' = v
      /\ response'.result = result /\ response'.state = controller'
      /\ response'.activation = activation
  BY DEF Respond, BeginFrame
<1>2. activation \notin ActivationStatuses
  BY DEF ActivationStatuses, CommittedStatuses, RolledBackStatuses
<1>3. EarnedInv' /\ DispatchIsEarned'
  BY <1>1 DEF EarnedInv, DispatchIsEarned
<1>4. AnswerInv'
  BY <1>1 DEF AnswerInv
<1>5. SessionTellsTruth'
  BY <1>1, <1>2 DEF SessionTellsTruth, ResponseTellsTruth, OutcomeTellsTruth
<1>6. QED
  BY <1>3, <1>4, <1>5 DEF SessionInv

\* Steps that touch neither the session's history nor its answer.
LEMMA SessionStays ==
  ASSUME SessionInv, UNCHANGED <<pc, size, peer, exchange, outcome, controller, history>>,
         pc = "idle" => UNCHANGED moved
  PROVE  SessionInv'
BY DEF SessionInv, EarnedInv, AnswerInv, DispatchIsEarned, SessionTellsTruth,
   ResponseTellsTruth, OutcomeTellsTruth, exchange, history

\* A response that could not be delivered leaves the outcome open.
LEMMA UnwrittenKeeps ==
  ASSUME SessionInv, Unwritten
  PROVE  SessionInv'
<1>1. /\ pc' = "idle" /\ outcome' = "io_error" /\ trail \subseteq trail'
      /\ UNCHANGED <<peer, request, performed>>
  BY DEF Unwritten, Return, Audit, exchange
<1>2. DispatchIsEarned'
  BY <1>1 DEF SessionInv, DispatchIsEarned
<1>3. QED
  BY <1>1, <1>2 DEF SessionInv, EarnedInv, AnswerInv, SessionTellsTruth,
     ResponseTellsTruth, OutcomeTellsTruth

\* A frame that ends early is answered with a refusal, or ends the session.
LEMMA GiveKeeps ==
  ASSUME SessionInv, pc \in {"reading", "writing"}, NEW status, Give(status)
  PROVE  SessionInv'
<1>1. CASE pc = "reading"
  <2>1. Unread(status)
    BY <1>1 DEF Give
  <2>2. PICK v \in {"timed_out", "invalid_request", "io_error"} :
          Respond("rejected", controller, "none", v)
    BY <2>1 DEF Unread
  <2>3. performed' = <<>> /\ controller' = controller
    BY <1>1, <2>1 DEF Unread, SessionInv, EarnedInv
  <2>4. QED
    BY <2>2, <2>3, AnswerKeeps
<1>2. CASE pc = "writing"
  BY <1>2, UnwrittenKeeps DEF Give
<1>3. QED
  BY <1>1, <1>2

LEMMA SessionInit == Init => SessionInv
BY DEF Init, SessionInv, EarnedInv, AnswerInv, DispatchIsEarned, SessionTellsTruth,
   ResponseTellsTruth, OutcomeTellsTruth, Outcomes

LEMMA SessionStep == SessionInv /\ [Next]_vars => SessionInv'
<1> SUFFICES ASSUME SessionInv, [Next]_vars PROVE SessionInv'
  OBVIOUS
<1> USE DEF frame, stream, exchange, history
<1>1. CASE Serve
  BY <1>1 DEF Serve, SessionInv, EarnedInv, AnswerInv, DispatchIsEarned,
     SessionTellsTruth, ResponseTellsTruth, OutcomeTellsTruth, Outcomes
<1>2. CASE CheckPeer
  <2>1. /\ pc = "peer" /\ performed' = <<>> /\ trail = {}
        /\ UNCHANGED <<peer, request, outcome, controller>>
    BY <1>2 DEF CheckPeer, SessionInv, EarnedInv
  <2>2. CASE pc' = "writing"
    <3>1. PICK ok \in BOOLEAN :
            \/ Respond("rejected", controller, "none", "peer_rejected")
            \/ /\ ~ ok /\ Audit(ok, "GH-IPC-0001")
               /\ Respond("error", controller, "none", "audit_failed")
      BY <1>2, <2>2 DEF CheckPeer, BeginFrame
    <3>2. CASE Respond("rejected", controller, "none", "peer_rejected")
      BY <2>1, <3>2, AnswerKeeps
    <3>3. CASE /\ ~ ok /\ Audit(ok, "GH-IPC-0001")
               /\ Respond("error", controller, "none", "audit_failed")
      <4>1. trail' = {}
        BY <2>1, <3>3 DEF Audit
      <4>2. QED
        BY <2>1, <3>3, <4>1, AnswerKeeps
    <3>4. QED
      BY <3>1, <3>2, <3>3
  <2>3. CASE pc' # "writing"
    <3>1. pc' = "reading" /\ allows(peer) /\ trail' = {"GH-IPC-0001"}
      BY <1>2, <2>1, <2>3 DEF CheckPeer, Respond, BeginFrame, Audit
    <3>2. QED
      BY <2>1, <3>1 DEF SessionInv, EarnedInv, AnswerInv, DispatchIsEarned,
         SessionTellsTruth, ResponseTellsTruth, OutcomeTellsTruth, allows
  <2>4. QED
    BY <2>2, <2>3
<1>3. CASE Wait
  BY <1>3, GiveKeeps, SessionStays DEF Wait, InFrame
<1>4. CASE PollReady \/ PollInterrupted
  BY <1>4, SessionStays DEF PollReady, PollInterrupted, InFrame, Await
<1>5. CASE PollExpired \/ PollFailed
  BY <1>5, GiveKeeps DEF PollExpired, PollFailed, InFrame
<1>6. CASE ReceiveHeader
  <2>1. /\ pc = "reading" /\ performed' = performed /\ performed = <<>>
        /\ UNCHANGED <<peer, request, outcome, controller>>
    BY <1>6 DEF ReceiveHeader, SessionInv, EarnedInv
  <2>2. CASE pc' = "writing"
    <3>1. Respond("rejected", controller, "none", "invalid_request")
      BY <1>6, <2>1, <2>2 DEF ReceiveHeader
    <3>2. QED
      BY <2>1, <3>1, AnswerKeeps
  <2>3. CASE pc' # "writing"
    <3>1. pc' = pc /\ UNCHANGED <<exchange, trail>>
      BY <1>6, <2>3 DEF ReceiveHeader, Respond, BeginFrame
    <3>2. QED
      BY <2>1, <3>1 DEF SessionInv, EarnedInv, AnswerInv, DispatchIsEarned,
         SessionTellsTruth, ResponseTellsTruth, OutcomeTellsTruth
  <2>4. QED
    BY <2>2, <2>3
<1>7. CASE ReceivePayload
  <2>1. /\ pc = "reading" /\ pc' \in {"reading", "parse"}
        /\ UNCHANGED <<peer, exchange, outcome, controller, history>>
    BY <1>7 DEF ReceivePayload
  <2>2. QED
    BY <2>1 DEF SessionInv, EarnedInv, AnswerInv, DispatchIsEarned,
       SessionTellsTruth, ResponseTellsTruth, OutcomeTellsTruth
<1>8. CASE ReceiveNothing
  BY <1>8, GiveKeeps, SessionStays DEF ReceiveNothing, Await
<1>9. CASE Send
  <2>1. /\ pc = "writing"
        /\ UNCHANGED <<size, peer, exchange, controller, history>>
        /\ \/ UNCHANGED <<pc, outcome>>
           \/ pc' = "idle" /\ outcome' = verdict /\ moved' = HeaderSize + size
    BY <1>9 DEF Send, Moved
  <2>2. CASE UNCHANGED <<pc, outcome>>
    BY <2>1, <2>2, SessionStays
  <2>3. CASE pc' = "idle" /\ outcome' = verdict /\ moved' = HeaderSize + size
    <3>1. /\ verdict # "completed" => performed = <<>>
          /\ verdict = "completed" =>
               /\ response.result \in {"completed", "rejected"}
               /\ request.operation = "activate" =>
                    (performed = <<>>) = (response.activation = "not_dispatched")
          /\ size = ResponseSize
      BY <2>1 DEF SessionInv, AnswerInv
    <3>2. OutcomeTellsTruth'
      BY <2>1, <2>3, <3>1 DEF OutcomeTellsTruth
    <3>3. EarnedInv' /\ AnswerInv' /\ DispatchIsEarned' /\ ResponseTellsTruth'
      BY <2>1, <2>3 DEF SessionInv, EarnedInv, AnswerInv, DispatchIsEarned,
         ResponseTellsTruth
    <3>4. QED
      BY <3>2, <3>3 DEF SessionInv, SessionTellsTruth
  <2>4. QED
    BY <2>1, <2>2, <2>3
<1>10. CASE SendNothing
  BY <1>10, UnwrittenKeeps, SessionStays DEF SendNothing, Await
<1>11. CASE Parse
  <2>1. PICK p \in Requests, ok \in BOOLEAN :
          /\ Audit(ok, parse_request(p).event)
          /\ \/ /\ ~ parse_request(p).valid
                /\ Respond("rejected", controller, "none", "invalid_request")
             \/ /\ ~ ok
                /\ Respond("error", controller, "none", "audit_failed")
             \/ /\ p.operation = "status" /\ request' = p
                /\ Respond("completed", controller, "none", "completed")
             \/ /\ parse_request(p).valid /\ ok /\ p.operation = "activate"
                /\ request' = p /\ pc' = "dispatch"
    BY <1>11 DEF Parse
  <2>2. /\ performed' = <<>> /\ controller' = controller /\ peer' = peer
        /\ allows(peer) /\ trail = {"GH-IPC-0001"}
    BY <1>11 DEF Parse, SessionInv, EarnedInv
  <2>3. CASE Respond("rejected", controller, "none", "invalid_request")
    BY <2>2, <2>3, AnswerKeeps
  <2>4. CASE ~ ok /\ Respond("error", controller, "none", "audit_failed")
    <3>1. trail' = {"GH-IPC-0001"}
      BY <2>1, <2>2, <2>4 DEF Audit
    <3>2. trail' \cap {"GH-IPC-0002", "GH-IPC-0003"} = {}
      BY <3>1
    <3>3. QED
      BY <2>2, <2>4, <3>2, AnswerKeeps
  <2>5. CASE /\ p.operation = "status" /\ request' = p
             /\ Respond("completed", controller, "none", "completed")
    BY <2>2, <2>5, AnswerKeeps
  <2>6. CASE /\ parse_request(p).valid /\ ok /\ p.operation = "activate"
             /\ request' = p /\ pc' = "dispatch"
    <3>1. acceptable(p) /\ parse_request(p).event = "GH-IPC-0003"
      BY <2>6, ParsedIsAcceptable
    <3>2. trail' = {"GH-IPC-0001", "GH-IPC-0003"}
      BY <2>1, <2>2, <2>6, <3>1 DEF Audit
    <3>3. allows(peer)'
      BY <2>2 DEF allows
    <3>4. EarnedInv'
      BY <2>2, <2>6, <3>1, <3>2, <3>3 DEF EarnedInv
    <3>5. QED
      BY <2>2, <2>6, <3>4 DEF SessionInv, AnswerInv, DispatchIsEarned,
         SessionTellsTruth, ResponseTellsTruth, OutcomeTellsTruth
  <2>7. QED
    BY <2>1, <2>3, <2>4, <2>5, <2>6
<1>12. CASE Activate
  <2>1. /\ pc = "dispatch" /\ UNCHANGED <<peer, request, outcome, trail>>
        /\ allows(peer) /\ trail = {"GH-IPC-0001", "GH-IPC-0003"}
        /\ request.operation = "activate" /\ acceptable(request) /\ performed = <<>>
    BY <1>12 DEF Activate, SessionInv, EarnedInv
  <2>2. CASE /\ Respond("rejected", controller, "not_dispatched", "completed")
             /\ UNCHANGED <<controller, performed>>
    BY <2>1, <2>2, AnswerKeeps
  <2>3. CASE \E s \in ActivationStatuses :
               /\ controller' = StateAfter(s)
               /\ performed' =
                    Append(performed, [revision |-> request.revision, status |-> s])
               /\ Respond("completed", StateAfter(s), s, "completed")
    <3>1. PICK s \in ActivationStatuses :
               /\ controller' = StateAfter(s)
               /\ performed' =
                    Append(performed, [revision |-> request.revision, status |-> s])
               /\ Respond("completed", StateAfter(s), s, "completed")
      BY <2>3
    <3>2. performed' = <<[revision |-> request.revision, status |-> s]>>
      BY <2>1, <3>1
    <3>3. /\ performed' # <<>> /\ Len(performed') = 1
          /\ performed'[1].revision = request.revision
      BY <3>2
    <3>4. /\ pc' = "writing" /\ size' = ResponseSize /\ verdict' = "completed"
          /\ response' = [result |-> "completed", state |-> controller', activation |-> s]
      BY <3>1 DEF Respond, BeginFrame
    <3>5. s # "not_dispatched"
      BY DEF ActivationStatuses, CommittedStatuses, RolledBackStatuses
    <3>6. DispatchIsEarned'
      BY <2>1, <3>3 DEF DispatchIsEarned, allows, acceptable
    <3>7. ResponseTellsTruth'
      BY <2>1, <3>2, <3>4 DEF ResponseTellsTruth
    <3>8. AnswerInv'
      BY <3>3, <3>4, <3>5 DEF AnswerInv
    <3>9. EarnedInv' /\ OutcomeTellsTruth'
      BY <3>4 DEF EarnedInv, OutcomeTellsTruth
    <3>10. QED
      BY <3>6, <3>7, <3>8, <3>9 DEF SessionInv, SessionTellsTruth
  <2>4. QED
    BY <1>12, <2>2, <2>3 DEF Activate
<1>13. CASE Client \/ Tick
  BY <1>13, SessionStays DEF Client, Tick
<1>14. CASE Restart
  BY <1>14 DEF Restart, SessionInv, EarnedInv, AnswerInv, DispatchIsEarned,
     SessionTellsTruth, ResponseTellsTruth, OutcomeTellsTruth
<1>15. CASE UNCHANGED vars
  BY <1>15, SessionStays DEF vars
<1>16. QED
  BY <1>1, <1>2, <1>3, <1>4, <1>5, <1>6, <1>7, <1>8, <1>9, <1>10, <1>11, <1>12,
     <1>13, <1>14, <1>15 DEF Next, Progress

(***************************************************************************)
(* A connection activates at most once, for an allowed peer, with its      *)
(* authentication and its intent in the journal, and only a request that   *)
(* the activation service accepts.                                         *)
(***************************************************************************)
THEOREM OnlyEarnedDispatch == Spec => []DispatchIsEarned
<1>1. SessionInv => DispatchIsEarned
  BY DEF SessionInv
<1>2. QED
  BY <1>1, SessionInit, SessionStep, PTL DEF Spec

\* The response and the outcome of a session say what was done in it.
THEOREM SessionIsTruthful == Spec => []SessionTellsTruth
<1>1. SessionInv => SessionTellsTruth
  BY DEF SessionInv
<1>2. QED
  BY <1>1, SessionInit, SessionStep, PTL DEF Spec
=============================================================================
