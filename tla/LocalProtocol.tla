---------------------------- MODULE LocalProtocol ----------------------------
(***************************************************************************)
(* ControllerProtocolSession::serve on one connected stream socket: peer   *)
(* check, one request frame, dispatch into the controller, one response    *)
(* frame.  The client sends, reads and closes as it likes; every system    *)
(* call on the socket can be interrupted, come back empty, transfer only   *)
(* part, or fail.  Connections follow each other, as the listener serves   *)
(* them one at a time; the controller lives on.                            *)
(*                                                                         *)
(* What a client sends is chosen when it is looked at: the size when the   *)
(* header is complete, the payload when it is parsed.  Time is counted in  *)
(* ticks, of which TicksPerMs make a millisecond.                          *)
(***************************************************************************)
EXTENDS ControllerState, ControllerRequest, Sequences

CONSTANTS
  Requests,        \* payloads a client may send
  Users, Groups,   \* credentials of the processes that may connect
  AllowedUser, AllowedGroups,  \* the policy; {} when no group is demanded
  HeaderSize,      \* bytes of the length prefix (4 in the code)
  MaximumPayload,  \* maximum_payload_size (4096 in the code)
  ResponseSize,    \* payload of a response
  SocketBuffer,    \* bytes each direction of the socket holds
  IoTimeout,       \* io_timeout in milliseconds
  TicksPerMs

ASSUME ProtocolAssumption ==
  /\ Requests \subseteq Payloads
  /\ AllowedUser \in Users /\ AllowedGroups \subseteq Groups
  /\ HeaderSize \in Nat \ {0} /\ MaximumPayload \in Nat \ {0}
  /\ ResponseSize \in 1 .. MaximumPayload
  /\ SocketBuffer \in Nat \ {0} /\ IoTimeout \in Nat \ {0}
  /\ TicksPerMs \in Nat \ {0}

VARIABLES
  pc,          \* step of serve(), "idle" between connections
  io,          \* in a frame: "wait" (wait_for), "poll" (inside poll), "ready"
  moved,       \* bytes of the current frame transferred, header included
  size,        \* payload size of the current frame
  left,        \* ticks until the deadline of the current frame
  pollLeft,    \* ticks until the poll in progress times out
  spent,       \* history: ticks since the current frame was begun
  peer,        \* credentials of the connected process
  inbox,       \* bytes sent by the client and not yet received
  room,        \* free bytes in the send direction
  open,        \* the client has not closed its end
  ended,       \* the client sends no more: it closed, or shut down that side only
  request,     \* the parsed request, or NoRequest
  response,    \* the response to write, or NoResponse
  verdict,     \* status serve() returns once the response is written
  outcome,     \* ProtocolSessionStatus of the connection served last
  controller,  \* PrivilegedPfController::state_
  trail,       \* history: events appended in this session
  performed    \* history: activations of this session, with their status

stream == <<inbox, room, open, ended>>
frame == <<io, moved, size, left, pollLeft, spent>>
exchange == <<request, response, verdict>>
history == <<trail, performed>>
vars == <<pc, frame, peer, stream, exchange, outcome, controller, history>>

NoRequest == [operation |-> "none"]
NoResponse == [result |-> "none"]
Outcomes ==
  {"completed", "peer_rejected", "timed_out", "invalid_request", "audit_failed",
   "io_error"}
Deadline == IoTimeout * TicksPerMs
SpentBound == Deadline + TicksPerMs   \* bound of the history spent

-----------------------------------------------------------------------------
\* PeerCredentialPolicy::allows.
allows(c) ==
  c.uid = AllowedUser /\ (AllowedGroups = {} \/ c.gid \in AllowedGroups)

\* The argument of poll, in ticks: milliseconds, rounded up.
remaining_timeout(ticks) ==
  ((ticks + TicksPerMs - 1) \div TicksPerMs) * TicksPerMs

\* OperationJournal::append, with a result that decides or is ignored.
Audit(ok, e) == trail' = IF ok THEN trail \cup {e} ELSE trail

\* read_frame or write_frame begins: one deadline for header and payload.
BeginFrame(step, payload) ==
  /\ pc' = step /\ io' = "wait" /\ moved' = 0 /\ size' = payload
  /\ left' = Deadline /\ pollLeft' = 0 /\ spent' = 0

\* response_payload and write_response; v is returned if the write succeeds.
Respond(result, state, activation, v) ==
  /\ response' = [result |-> result, state |-> state, activation |-> activation]
  /\ verdict' = v
  /\ BeginFrame("writing", ResponseSize)

\* serve() returns, and the listener closes the connection.
Return(status) ==
  /\ pc' = "idle" /\ outcome' = status
  /\ UNCHANGED <<frame, peer, stream, exchange, controller>>

-----------------------------------------------------------------------------
\* serve(): a bad timeout or an fcntl that fails ends it without a response.
Serve ==
  /\ pc = "idle"
  /\ peer' \in [uid : Users, gid : Groups]
  /\ inbox' = 0 /\ room' = SocketBuffer /\ open' = TRUE /\ ended' = FALSE
  /\ request' = NoRequest /\ response' = NoResponse /\ verdict' = "io_error"
  /\ trail' = {} /\ performed' = <<>>
  /\ \/ pc' = "idle" /\ outcome' = "io_error"
     \/ pc' = "peer" /\ outcome' = "none"
  /\ UNCHANGED <<frame, controller>>

\* The kernel's word on the peer, its policy, and the event that must be
\* durable before a byte is read.
CheckPeer ==
  /\ pc = "peer"
  /\ \E ok \in BOOLEAN :
       \/ /\ Audit(ok, "GH-IPC-2001")
          /\ Respond("rejected", controller, "none", "peer_rejected")
       \/ /\ ~ allows(peer)
          /\ Audit(ok, "GH-IPC-1001")
          /\ Respond("rejected", controller, "none", "peer_rejected")
       \/ /\ allows(peer) /\ ~ ok
          /\ Audit(ok, "GH-IPC-0001")
          /\ Respond("error", controller, "none", "audit_failed")
       \/ /\ allows(peer) /\ ok
          /\ Audit(ok, "GH-IPC-0001")
          /\ BeginFrame("reading", 0)
          /\ UNCHANGED <<response, verdict>>
  /\ UNCHANGED <<peer, stream, request, outcome, controller, performed>>

-----------------------------------------------------------------------------
(* wait_for, read_exact and write_exact.                                   *)

\* read_frame ended without a frame: event (best effort) and refusal.
Unread(status) ==
  LET v == CASE status = "timed_out" -> "timed_out"
             [] status \in {"invalid_size", "closed"} -> "invalid_request"
             [] OTHER -> "io_error"
      e == CASE v = "timed_out" -> "GH-IPC-2002"
             [] v = "invalid_request" -> "GH-IPC-1002"
             [] OTHER -> "GH-IPC-2003"
  IN /\ \E ok \in BOOLEAN : Audit(ok, e)
     /\ Respond("rejected", controller, "none", v)
     /\ UNCHANGED <<peer, stream, request, outcome, controller, performed>>

\* write_response failed: a dispatched request leaves an event (best effort).
Unwritten ==
  /\ Return("io_error")
  /\ \/ verdict # "completed" /\ UNCHANGED trail
     \/ verdict = "completed" /\ \E ok \in BOOLEAN : Audit(ok, "GH-IPC-2003")
  /\ UNCHANGED performed

\* The frame in progress ends early.
Give(status) == IF pc = "reading" THEN Unread(status) ELSE Unwritten

InFrame(step) == pc \in {"reading", "writing"} /\ io = step

Ready ==
  IF pc = "reading" THEN inbox > 0 \/ ended ELSE room > 0 \/ ~ open

Await(step) ==
  /\ io' = step /\ pollLeft' = 0
  /\ UNCHANGED <<pc, moved, size, left, spent, peer, stream, exchange,
                 outcome, controller, history>>

\* The loop of wait_for: give up at the deadline, else poll for what is left.
Wait ==
  /\ InFrame("wait")
  /\ \/ remaining_timeout(left) = 0 /\ Give("timed_out")
     \/ /\ remaining_timeout(left) > 0
        /\ io' = "poll" /\ pollLeft' = remaining_timeout(left)
        /\ UNCHANGED <<pc, moved, size, left, spent, peer, stream, exchange,
                       outcome, controller, history>>

PollReady == InFrame("poll") /\ Ready /\ Await("ready")

\* Plausible bug: an interrupted transfer is begun again, with a new deadline.
PollInterruptedAnew ==
  /\ InFrame("poll") /\ BeginFrame(pc, IF pc = "reading" THEN 0 ELSE size)
  /\ UNCHANGED <<peer, stream, exchange, outcome, controller, history>>

PollInterrupted == InFrame("poll") /\ Await("wait")

PollExpired == InFrame("poll") /\ pollLeft = 0 /\ ~ Ready /\ Give("timed_out")

PollFailed == InFrame("poll") /\ Give("failed")

\* Plausible bug: the payload gets a deadline of its own.
MovedFresh(n) ==
  /\ moved' = moved + n /\ io' = "wait" /\ UNCHANGED pollLeft
  /\ IF moved + n = HeaderSize
     THEN left' = Deadline /\ UNCHANGED spent
     ELSE UNCHANGED <<left, spent>>

\* n more bytes of the frame; the same deadline goes on.
Moved(n) ==
  /\ moved' = moved + n /\ io' = "wait" /\ UNCHANGED <<left, pollLeft, spent>>

\* recv returns part of what is missing of the header or of the payload.
ReceiveHeader ==
  /\ pc = "reading" /\ io = "ready" /\ moved < HeaderSize
  /\ \E n \in 1 .. HeaderSize - moved, s \in 0 .. MaximumPayload + 1 :
       /\ n <= inbox /\ inbox' = inbox - n
       /\ \/ /\ moved + n < HeaderSize
             /\ Moved(n) /\ UNCHANGED <<pc, size, exchange, trail>>
          \/ /\ moved + n = HeaderSize /\ s # 0 /\ s <= MaximumPayload
             /\ Moved(n) /\ size' = s /\ UNCHANGED <<pc, exchange, trail>>
          \/ /\ moved + n = HeaderSize /\ (s = 0 \/ s > MaximumPayload)
             /\ \E ok \in BOOLEAN : Audit(ok, "GH-IPC-1002")
             /\ Respond("rejected", controller, "none", "invalid_request")
             /\ UNCHANGED request
  /\ UNCHANGED <<peer, room, open, ended, outcome, controller, performed>>

ReceivePayload ==
  /\ pc = "reading" /\ io = "ready" /\ moved >= HeaderSize
  /\ \E n \in 1 .. HeaderSize + size - moved :
       /\ n <= inbox /\ inbox' = inbox - n
       /\ Moved(n)
       /\ pc' = IF moved + n = HeaderSize + size THEN "parse" ELSE "reading"
  /\ UNCHANGED <<size, peer, room, open, ended, exchange, outcome, controller, history>>

\* recv: end of stream, nothing after all (EINTR, EAGAIN), or an error.
ReceiveNothing ==
  /\ pc = "reading" /\ io = "ready"
  /\ \/ inbox = 0 /\ ended /\ Give("closed")
     \/ Await("wait")
     \/ Give("failed")

\* send takes part of what is missing; the last byte ends the session.
Send ==
  /\ pc = "writing" /\ io = "ready" /\ open
  /\ LET end == IF moved < HeaderSize THEN HeaderSize ELSE HeaderSize + size IN
     \E n \in 1 .. end - moved :
       /\ n <= room /\ room' = room - n
       /\ Moved(n)
       /\ IF moved + n = HeaderSize + size
          THEN pc' = "idle" /\ outcome' = verdict
          ELSE UNCHANGED <<pc, outcome>>
  /\ UNCHANGED <<size, peer, inbox, open, ended, exchange, controller, history>>

SendNothing ==
  /\ pc = "writing" /\ io = "ready"
  /\ Await("wait") \/ Unwritten

-----------------------------------------------------------------------------
\* parse_request, and the intent that must be durable before the dispatch.
Parse ==
  /\ pc = "parse"
  /\ \E p \in Requests, ok \in BOOLEAN :
       LET parsed == parse_request(p) IN
       /\ Audit(ok, parsed.event)
       /\ \/ /\ ~ parsed.valid
             /\ Respond("rejected", controller, "none", "invalid_request")
             /\ UNCHANGED request
          \/ /\ parsed.valid /\ ~ ok
             /\ request' = p
             /\ Respond("error", controller, "none", "audit_failed")
          \/ /\ parsed.valid /\ ok /\ p.operation = "status"
             /\ request' = p
             /\ Respond("completed", controller, "none", "completed")
          \/ /\ parsed.valid /\ ok /\ p.operation = "activate"
             /\ request' = p /\ pc' = "dispatch"
             /\ UNCHANGED <<frame, response, verdict>>
  /\ UNCHANGED <<peer, stream, outcome, controller, performed>>

\* The controller's state after an activation that ended with status s.
StateAfter(s) ==
  IF s = "rollback_failed" THEN "blocked"
  ELSE IF requires_read_only(s) THEN "read_only" ELSE controller

\* Plausible bug: the response names the state read before the activation.
ActivateStale ==
  /\ pc = "dispatch"
  /\ \/ /\ controller # "ready"
        /\ Respond("rejected", controller, "not_dispatched", "completed")
        /\ UNCHANGED <<controller, performed>>
     \/ /\ controller = "ready"
        /\ \E s \in ActivationStatuses :
             /\ acceptable(request) \/ s = "invalid_request"
             /\ controller' = StateAfter(s)
             /\ performed' =
                  Append(performed, [revision |-> request.revision, status |-> s])
             /\ Respond("completed", controller, s, "completed")
  /\ UNCHANGED <<peer, stream, request, outcome, trail>>

\* PrivilegedPfController::activate, and the response made of its result.
Activate ==
  /\ pc = "dispatch"
  /\ \/ /\ controller # "ready"
        /\ Respond("rejected", controller, "not_dispatched", "completed")
        /\ UNCHANGED <<controller, performed>>
     \/ /\ controller = "ready"
        /\ \E s \in ActivationStatuses :
             /\ acceptable(request) \/ s = "invalid_request"
             /\ controller' = StateAfter(s)
             /\ performed' =
                  Append(performed, [revision |-> request.revision, status |-> s])
             /\ Respond("completed", StateAfter(s), s, "completed")
  /\ UNCHANGED <<peer, stream, request, outcome, trail>>

-----------------------------------------------------------------------------
(* The environment: the client, the clock and a new controller process.    *)
Client ==
  /\ pc # "idle" /\ open
  /\ \/ /\ pc \in {"peer", "reading"} /\ ~ ended   \* later bytes are never looked at
        /\ \/ inbox < SocketBuffer /\ inbox' = inbox + 1 /\ UNCHANGED ended
           \/ ended' = TRUE /\ UNCHANGED inbox
        /\ UNCHANGED <<room, open>>
     \/ room < SocketBuffer /\ room' = room + 1 /\ UNCHANGED <<inbox, open, ended>>
     \/ open' = FALSE /\ ended' = TRUE /\ UNCHANGED <<inbox, room>>
  /\ UNCHANGED <<pc, frame, peer, exchange, outcome, controller, history>>

\* Time passes while a frame is transferred; a poll returns when its time is up,
\* and code between two calls takes no time once the deadline has passed.
Tick ==
  /\ pc \in {"reading", "writing"}
  /\ IF io = "poll" THEN pollLeft > 0 ELSE left > 0
  /\ left' = IF left > 0 THEN left - 1 ELSE 0
  /\ pollLeft' = IF pollLeft > 0 THEN pollLeft - 1 ELSE 0
  /\ spent' = IF spent < SpentBound THEN spent + 1 ELSE spent
  /\ UNCHANGED <<pc, io, moved, size, peer, stream, exchange, outcome, controller,
                 history>>

Restart ==
  /\ pc = "idle"
  /\ controller' \in {"ready", "read_only", "blocked"}
  /\ UNCHANGED <<pc, frame, peer, stream, exchange, outcome, history>>

-----------------------------------------------------------------------------
Init ==
  /\ pc = "idle" /\ io = "wait" /\ moved = 0 /\ size = 0 /\ left = 0
  /\ pollLeft = 0 /\ spent = 0
  /\ peer \in [uid : Users, gid : Groups] /\ inbox = 0 /\ room = SocketBuffer
  /\ open = FALSE /\ ended = TRUE
  /\ request = NoRequest /\ response = NoResponse /\ verdict = "io_error"
  /\ outcome = "none" /\ controller \in {"ready", "read_only", "blocked"}
  /\ trail = {} /\ performed = <<>>

\* Steps of the session's thread that do not wait for a fault to happen.
Progress ==
  \/ CheckPeer \/ Wait \/ PollReady \/ PollExpired \/ ReceiveHeader
  \/ ReceivePayload \/ ReceiveNothing \/ Send \/ SendNothing \/ Parse \/ Activate

Next ==
  \/ Serve \/ Progress \/ PollInterrupted \/ PollFailed
  \/ Client \/ Tick \/ Restart

Spec == Init /\ [][Next]_vars
FairSpec == Spec /\ WF_vars(Progress) /\ WF_vars(Tick)

-----------------------------------------------------------------------------
Responses ==
  {NoResponse} \cup
  [result : {"completed", "rejected", "error"}, state : ControllerStates,
   activation : {"none", "not_dispatched"} \cup ActivationStatuses]

\* Every variable has its type, and a frame never holds more than its size.
TypeOK ==
  /\ pc \in {"idle", "peer", "reading", "parse", "dispatch", "writing"}
  /\ io \in {"wait", "poll", "ready"}
  /\ size \in 0 .. MaximumPayload /\ moved \in 0 .. HeaderSize + size
  /\ left \in 0 .. Deadline /\ pollLeft \in 0 .. remaining_timeout(Deadline)
  /\ spent \in 0 .. SpentBound /\ peer \in [uid : Users, gid : Groups]
  /\ inbox \in 0 .. SocketBuffer /\ room \in 0 .. SocketBuffer
  /\ open \in BOOLEAN /\ ended \in BOOLEAN
  /\ request \in Requests \cup {NoRequest} /\ response \in Responses
  /\ verdict \in Outcomes /\ outcome \in Outcomes \cup {"none"}
  /\ controller \in ControllerStates
  /\ performed \in Seq([revision : Int, status : ActivationStatuses])

(***************************************************************************)
(* A connection activates at most once, and only what its peer was allowed *)
(* to ask for: the kernel named an allowed peer, the authentication and    *)
(* the intent are in the journal, and the request is one the activation    *)
(* service does not refuse as malformed, so that both layers agree on the  *)
(* bounds (ADR-0012; local_protocol.cpp:137, activation_service.cpp:249).  *)
(***************************************************************************)
DispatchIsEarned ==
  performed # <<>> =>
    /\ Len(performed) = 1
    /\ peer.uid = AllowedUser
    /\ AllowedGroups # {} => peer.gid \in AllowedGroups
    /\ {"GH-IPC-0001", "GH-IPC-0003"} \subseteq trail
    /\ request.operation = "activate" /\ acceptable(request)
    /\ performed[1].revision = request.revision

(***************************************************************************)
(* What a response says of the work is true: one that names an activation  *)
(* status reports the activation that took place, every other one comes    *)
(* from a connection that activated nothing, and the controller's state in *)
(* it is the state after the work, not before (local_protocol.cpp:846).    *)
(* Why a request was "rejected" the result does not tell.                  *)
(***************************************************************************)
ResponseTellsTruth ==
  pc = "writing" =>
    /\ response.state = controller
    /\ IF response.activation \in ActivationStatuses
       THEN /\ response.result = "completed"
            /\ performed = <<[revision |-> request.revision,
                              status |-> response.activation]>>
       ELSE performed = <<>>
    /\ response.result = "error" => trail \cap {"GH-IPC-0002", "GH-IPC-0003"} = {}

(***************************************************************************)
(* What serve() reports to the service is true although the client may     *)
(* close, stall or drip at any byte: "completed" only after the last byte  *)
(* of the response to a dispatched request was handed over, and any        *)
(* refusal only when nothing was activated.  Only "io_error" leaves it     *)
(* open (local_protocol.cpp:861, Response-loss semantics).                 *)
(***************************************************************************)
OutcomeTellsTruth ==
  pc = "idle" =>
    /\ outcome = "completed" =>
         /\ response.result \in {"completed", "rejected"}
         /\ moved = HeaderSize + ResponseSize
         /\ request.operation = "activate" =>
              (performed = <<>>) = (response.activation = "not_dispatched")
    /\ outcome \in Outcomes \ {"completed", "io_error"} =>
         performed = <<>> /\ moved = HeaderSize + ResponseSize

(***************************************************************************)
(* Client and service are both told the truth about the work done for one  *)
(* connection.                                                             *)
(***************************************************************************)
SessionTellsTruth == ResponseTellsTruth /\ OutcomeTellsTruth

(***************************************************************************)
(* Each frame has one deadline and keeps it: however the bytes arrive and  *)
(* however often a call is interrupted, a frame takes less than a          *)
(* millisecond more than io_timeout (local_protocol.cpp:330, :394), and a  *)
(* request is called timed out only when its whole time has passed: the    *)
(* rounding of the remaining time never ends a wait early (:265).          *)
(***************************************************************************)
DeadlineIsExact ==
  [][/\ spent' < SpentBound
     /\ pc = "reading" /\ pc' = "writing" /\ verdict' = "timed_out"
          => spent >= Deadline]_vars

(***************************************************************************)
(* serve() returns whatever the client does, so that one stalled client    *)
(* cannot keep the serial listener (local_protocol.cpp:277).               *)
(***************************************************************************)
SessionEnds == pc # "idle" ~> pc = "idle"
==============================================================================
