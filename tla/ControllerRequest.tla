-------------------------- MODULE ControllerRequest --------------------------
(***************************************************************************)
(* What parse_request makes of a payload, and what the activation service  *)
(* demands of the request it is handed.  A payload is abstracted to the    *)
(* facts its lines are asked for; a field that is missing, misnamed or out *)
(* of order is absent.                                                     *)
(***************************************************************************)
EXTENDS Integers

NotANumber == -1   \* parse_unsigned returned nothing

Payloads ==
  [lines : Int,                  \* -1: not a sequence of clean lines
   version : BOOLEAN,            \* the first line is gatehold-controller-v1
   request_id : BOOLEAN,         \* present and a valid identifier
   operation : {"status", "activate", "other", "absent"},
   operation_id : BOOLEAN, authorization_reference : BOOLEAN,
   revision : Int, probe_timeout : Int, confirmation_timeout : Int]

minimum_probe_timeout == 100
maximum_probe_timeout == 60000
minimum_confirmation_timeout == 1000
maximum_confirmation_timeout == 600000

-----------------------------------------------------------------------------
Malformed == [valid |-> FALSE, event |-> "GH-IPC-1002"]
Unsupported == [valid |-> FALSE, event |-> "GH-IPC-1003"]
Parsed(e) == [valid |-> TRUE, event |-> e]

\* Plausible bug: the lower bound of the probe time-out is not tested.
WellFormedActivationLenient(p) ==
  /\ p.lines = 8
  /\ p.operation_id /\ p.authorization_reference
  /\ p.revision \notin {NotANumber, 0}
  /\ p.probe_timeout # NotANumber /\ p.probe_timeout <= maximum_probe_timeout
  /\ p.confirmation_timeout \in
       minimum_confirmation_timeout .. maximum_confirmation_timeout

WellFormedActivation(p) ==
  /\ p.lines = 8
  /\ p.operation_id /\ p.authorization_reference
  /\ p.revision \notin {NotANumber, 0}
  /\ p.probe_timeout \in minimum_probe_timeout .. maximum_probe_timeout
  /\ p.confirmation_timeout \in
       minimum_confirmation_timeout .. maximum_confirmation_timeout

\* The checks of parse_request in their order: shape, version, identity,
\* operation, and the fields of an activation.
parse_request(p) ==
  IF p.lines < 3 THEN Malformed
  ELSE IF ~ p.version THEN Unsupported
  ELSE IF ~ p.request_id \/ p.operation = "absent" THEN Malformed
  ELSE IF p.operation = "other" THEN Unsupported
  ELSE IF p.operation = "status" /\ p.lines = 3 THEN Parsed("GH-IPC-0002")
  ELSE IF p.operation = "activate" /\ WellFormedActivation(p)
       THEN Parsed("GH-IPC-0003")
  ELSE Malformed

\* The first test of PfActivationService::activate, on 64-bit values.
acceptable(p) ==
  /\ p.operation_id /\ p.authorization_reference /\ p.revision # 0
  /\ p.probe_timeout >= minimum_probe_timeout
  /\ p.probe_timeout <= maximum_probe_timeout
  /\ p.confirmation_timeout >= minimum_confirmation_timeout
  /\ p.confirmation_timeout <= maximum_confirmation_timeout
==============================================================================
