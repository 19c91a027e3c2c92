--------------------------- MODULE MCLocalProtocol ---------------------------
EXTENDS LocalProtocol

Status ==
  [lines |-> 3, version |-> TRUE, request_id |-> TRUE, operation |-> "status",
   operation_id |-> FALSE, authorization_reference |-> FALSE,
   revision |-> NotANumber, probe_timeout |-> NotANumber,
   confirmation_timeout |-> NotANumber]

Activation ==
  [lines |-> 8, version |-> TRUE, request_id |-> TRUE, operation |-> "activate",
   operation_id |-> TRUE, authorization_reference |-> TRUE, revision |-> 1,
   probe_timeout |-> 5000, confirmation_timeout |-> 60000]

\* Two good requests, and what differs from one of them in one place.
MCRequests ==
  {Status, Activation}
  \cup {[r EXCEPT !.lines = n] : r \in {Status, Activation}, n \in {-1, 2, 4}}
  \cup {[Status EXCEPT !.version = FALSE], [Status EXCEPT !.request_id = FALSE],
        [Status EXCEPT !.operation = "other"],
        [Status EXCEPT !.operation = "absent"],
        [Activation EXCEPT !.operation_id = FALSE],
        [Activation EXCEPT !.authorization_reference = FALSE]}
  \cup {[Activation EXCEPT !.revision = n] : n \in {-1, 0}}
  \cup {[Activation EXCEPT !.probe_timeout = n] : n \in {99, 100, 60000, 60001}}
  \cup {[Activation EXCEPT !.confirmation_timeout = n] :
          n \in {999, 1000, 600000, 600001}}
==============================================================================
