---------------------------- MODULE MCPreparation ----------------------------
(***************************************************************************)
(* Preparation with two preparers that may share operation ids and numbers.*)
(* Three rule sets are fit; of them pfctl refuses one.  Each of the others *)
(* breaks one rule of the model.                                           *)
(***************************************************************************)
EXTENDS Preparation, TLC

CONSTANTS w1, w2, a1, a2
MCPreparers == {w1, w2}
MCOperationIds == {a1, a2}

Text(size) == [size |-> size, plain |-> TRUE]
Broken == [size |-> 2, plain |-> FALSE]
Host(family) == [address |-> family, prefixes |-> <<>>]
Endpoint(network, port) == [network |-> network, port |-> port]

Base ==
  [id |-> Text(1), description |-> Text(160), interface |-> Text(15),
   address_family |-> "any", protocol |-> "tcp", action |-> "pass", options |-> "quick",
   source |-> Endpoint([address |-> "inet", prefixes |-> <<32>>], FALSE),
   destination |-> Endpoint(Anywhere, TRUE), enabled |-> TRUE]

Fine ==
  {<<>>, <<Base>>,
   <<[Base EXCEPT !.enabled = FALSE], [Base EXCEPT !.id = Text(64), !.action = "block"]>>}

Between(family, source, destination) ==
  [Base EXCEPT !.address_family = family, !.source = Endpoint(source, FALSE),
               !.destination = Endpoint(destination, FALSE)]
Over(protocol, family) ==
  [Between(family, Anywhere, Anywhere) EXCEPT !.protocol = protocol]

\* One issue each, at the boundary of its check.
Unfit ==
  {<<r>> : r \in
     {Between("any", Host("inet6"), Host("inet")), Between("inet", Host("inet6"), Anywhere),
      Between("inet6", Anywhere, Host("inet")), Between("inet", Anywhere, Host("name")),
      Between("any", [address |-> "inet", prefixes |-> <<33>>], Anywhere),
      Between("any", [address |-> "inet6", prefixes |-> <<8, 8>>], Anywhere),
      Over("icmp", "inet6"), Over("icmp6", "inet"), [Base EXCEPT !.protocol = "any"],
      [Base EXCEPT !.id = Text(65)], [Base EXCEPT !.description = Broken],
      [Base EXCEPT !.interface = Text(16), !.enabled = FALSE]}}
  \cup {<<Base, Base>>}

MCRuleSets ==
  {[revision |-> 1, rules |-> rules] : rules \in Fine \cup Unfit}
  \cup {[revision |-> 0, rules |-> <<>>]}
MCValid == {render([revision |-> 1, rules |-> rules]) : rules \in {<<>>, <<Base>>}}
=============================================================================
