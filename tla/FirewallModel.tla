--------------------------- MODULE FirewallModel ---------------------------
(***************************************************************************)
(* The portable firewall model: validate() of a rule and of a rule set,    *)
(* and PfRenderer::render.  A text is its size and whether all characters  *)
(* are allowed where it stands; a network is an address of some family and *)
(* the prefixes written after it, -1 for one that is no number.            *)
(***************************************************************************)
EXTENDS Integers, SequencesExt

maximum_rule_id_length == 64
maximum_description_length == 160
maximum_interface_length == 15

AddressFamilies == {"any", "inet", "inet6"}
Protocols == {"any", "tcp", "udp", "icmp", "icmp6"}

Anywhere == [address |-> "any", prefixes |-> <<>>]
maximum_prefix == [inet |-> 32, inet6 |-> 128]

\* "any" takes no prefix.
parse_network(n) ==
  IF n = Anywhere THEN [valid |-> TRUE, family |-> "any"]
  ELSE IF /\ n.address \in {"inet", "inet6"} /\ Len(n.prefixes) <= 1
          /\ \A i \in DOMAIN n.prefixes : n.prefixes[i] \in 0 .. maximum_prefix[n.address]
       THEN [valid |-> TRUE, family |-> n.address]
       ELSE [valid |-> FALSE, family |-> "any"]

Issue(code, condition) == IF condition THEN {code} ELSE {}

validate_endpoint(endpoint, expected) ==
  LET parsed == parse_network(endpoint.network)
  IN Issue("GH-CFG-1004", ~ parsed.valid)
     \cup Issue("GH-CFG-1005", parsed.valid /\ "any" \notin {expected, parsed.family}
                                /\ parsed.family # expected)

\* Plausible bug: two endpoints are compared with the rule and not with each other.
MixedFamiliesNever(rule) == FALSE

\* GH-CFG-1006: the endpoints of a rule without a family disagree.
MixedFamilies(rule) ==
  LET families == {parse_network(rule.source.network).family,
                   parse_network(rule.destination.network).family}
  IN rule.address_family = "any" /\ {"inet", "inet6"} \subseteq families

\* The codes of the issues of a rule.
validate_rule(rule) ==
  Issue("GH-CFG-1001", rule.id.size \notin 1 .. maximum_rule_id_length \/ ~ rule.id.plain)
  \cup Issue("GH-CFG-1002", rule.description.size > maximum_description_length
                            \/ ~ rule.description.plain)
  \cup Issue("GH-CFG-1003", rule.interface.size > maximum_interface_length
                            \/ ~ rule.interface.plain)
  \cup validate_endpoint(rule.source, rule.address_family)
  \cup validate_endpoint(rule.destination, rule.address_family)
  \cup Issue("GH-CFG-1006", MixedFamilies(rule))
  \cup Issue("GH-CFG-1007", (rule.source.port \/ rule.destination.port)
                            /\ rule.protocol \notin {"tcp", "udp"})
  \cup Issue("GH-CFG-1008", rule.protocol = "icmp" /\ rule.address_family = "inet6")
  \cup Issue("GH-CFG-1009", rule.protocol = "icmp6" /\ rule.address_family = "inet")

\* Disabled rules are validated like the others.
validate(rule_set) ==
  LET rules == rule_set.rules
  IN Issue("GH-CFG-1011", rule_set.revision = 0)
     \cup UNION {validate_rule(rules[i]) : i \in DOMAIN rules}
     \cup Issue("GH-CFG-1010", \E i, j \in DOMAIN rules :
                  i < j /\ rules[i].id = rules[j].id /\ rules[i].id.size > 0)

-----------------------------------------------------------------------------
BlockAll == [action |-> "block", log |-> TRUE]
Stray == [action |-> "stray"]   \* the rest of a comment that a line break ended

\* The id and the description are written as a comment, the id alone of a
\* disabled rule; a passing rule keeps state.
append_rule(rule) ==
  (IF rule.id.plain /\ (rule.enabled => rule.description.plain) THEN <<>> ELSE <<Stray>>)
  \o (IF ~ rule.enabled THEN <<>>
      ELSE << [action |-> rule.action, options |-> rule.options,
               interface |-> rule.interface, address_family |-> rule.address_family,
               protocol |-> rule.protocol, source |-> rule.source,
               destination |-> rule.destination, keep_state |-> rule.action = "pass"] >>)

statements_of(rule_set) ==
  [i \in DOMAIN rule_set.rules |-> append_rule(rule_set.rules[i])]

\* The text, without its comments; only a rule set without an issue has one.
render(rule_set) ==
  [revision |-> rule_set.revision,
   statements |-> <<BlockAll>> \o FlattenSeq(statements_of(rule_set))]
=============================================================================
