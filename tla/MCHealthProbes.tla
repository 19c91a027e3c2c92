--------------------------- MODULE MCHealthProbes ---------------------------
EXTENDS HealthProbes

MCEndpoints ==
  {[kind |-> "ipv4", port |-> 1], [kind |-> "ipv4", port |-> 0],
   [kind |-> "ipv6_link_local", port |-> 1]}
=============================================================================
