--------------------------- MODULE ProcessSandbox ---------------------------
(***************************************************************************)
(* The policy of make_read_only_daemon_sandbox_policy, unveil rules and    *)
(* promises, and the test that apply_daemon_sandbox makes of it first.     *)
(***************************************************************************)
EXTENDS FilesystemPreflight

Pfctl == <<"sbin", "pfctl">>
PfDevice == <<"dev", "pf">>

private_socket_promises ==
  {"stdio", "rpath", "wpath", "cpath", "fattr", "flock", "unix", "proc", "exec"}
delegated_socket_promises == private_socket_promises \cup {"chown"}

make_read_only_daemon_sandbox_policy(c) ==
  [unveil_rules |-> << <<c.path["journal"], "rwc">>, <<c.path["revisions"], "r">>,
                       <<c.path["transactions"], "rwc">>, <<c.path["socket"], "rwc">>,
                       <<Pfctl, "x">>, <<PfDevice, "rw">> >>,
   promises |-> IF c.gid = <<>> THEN private_socket_promises
                ELSE delegated_socket_promises]

valid_policy(policy) ==
  LET rules == policy.unveil_rules
  IN /\ policy.promises \in {private_socket_promises, delegated_socket_promises}
     /\ [i \in DOMAIN rules |-> rules[i][2]] = <<"rwc", "r", "rwc", "rwc", "x", "rw">>
     /\ rules[5][1] = Pfctl /\ rules[6][1] = PfDevice
     /\ \A i \in 1 .. 6 : safe_absolute_path(rules[i][1])
     /\ \A i, j \in 1 .. 6 : i # j => rules[i][1] # rules[j][1]
     /\ \A i, j \in 1 .. 4 : i # j => ~ paths_overlap(rules[i][1], rules[j][1])
=============================================================================
