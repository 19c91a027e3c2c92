---------------------------- MODULE DaemonConfig ----------------------------
(***************************************************************************)
(* parse_daemon_arguments and validate_daemon_identity.  A path is the     *)
(* sequence of its components below "/"; one written with a trailing slash *)
(* ends in an empty component, and "." and ".." are what lexically_normal  *)
(* removes.  An option is the sequence of values given for it.             *)
(***************************************************************************)
EXTENDS Integers, Sequences

CONSTANT MaximumSocketPath  \* bound of sun_path, counted in components

Storage == {"journal", "revisions", "transactions"}
Roles == Storage \cup {"socket"}   \* "socket": the directory of the socket
Commands == {"help", "version", "check-config", "serve-read-only"}

Components(path) == {path[i] : i \in 1 .. Len(path)}
parent_path(path) == SubSeq(path, 1, Len(path) - 1)

safe_absolute_path(path) == path # <<>> /\ Components(path) \cap {".", ".."} = {}

is_same_or_ancestor(a, path) == Len(a) <= Len(path) /\ SubSeq(path, 1, Len(a)) = a

paths_overlap(l, r) == is_same_or_ancestor(l, r) \/ is_same_or_ancestor(r, l)

\* Every required option once, the group at most once, and a value in range.
Complete(a) ==
  /\ \A o \in Storage : Len(a.roots[o]) = 1
  /\ Len(a.socket) = 1 /\ Len(a.uid) = 1 /\ Len(a.gid) <= 1
  /\ \A i \in 1 .. Len(a.gid) : a.gid[i] >= 0
  /\ a.uid[1] >= 0

\* Plausible bug: only equal roots are refused.
SeparateRootsUnequal(root) ==
  \A r, s \in Storage : r # s => root[r] # root[s]

SeparateRoots(root) ==
  \A r, s \in Storage : r # s => ~ paths_overlap(root[r], root[s])

\* The paths of accepted arguments are safe and apart.
parse_daemon_arguments(a) ==
  /\ a.command \in {"check-config", "serve-read-only"} /\ Complete(a)
  /\ LET root == [o \in Storage |-> a.roots[o][1]]
         socket == a.socket[1]
     IN /\ \A o \in Storage : safe_absolute_path(root[o])
        /\ SeparateRoots(root)
        /\ safe_absolute_path(socket) /\ socket[Len(socket)] # ""
        /\ Len(socket) < MaximumSocketPath
        /\ \A o \in Storage : ~ paths_overlap(parent_path(socket), root[o])

\* The directories and credentials of accepted arguments.
Configured(a) ==
  [path |-> [r \in Roles |-> IF r = "socket" THEN parent_path(a.socket[1])
                             ELSE a.roots[r][1]],
   uid |-> a.uid[1], gid |-> a.gid]

\* Without a group only the daemon's own user can connect; a foreign group is
\* given away by root alone.
validate_daemon_identity(c, euid, egid) ==
  IF c.gid = <<>> THEN c.uid = euid ELSE c.gid[1] = egid \/ euid = 0

socket_mode(c) == IF c.gid = <<>> THEN "0600" ELSE "0660"
=============================================================================
