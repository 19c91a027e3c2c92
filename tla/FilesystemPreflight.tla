------------------------- MODULE FilesystemPreflight -------------------------
(***************************************************************************)
(* preflight_daemon_filesystem: the four directories, journal first, and   *)
(* the socket path, looked at before the process lock and recovery.  A     *)
(* directory is what lstat, canonical and open tell of it.                 *)
(***************************************************************************)
EXTENDS DaemonConfig

Permissions == {"g+w", "g+x", "o+r", "o+w", "o+x"}

\* plain: a directory reached without links; mine: owned by the effective user;
\* stable: opening it meets the inode that lstat saw.
Directories ==
  [plain : BOOLEAN, mine : BOOLEAN, group : Nat, may : SUBSET Permissions,
   stable : BOOLEAN]

\* Plausible bug: the configured path is not compared with its canonical form.
CanonicalAlways(path, d) == d.plain

\* canonical() equals the configured path only without a trailing slash.
Canonical(path, d) == d.plain /\ path[Len(path)] # ""

SafePermissions(role, d) ==
  /\ d.may \cap {"g+w", "o+w"} = {}
  /\ role = "socket" => d.may \cap {"o+r", "o+w", "o+x"} = {}

\* In mode 0660 the configured group must be able to reach the socket.
ReachableByGroup(d, c) ==
  socket_mode(c) = "0660" => d.group = c.gid[1] /\ "g+x" \in d.may

check_directory(role, d, c) ==
  /\ Canonical(c.path[role], d) /\ d.mine /\ SafePermissions(role, d)
  /\ role = "socket" => ReachableByGroup(d, c)
  /\ d.stable

DirectoriesReady(dirs, c) == \A r \in Roles : check_directory(r, dirs[r], c)

\* The journal comes first, so it is good when a later directory fails.
journal_root_ready(dirs, c) == check_directory("journal", dirs["journal"], c)
=============================================================================
