---------------------------- MODULE LastKnownGood ----------------------------
(***************************************************************************)
(* The last-known-good marker of the revision store.  As for the           *)
(* transaction store, each operator gives the set of possible outcomes.    *)
(***************************************************************************)
EXTENDS Gatehold

CONSTANT RevisionRootWritable  \* FALSE: the revision root is unveiled read-only
ASSUME WritableAssumption == RevisionRootWritable \in BOOLEAN

Marking(s, m) == [status |-> s, marker |-> m]

\* Replace the marker by rename(2); the revision it names must be loadable.
mark_last_known_good(marker, revision) ==
  {Marking("failed", marker)}
    \cup (IF RevisionRootWritable THEN {Marking("marked", revision)} ELSE {})
    \cup (IF RevisionRootWritable /\ "mark" \in DirSyncMayFail
          THEN {Marking("failed", revision)} ELSE {})

\* Read the marker: NoRevision when it is absent, corrupt or names a bad revision.
last_known_good(marker) == {marker, NoRevision}
=============================================================================
