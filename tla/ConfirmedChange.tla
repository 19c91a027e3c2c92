--------------------------- MODULE ConfirmedChange ---------------------------
(***************************************************************************)
(* What the activation workflow promises, without its steps: the running   *)
(* ruleset changes only inside a trial of one candidate against the last   *)
(* known good revision; the trial is decided in favour of the candidate at *)
(* most once, while the candidate runs and is marked; and it closes only   *)
(* with the running ruleset and the marker both on the side it decided.    *)
(***************************************************************************)
CONSTANTS Revisions, NoRevision

VARIABLES
  active,     \* ruleset in the kernel
  good,       \* last-known-good marker
  candidate,  \* revision on trial, NoRevision when there is no trial
  base,       \* revision to return to
  decided     \* the trial was decided in favour of the candidate

avars == <<active, good, candidate, base, decided>>

OnTrial == candidate # NoRevision

AInit ==
  /\ good \in Revisions \cup {NoRevision} /\ active = good
  /\ candidate = NoRevision /\ base = NoRevision /\ decided = FALSE

Open(r) ==
  /\ ~ OnTrial /\ good # NoRevision /\ r # good
  /\ candidate' = r /\ base' = good
  /\ UNCHANGED <<active, good, decided>>

\* Load one of the two revisions of an undecided trial.
Apply(r) ==
  /\ OnTrial /\ ~ decided /\ r \in {candidate, base}
  /\ active' = r
  /\ UNCHANGED <<good, candidate, base, decided>>

\* Move the marker to what runs.
Mark ==
  /\ OnTrial /\ ~ decided
  /\ good' = active
  /\ UNCHANGED <<active, candidate, base, decided>>

Decide ==
  /\ OnTrial /\ ~ decided /\ active = candidate /\ good = candidate
  /\ decided' = TRUE
  /\ UNCHANGED <<active, good, candidate, base>>

Close ==
  /\ OnTrial /\ active = good /\ good = (IF decided THEN candidate ELSE base)
  /\ candidate' = NoRevision /\ base' = NoRevision /\ decided' = FALSE
  /\ UNCHANGED <<active, good>>

ANext ==
  \/ \E r \in Revisions : Open(r) \/ Apply(r)
  \/ Mark \/ Decide \/ Close

ASpec == AInit /\ [][ANext]_avars
=============================================================================
