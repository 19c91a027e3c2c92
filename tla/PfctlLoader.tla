----------------------------- MODULE PfctlLoader -----------------------------
(***************************************************************************)
(* `pfctl -f revision', run as a child process with a time limit.  PF      *)
(* replaces its ruleset atomically, but a child that is killed, times out  *)
(* or is not waited for may already have replaced it.                      *)
(***************************************************************************)
EXTENDS Gatehold

CONSTANT ChildMayOutlive  \* TRUE: a pfctl child can outlive the run that started it
ASSUME ChildAssumption == ChildMayOutlive \in BOOLEAN

Loading(s, p, l) == [status |-> s, pf |-> p, late |-> l]

\* The loads that an abandoned run of pfctl may still perform.
LateLoads(revision) == IF ChildMayOutlive THEN {{}, {revision}} ELSE {{}}

\* Success, refusal before launch, or a failure after which PF holds either
\* ruleset (and, when polling failed, the child may still be running).
LoadRevision(active, revision) ==
  {Loading("loaded", revision, {}), Loading("failed", active, {})}
    \cup {Loading("failed", p, l) : p \in {active, revision}, l \in LateLoads(revision)}
=============================================================================
