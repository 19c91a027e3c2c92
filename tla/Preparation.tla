---------------------------- MODULE Preparation ----------------------------
(***************************************************************************)
(* PfPreparationService::prepare with the candidate store, the native      *)
(* validator and the write side of the revision store: several preparers   *)
(* (API processes or threads) turn requests into immutable revision files, *)
(* and any of them can die between two steps.                              *)
(***************************************************************************)
EXTENDS FirewallModel

CONSTANTS
  Preparers,
  OperationIds,
  RuleSets,        \* rule sets that preparations are asked for
  ValidRulesets,   \* rendered rule sets that `pfctl -nf' accepts
  NoFile

\* A revision is unsigned and an address family one of its enumeration.
ASSUME RuleSetAssumption ==
  \A s \in RuleSets :
    /\ s.revision \in Nat /\ s.rules \in Seq(Range(s.rules))
    /\ \A i \in DOMAIN s.rules : s.rules[i].address_family \in AddressFamilies

RevisionNumbers == {s.revision : s \in RuleSets} \ {0}
Rulesets == {render(s) : s \in RuleSets}
ASSUME RulesetAssumption == ValidRulesets \subseteq Rulesets

\* A file that was created and not (completely) written holds a proper prefix.
Partial(c) == [prefix |-> c]
Files == Rulesets \cup {Partial(c) : c \in Rulesets} \cup {NoFile}
ASSUME FileAssumption ==
  NoFile \notin Rulesets \cup {Partial(c) : c \in Rulesets}

VARIABLES
  candidates,  \* staging root: operation id -> file
  revisions,   \* revision root: revision number -> file
  pc,          \* next step of each preparer
  req,         \* the request each preparer works on
  content,     \* what store() read from the candidate
  lost,        \* history: an event of this preparation was lost
  status,      \* result.status of each preparer's last call
  published,   \* history: revision -> ruleset reported as stored, or NoFile
  abandoned    \* history: revisions left behind by a writer that died or failed

history == <<published, abandoned>>
vars == <<candidates, revisions, pc, req, content, lost, status, history>>

Requests == [op : OperationIds, rule_set : RuleSets]
NoRequest == [op |-> NoFile, rule_set |-> NoFile]
Steps == {"idle", "render", "stage", "stage_write", "validate", "read", "create",
          "write", "finish"}
\* "native_failed" stands for native_timed_out, native_execution_error and
\* unsafe_candidate.
Statuses == {"none", "prepared", "invalid_model", "staging_failed",
             "native_rejected", "native_failed", "revision_store_failed",
             "audit_failed"}

rendered(w) == render(req[w].rule_set)
number(w) == req[w].rule_set.revision

Goto(w, step) == pc' = [pc EXCEPT ![w] = step] /\ UNCHANGED <<status, req, content>>
Return(w, s) ==
  /\ pc' = [pc EXCEPT ![w] = "idle"] /\ status' = [status EXCEPT ![w] = s]
  /\ req' = (IF s = "prepared" THEN req ELSE [req EXCEPT ![w] = NoRequest])
  /\ content' = [content EXCEPT ![w] = NoFile]

\* An append fails: prepare() returns audit_failed wherever it is.
Lose(w) == lost' = [lost EXCEPT ![w] = TRUE] /\ Return(w, "audit_failed")

\* The append after a call, then on to the next step or out with a status.
Then(w, step) == (Goto(w, step) /\ UNCHANGED lost) \/ Lose(w)
End(w, s) == (Return(w, s) /\ UNCHANGED lost) \/ Lose(w)

-----------------------------------------------------------------------------
Prepare(w, r) ==
  /\ pc[w] = "idle"
  /\ \/ /\ lost' = [lost EXCEPT ![w] = FALSE]
        /\ pc' = [pc EXCEPT ![w] = "render"]
        /\ status' = [status EXCEPT ![w] = "none"]
        /\ req' = [req EXCEPT ![w] = r] /\ UNCHANGED content
     \/ Lose(w)
  /\ UNCHANGED <<candidates, revisions, history>>

\* Model validation and rendering.
Render(w) ==
  /\ pc[w] = "render"
  /\ \/ validate(req[w].rule_set) = {} /\ Then(w, "stage")
     \/ validate(req[w].rule_set) # {} /\ End(w, "invalid_model")
  /\ UNCHANGED <<candidates, revisions, history>>

\* stage(): O_EXCL refuses a second candidate for the operation id.
StageCreate(w) ==
  /\ pc[w] = "stage"
  /\ \/ End(w, "staging_failed") /\ UNCHANGED candidates
     \/ /\ candidates[req[w].op] = NoFile
        /\ candidates' = [candidates EXCEPT ![req[w].op] = Partial(rendered(w))]
        /\ Goto(w, "stage_write") /\ UNCHANGED lost
  /\ UNCHANGED <<revisions, history>>

\* Write and sync; a failure unlinks the candidate (ignoring whether that works),
\* which may be completely written by then.
StageWrite(w) ==
  /\ pc[w] = "stage_write"
  /\ \/ /\ candidates' = [candidates EXCEPT ![req[w].op] = rendered(w)]
        /\ Then(w, "validate")
     \/ /\ \E f \in {NoFile, Partial(rendered(w)), rendered(w)} :
             candidates' = [candidates EXCEPT ![req[w].op] = f]
        /\ End(w, "staging_failed")
  /\ UNCHANGED <<revisions, history>>

\* Plausible bug: the exit code of pfctl is not looked at.
AcceptsAny(file) == TRUE

\* `pfctl -nf candidate' exits with 0.
Accepts(file) == file \in ValidRulesets

Validate(w) ==
  /\ pc[w] = "validate"
  /\ \/ Accepts(candidates[req[w].op]) /\ Then(w, "read")
     \/ ~ Accepts(candidates[req[w].op]) /\ End(w, "native_rejected")
     \/ End(w, "native_failed")
  /\ UNCHANGED <<candidates, revisions, history>>

\* store() reads the candidate; every refusal before that changes nothing.
StoreRead(w) ==
  /\ pc[w] = "read"
  /\ \/ /\ content' = [content EXCEPT ![w] = candidates[req[w].op]]
        /\ pc' = [pc EXCEPT ![w] = "create"] /\ UNCHANGED <<req, status, lost>>
     \/ End(w, "revision_store_failed")
  /\ UNCHANGED <<candidates, revisions, history>>

\* Plausible bug: the revision is opened without O_EXCL and truncated.
StoreCreateTruncating(w) ==
  /\ pc[w] = "create"
  /\ revisions' = [revisions EXCEPT ![number(w)] = Partial(content[w])]
  /\ Goto(w, "write")
  /\ UNCHANGED <<candidates, lost, history>>

\* openat(O_CREAT | O_EXCL) under the final name.
StoreCreate(w) ==
  /\ pc[w] = "create"
  /\ \/ End(w, "revision_store_failed") /\ UNCHANGED revisions
     \/ /\ revisions[number(w)] = NoFile
        /\ revisions' = [revisions EXCEPT ![number(w)] = Partial(content[w])]
        /\ Goto(w, "write") /\ UNCHANGED lost
  /\ UNCHANGED <<candidates, history>>

\* The outcomes of writing and syncing the file and the directory.
Written(w) ==
  /\ revisions' = [revisions EXCEPT ![number(w)] = content[w]]
  /\ published' = [published EXCEPT ![number(w)] = content[w]]
  /\ Then(w, "finish") /\ UNCHANGED abandoned

\* The name is unlinked, if that works; otherwise the file stays, completely
\* written or not.
NotWritten(w) ==
  /\ \E f \in {NoFile, Partial(content[w]), content[w]} :
       /\ revisions' = [revisions EXCEPT ![number(w)] = f]
       /\ abandoned' = abandoned \cup (IF f = NoFile THEN {} ELSE {number(w)})
  /\ End(w, "revision_store_failed") /\ UNCHANGED published

StoreWrite(w) ==
  /\ pc[w] = "write"
  /\ Written(w) \/ NotWritten(w)
  /\ UNCHANGED candidates

Finish(w) ==
  /\ pc[w] = "finish"
  /\ End(w, "prepared")
  /\ UNCHANGED <<candidates, revisions, history>>

\* The preparer dies; the file it was writing stays, complete or not.
Die(w) ==
  /\ pc[w] # "idle"
  /\ Return(w, "none")
  /\ \/ pc[w] \notin {"stage_write", "write"}
        /\ UNCHANGED <<candidates, revisions, abandoned>>
     \/ /\ pc[w] = "stage_write"
        /\ \E f \in {Partial(rendered(w)), rendered(w)} :
             candidates' = [candidates EXCEPT ![req[w].op] = f]
        /\ UNCHANGED <<revisions, abandoned>>
     \/ /\ pc[w] = "write"
        /\ \E f \in {Partial(content[w]), content[w]} :
             revisions' = [revisions EXCEPT ![number(w)] = f]
        /\ abandoned' = abandoned \cup {number(w)} /\ UNCHANGED candidates
  /\ UNCHANGED <<lost, published>>

-----------------------------------------------------------------------------
Init ==
  /\ candidates = [o \in OperationIds |-> NoFile]
  /\ revisions = [r \in RevisionNumbers |-> NoFile]
  /\ pc = [w \in Preparers |-> "idle"] /\ status = [w \in Preparers |-> "none"]
  /\ req = [w \in Preparers |-> NoRequest]
  /\ content = [w \in Preparers |-> NoFile] /\ lost = [w \in Preparers |-> FALSE]
  /\ published = [r \in RevisionNumbers |-> NoFile] /\ abandoned = {}

Step(w) ==
  \/ Render(w) \/ StageCreate(w) \/ StageWrite(w) \/ Validate(w) \/ StoreRead(w)
  \/ StoreCreate(w) \/ StoreWrite(w) \/ Finish(w)

Next ==
  \E w \in Preparers : Step(w) \/ Die(w) \/ \E r \in Requests : Prepare(w, r)

Spec == Init /\ [][Next]_vars

-----------------------------------------------------------------------------
\* Files, requests, steps and results have their types.
TypeOK ==
  /\ candidates \in [OperationIds -> Files] /\ revisions \in [RevisionNumbers -> Files]
  /\ pc \in [Preparers -> Steps] /\ req \in [Preparers -> Requests \cup {NoRequest}]
  /\ content \in [Preparers -> Files] /\ lost \in [Preparers -> BOOLEAN]
  /\ status \in [Preparers -> Statuses]
  /\ published \in [RevisionNumbers -> Rulesets \cup {NoFile}]
  /\ abandoned \subseteq RevisionNumbers

(***************************************************************************)
(* A preparation that reports "prepared" lost no event, and the revision   *)
(* file under its number holds exactly the ruleset it was asked for, which *)
(* pfctl accepted: two preparers of one revision or of one operation id    *)
(* never both succeed with different rulesets.                             *)
(***************************************************************************)
PreparedIsStored ==
  \A w \in Preparers : pc[w] = "idle" /\ status[w] = "prepared" =>
    /\ ~ lost[w]
    /\ revisions[number(w)] = rendered(w)
    /\ rendered(w) \in ValidRulesets

(***************************************************************************)
(* Revisions are immutable: once store() has written a revision it stays   *)
(* as it is, whatever later preparations of the same number do or fail to  *)
(* do, their clean-up by unlinkat included.                                *)
(***************************************************************************)
PublishedIsImmutable ==
  \A r \in RevisionNumbers : published[r] # NoFile => revisions[r] = published[r]

Writing(r) == \E w \in Preparers : pc[w] = "write" /\ number(w) = r

(***************************************************************************)
(* Every file in the revision root that nobody is writing is a revision    *)
(* that store() reported, or was left by a preparer that died in the write *)
(* or failed in it; such a number is never reported, then or later.        *)
(***************************************************************************)
PartialIsAccounted ==
  \A r \in RevisionNumbers :
    /\ revisions[r] # NoFile /\ ~ Writing(r) =>
         revisions[r] = published[r] \/ r \in abandoned
    /\ r \in abandoned => published[r] = NoFile

(***************************************************************************)
(* The revision root holds published revisions, unchanged, and the remains *)
(* of preparers that died or failed, and nothing else.                     *)
(***************************************************************************)
RevisionsAreAccounted == PublishedIsImmutable /\ PartialIsAccounted

-----------------------------------------------------------------------------
\* No two of the families that a statement names contradict each other.
OneFamily(s) ==
  \E family \in {"inet", "inet6"} :
    {s.address_family, s.source.network.address, s.destination.network.address}
      \subseteq {"any", family}

Fit(file) ==
  /\ file.revision > 0 /\ file.statements[1] = BlockAll
  /\ \A i \in 2 .. Len(file.statements) :
       LET s == file.statements[i] IN
       /\ s # Stray /\ OneFamily(s)
       /\ s.source.port \/ s.destination.port => s.protocol \in {"tcp", "udp"}

(***************************************************************************)
(* Whatever rule set was asked for, a candidate is fit for pfctl: nothing  *)
(* in it comes from a comment, all traffic is blocked first, no statement  *)
(* mixes address families or gives ports to a protocol without them, and   *)
(* it carries the number, not 0, under which it will be stored.            *)
(***************************************************************************)
CandidatesAreFit ==
  /\ \A o \in OperationIds : candidates[o] \in Rulesets => Fit(candidates[o])
  /\ \A r \in RevisionNumbers : published[r] # NoFile => published[r].revision = r
=============================================================================
