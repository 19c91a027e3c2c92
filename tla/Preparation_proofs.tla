------------------------- MODULE Preparation_proofs -------------------------
(***************************************************************************)
(* Revisions are immutable and accounted for, and "prepared" means stored: *)
(* for any number of preparers, of operation ids and of rule sets.         *)
(***************************************************************************)
EXTENDS Preparation, SequenceTheorems, WellFoundedInduction, TLAPS

-----------------------------------------------------------------------------
(* The inductive invariant: what a preparer may rely on at each step.      *)
Staging == {"stage_write", "validate", "read"}
Storing == {"create", "write", "finish"}
Prepared(w) == pc[w] = "idle" /\ status[w] = "prepared"

\* A preparer at work has a request, and a valid one once it has rendered it.
Asked(w) ==
  /\ pc[w] # "idle" \/ Prepared(w) => req[w] \in Requests /\ ~ lost[w]
  /\ pc[w] \in {"stage"} \cup Staging \cup Storing \/ Prepared(w) =>
       validate(req[w].rule_set) = {}

\* Its candidate stays what it wrote, and what it stores is what pfctl accepted.
Staged(w) ==
  /\ pc[w] = "stage_write" => candidates[req[w].op] # NoFile
  /\ pc[w] \in {"validate", "read"} => candidates[req[w].op] = rendered(w)
  /\ pc[w] \in {"read"} \cup Storing => rendered(w) \in ValidRulesets
  /\ pc[w] \in Storing => content[w] = rendered(w)

\* The file it writes is its own, under a number that was never reported.
Stored(w) ==
  /\ pc[w] = "write" =>
       /\ revisions[number(w)] # NoFile /\ published[number(w)] = NoFile
       /\ number(w) \notin abandoned
  /\ pc[w] = "finish" \/ Prepared(w) =>
       published[number(w)] = rendered(w) /\ rendered(w) \in ValidRulesets

Own(w) == Asked(w) /\ Staged(w) /\ Stored(w)

\* O_EXCL: no two preparers stage one operation id or write one revision.
Exclusive(v, w) ==
  /\ pc[v] \in Staging /\ pc[w] \in Staging => req[v].op # req[w].op
  /\ pc[v] = "write" /\ pc[w] = "write" => number(v) # number(w)

RevisionInv(r) ==
  /\ published[r] # NoFile => revisions[r] = published[r] /\ published[r].revision = r
  /\ r \in abandoned => revisions[r] # NoFile /\ published[r] = NoFile
  /\ revisions[r] # NoFile =>
       Writing(r) \/ revisions[r] = published[r] \/ r \in abandoned

\* Candidates are renderings, complete or not, of rule sets without an issue.
CandidateInv(o) ==
  candidates[o] # NoFile =>
    \E s \in RuleSets :
      validate(s) = {} /\ candidates[o] \in {render(s), Partial(render(s))}

PreparationInv ==
  /\ TypeOK
  /\ \A w \in Preparers : Own(w)
  /\ \A v, w \in Preparers : v # w => Exclusive(v, w)
  /\ \A r \in RevisionNumbers : RevisionInv(r)
  /\ \A o \in OperationIds : CandidateInv(o)

-----------------------------------------------------------------------------
(* Helpers.                                                                *)

\* A rule set without an issue has a number, under which it is stored.
LEMMA NumberOfValid ==
  ASSUME NEW s \in RuleSets, validate(s) = {}
  PROVE  s.revision \in RevisionNumbers
  <1>1. Issue("GH-CFG-1011", s.revision = 0) \subseteq validate(s)
    BY DEF validate
  <1>2. s.revision # 0
    BY <1>1 DEF Issue
  <1> QED
    BY <1>2 DEF RevisionNumbers

LEMMA RequestParts ==
  ASSUME NEW r \in Requests
  PROVE  /\ r.op \in OperationIds /\ r.rule_set \in RuleSets
         /\ render(r.rule_set) \in Rulesets
         /\ Partial(render(r.rule_set)) \in Files /\ render(r.rule_set) \in Files
         /\ Partial(render(r.rule_set)) # NoFile /\ render(r.rule_set) # NoFile
  BY FileAssumption DEF Requests, Rulesets, Files

\* Only w moves.
Alone(w) ==
  \A v \in Preparers : v # w =>
    /\ pc'[v] = pc[v] /\ req'[v] = req[v] /\ content'[v] = content[v]
    /\ lost'[v] = lost[v] /\ status'[v] = status[v]

LocalTypes ==
  /\ pc \in [Preparers -> Steps] /\ req \in [Preparers -> Requests \cup {NoRequest}]
  /\ content \in [Preparers -> Files] /\ lost \in [Preparers -> BOOLEAN]
  /\ status \in [Preparers -> Statuses]

FileTypes ==
  /\ candidates \in [OperationIds -> Files] /\ revisions \in [RevisionNumbers -> Files]
  /\ published \in [RevisionNumbers -> Rulesets \cup {NoFile}]
  /\ abandoned \subseteq RevisionNumbers

LEMMA Types == TypeOK <=> LocalTypes /\ FileTypes
  BY DEF TypeOK, LocalTypes, FileTypes

\* w goes on to a step, or returns a status.
Goes(w, step) ==
  /\ pc'[w] = step /\ req'[w] = req[w] /\ content'[w] = content[w]
  /\ lost'[w] = lost[w]

Returns(w, s) ==
  /\ pc'[w] = "idle" /\ status'[w] = s
  /\ s = "prepared" => req'[w] = req[w] /\ lost'[w] = lost[w]

LEMMA GotoEffect ==
  ASSUME LocalTypes, NEW w \in Preparers, NEW step \in Steps, Goto(w, step), UNCHANGED lost
  PROVE  LocalTypes' /\ Alone(w) /\ Goes(w, step)
  BY DEF LocalTypes, Goto, Alone, Goes

LEMMA ReturnEffect ==
  ASSUME LocalTypes, NEW w \in Preparers, NEW s \in Statuses, Return(w, s), UNCHANGED lost
  PROVE  LocalTypes' /\ Alone(w) /\ Returns(w, s)
  BY DEF LocalTypes, Return, Alone, Returns, Steps, Files

LEMMA LoseEffect ==
  ASSUME LocalTypes, NEW w \in Preparers, Lose(w)
  PROVE  LocalTypes' /\ Alone(w) /\ Returns(w, "audit_failed")
  BY DEF LocalTypes, Lose, Return, Alone, Returns, Steps, Statuses, Files

LEMMA ThenEffect ==
  ASSUME LocalTypes, NEW w \in Preparers, NEW step \in Steps, Then(w, step)
  PROVE  LocalTypes' /\ Alone(w) /\ (Goes(w, step) \/ Returns(w, "audit_failed"))
  BY GotoEffect, LoseEffect DEF Then

LEMMA EndEffect ==
  ASSUME LocalTypes, NEW w \in Preparers, NEW s \in Statuses, End(w, s)
  PROVE  LocalTypes' /\ Alone(w) /\ (Returns(w, s) \/ Returns(w, "audit_failed"))
  BY ReturnEffect, LoseEffect DEF End

\* A preparer that returned anything but "prepared" relies on nothing.
LEMMA ReturnedOwnsNothing ==
  ASSUME NEW w \in Preparers, NEW s, s # "prepared", Returns(w, s)
  PROVE  Own(w)'
  BY DEF Returns, Own, Asked, Staged, Stored, Prepared, Staging, Storing

\* A preparer that does not move keeps what it relies on, if its files do.
LEMMA OthersKeep ==
  ASSUME NEW w \in Preparers, NEW v \in Preparers, v # w, Alone(w), Own(v),
         pc[v] \in Staging => candidates'[req[v].op] = candidates[req[v].op],
         pc[v] = "write" =>
           /\ revisions'[number(v)] # NoFile
           /\ published'[number(v)] = published[number(v)]
           /\ number(v) \notin abandoned',
         pc[v] = "finish" \/ Prepared(v) => published'[number(v)] = published[number(v)]
  PROVE  Own(v)'
  <1>1. /\ pc'[v] = pc[v] /\ req'[v] = req[v] /\ content'[v] = content[v]
        /\ lost'[v] = lost[v] /\ status'[v] = status[v]
    BY DEF Alone
  <1>2. Asked(v)'
    BY <1>1 DEF Own, Asked, Prepared
  <1>3. Staged(v)'
    BY <1>1 DEF Own, Staged, rendered, Staging
  <1>4. Stored(v)'
    BY <1>1 DEF Own, Stored, Prepared, rendered, number
  <1> QED
    BY <1>2, <1>3, <1>4 DEF Own

\* Exclusion is kept when w claims nothing, or what nobody else has claimed.
LEMMA ExclusionKept ==
  ASSUME PreparationInv, NEW w \in Preparers, Alone(w),
         pc'[w] \in Staging =>
           /\ req'[w] = req[w]
           /\ pc[w] \in Staging \/ candidates[req[w].op] = NoFile,
         pc'[w] = "write" =>
           /\ req'[w] = req[w]
           /\ revisions[number(w)] = NoFile
  PROVE  \A u, v \in Preparers : u # v => Exclusive(u, v)'
  <1>1. ASSUME NEW v \in Preparers, v # w PROVE Exclusive(v, w)' /\ Exclusive(w, v)'
    <2>1. pc'[v] = pc[v] /\ req'[v] = req[v]
      BY <1>1 DEF Alone
    <2>2. Exclusive(v, w) /\ Own(v)
      BY <1>1 DEF PreparationInv
    <2>3. pc[v] \in Staging => candidates[req[v].op] # NoFile
      <3>1. pc[v] \in Staging => req[v] \in Requests
        BY <2>2 DEF Own, Asked, Staging
      <3> QED
        BY <2>2, <3>1, RequestParts DEF Own, Staged, Staging, rendered
    <2>4. pc[v] = "write" => revisions[number(v)] # NoFile
      BY <2>2 DEF Own, Stored
    <2>5. ASSUME pc'[v] \in Staging, pc'[w] \in Staging PROVE req'[v].op # req'[w].op
      BY <2>1, <2>2, <2>3, <2>5 DEF Exclusive
    <2>6. ASSUME pc'[v] = "write", pc'[w] = "write"
          PROVE  req'[v].rule_set.revision # req'[w].rule_set.revision
      BY <2>1, <2>4, <2>6 DEF number
    <2> QED
      BY <2>5, <2>6 DEF Exclusive, number
  <1>2. ASSUME NEW u \in Preparers, NEW v \in Preparers, u # v, u # w, v # w
        PROVE  Exclusive(u, v)'
    <2>1. pc'[v] = pc[v] /\ req'[v] = req[v] /\ pc'[u] = pc[u] /\ req'[u] = req[u]
      BY <1>2 DEF Alone
    <2>2. Exclusive(u, v)
      BY <1>2 DEF PreparationInv
    <2> QED
      BY <2>1, <2>2 DEF Exclusive, number
  <1> QED
    BY <1>1, <1>2

\* The revisions that nobody touches stay as they are.
LEMMA RevisionKept ==
  ASSUME NEW w \in Preparers, Alone(w), NEW r \in RevisionNumbers, RevisionInv(r),
         revisions'[r] = revisions[r], published'[r] = published[r],
         r \in abandoned' <=> r \in abandoned,
         pc[w] = "write" /\ number(w) = r => pc'[w] = "write" /\ req'[w] = req[w]
  PROVE  RevisionInv(r)'
  <1>1. ASSUME Writing(r) PROVE Writing(r)'
    <2>1. PICK v \in Preparers : pc[v] = "write" /\ number(v) = r
      BY <1>1 DEF Writing
    <2>2. pc'[v] = "write" /\ req'[v] = req[v]
      BY <2>1 DEF Alone
    <2> QED
      BY <2>1, <2>2 DEF Writing, number
  <1> QED
    BY <1>1 DEF RevisionInv

\* A step that changes no file.
LEMMA NoFileStep ==
  ASSUME PreparationInv, NEW w \in Preparers, Alone(w), LocalTypes', Own(w)',
         UNCHANGED <<candidates, revisions, history>>,
         pc[w] # "write", pc'[w] # "write",
         pc'[w] \in Staging => pc[w] \in Staging /\ req'[w] = req[w]
  PROVE  PreparationInv'
  <1>1. TypeOK'
    BY DEF PreparationInv, TypeOK, LocalTypes, history
  <1>2. ASSUME NEW v \in Preparers PROVE Own(v)'
    BY <1>2, OthersKeep DEF PreparationInv, Own, Stored, history
  <1>3. \A u, v \in Preparers : u # v => Exclusive(u, v)'
    BY ExclusionKept
  <1>4. ASSUME NEW r \in RevisionNumbers PROVE RevisionInv(r)'
    BY RevisionKept DEF PreparationInv, history
  <1>5. ASSUME NEW o \in OperationIds PROVE CandidateInv(o)'
    BY DEF PreparationInv, CandidateInv
  <1> QED
    BY <1>1, <1>2, <1>3, <1>4, <1>5 DEF PreparationInv

-----------------------------------------------------------------------------
(* The steps.                                                              *)
LEMMA PrepareStep ==
  ASSUME PreparationInv, NEW w \in Preparers, NEW r \in Requests, Prepare(w, r)
  PROVE  PreparationInv'
  <1>1. LocalTypes
    BY Types DEF PreparationInv
  <1>2. CASE Lose(w)
    BY <1>1, <1>2, LoseEffect, ReturnedOwnsNothing, NoFileStep
    DEF Prepare, Returns, Staging
  <1>3. CASE ~ Lose(w)
    <2>1. /\ pc' = [pc EXCEPT ![w] = "render"] /\ req' = [req EXCEPT ![w] = r]
          /\ lost' = [lost EXCEPT ![w] = FALSE] /\ status' = [status EXCEPT ![w] = "none"]
          /\ content' = content
      BY <1>3 DEF Prepare
    <2>2. LocalTypes'
      BY <1>1, <2>1 DEF LocalTypes, Steps, Statuses
    <2>3. Alone(w)
      BY <1>1, <2>1 DEF LocalTypes, Alone
    <2>4. LocalTypes' /\ Alone(w)
      BY <2>2, <2>3
    <2>5. pc'[w] = "render" /\ req'[w] = r /\ ~ lost'[w] /\ pc[w] = "idle"
      BY <1>1, <1>3 DEF Prepare, LocalTypes
    <2>6. Own(w)'
      BY <2>5 DEF Own, Asked, Staged, Stored, Prepared, Staging, Storing
    <2> QED
      BY <2>4, <2>5, <2>6, NoFileStep DEF Prepare, Staging
  <1> QED
    BY <1>2, <1>3

LEMMA RenderStep ==
  ASSUME PreparationInv, NEW w \in Preparers, Render(w)
  PROVE  PreparationInv'
  <1>1. LocalTypes /\ Own(w) /\ pc[w] = "render"
    BY Types DEF PreparationInv, Render
  <1>2. CASE validate(req[w].rule_set) # {} /\ End(w, "invalid_model")
    BY <1>1, <1>2, EndEffect, ReturnedOwnsNothing, NoFileStep
    DEF Render, Returns, Staging, Statuses
  <1>3. CASE validate(req[w].rule_set) = {} /\ Then(w, "stage")
    <2>1. LocalTypes' /\ Alone(w) /\ (Goes(w, "stage") \/ Returns(w, "audit_failed"))
      BY <1>1, <1>3, ThenEffect DEF Steps
    <2>2. CASE Goes(w, "stage")
      <3>1. Own(w)'
        BY <1>1, <1>3, <2>2 DEF Goes, Own, Asked, Staged, Stored, Prepared, Staging, Storing
      <3> QED
        BY <1>1, <2>1, <2>2, <3>1, NoFileStep DEF Render, Goes, Staging
    <2>3. CASE Returns(w, "audit_failed")
      BY <1>1, <2>1, <2>3, ReturnedOwnsNothing, NoFileStep DEF Render, Returns, Staging
    <2> QED
      BY <2>1, <2>2, <2>3
  <1> QED
    BY <1>2, <1>3 DEF Render

LEMMA ValidateStep ==
  ASSUME PreparationInv, NEW w \in Preparers, Validate(w)
  PROVE  PreparationInv'
  <1>1. LocalTypes /\ Own(w) /\ pc[w] = "validate"
    BY Types DEF PreparationInv, Validate
  <1>2. CASE End(w, "native_rejected") \/ End(w, "native_failed")
    BY <1>1, <1>2, EndEffect, ReturnedOwnsNothing, NoFileStep
    DEF Validate, Returns, Staging, Statuses
  <1>3. CASE Accepts(candidates[req[w].op]) /\ Then(w, "read")
    <2>1. LocalTypes' /\ Alone(w) /\ (Goes(w, "read") \/ Returns(w, "audit_failed"))
      BY <1>1, <1>3, ThenEffect DEF Steps
    <2>2. CASE Goes(w, "read")
      <3>1. /\ req[w] \in Requests /\ ~ lost[w] /\ validate(req[w].rule_set) = {}
            /\ candidates[req[w].op] = render(req[w].rule_set)
            /\ render(req[w].rule_set) \in ValidRulesets
        BY <1>1, <1>3 DEF Accepts, Own, Asked, Staged, Staging, rendered
      <3>2. UNCHANGED candidates
        BY DEF Validate
      <3>3. Own(w)'
        BY <2>2, <3>1, <3>2
        DEF Goes, Own, Asked, Staged, Stored, Prepared, Staging, Storing, rendered
      <3> QED
        BY <1>1, <2>1, <2>2, <3>3, NoFileStep DEF Validate, Goes, Staging
    <2>3. CASE Returns(w, "audit_failed")
      BY <1>1, <2>1, <2>3, ReturnedOwnsNothing, NoFileStep DEF Validate, Returns, Staging
    <2> QED
      BY <2>1, <2>2, <2>3
  <1> QED
    BY <1>2, <1>3 DEF Validate

LEMMA StoreReadStep ==
  ASSUME PreparationInv, NEW w \in Preparers, StoreRead(w)
  PROVE  PreparationInv'
  <1>1. LocalTypes /\ FileTypes /\ Own(w) /\ pc[w] = "read"
    BY Types DEF PreparationInv, StoreRead
  <1>2. CASE End(w, "revision_store_failed")
    BY <1>1, <1>2, EndEffect, ReturnedOwnsNothing, NoFileStep
    DEF StoreRead, Returns, Staging, Statuses
  <1>3. CASE /\ content' = [content EXCEPT ![w] = candidates[req[w].op]]
             /\ pc' = [pc EXCEPT ![w] = "create"] /\ UNCHANGED <<req, status, lost>>
    <2>1. /\ req[w] \in Requests /\ ~ lost[w] /\ validate(req[w].rule_set) = {}
          /\ candidates[req[w].op] = render(req[w].rule_set)
          /\ render(req[w].rule_set) \in ValidRulesets
      BY <1>1 DEF Own, Asked, Staged, Staging, rendered
    <2>2. candidates[req[w].op] \in Files
      BY <1>1, <2>1, RequestParts DEF FileTypes
    <2>3. LocalTypes' /\ Alone(w)
      BY <1>1, <1>3, <2>2 DEF LocalTypes, Alone, Steps
    <2>4. pc'[w] = "create" /\ content'[w] = candidates[req[w].op] /\ req' = req /\ lost' = lost
      BY <1>1, <1>3 DEF LocalTypes
    <2>5. Own(w)'
      BY <2>1, <2>4 DEF Own, Asked, Staged, Stored, Prepared, Staging, Storing, rendered
    <2> QED
      BY <1>1, <2>3, <2>4, <2>5, NoFileStep DEF StoreRead, Staging
  <1> QED
    BY <1>2, <1>3 DEF StoreRead

LEMMA FinishStep ==
  ASSUME PreparationInv, NEW w \in Preparers, Finish(w)
  PROVE  PreparationInv'
  <1>1. LocalTypes /\ Own(w) /\ pc[w] = "finish"
    BY Types DEF PreparationInv, Finish
  <1>2. LocalTypes' /\ Alone(w) /\ (Returns(w, "prepared") \/ Returns(w, "audit_failed"))
    BY <1>1, EndEffect DEF Finish, Statuses
  <1>3. CASE Returns(w, "prepared")
    <2>1. /\ pc'[w] = "idle" /\ req'[w] = req[w] /\ lost'[w] = lost[w]
          /\ UNCHANGED <<candidates, revisions, published, abandoned>>
      BY <1>3 DEF Returns, Finish, history
    <2>2. Own(w)'
      BY <1>1, <2>1
      DEF Own, Asked, Staged, Stored, Prepared, Staging, Storing, rendered, number
    <2> QED
      BY <1>1, <1>2, <2>1, <2>2, NoFileStep DEF Finish, Staging
  <1>4. CASE Returns(w, "audit_failed")
    BY <1>1, <1>2, <1>4, ReturnedOwnsNothing, NoFileStep DEF Finish, Returns, Staging
  <1> QED
    BY <1>2, <1>3, <1>4

\* A step that changes the candidate of w and nothing else.
LEMMA CandidateStep ==
  ASSUME PreparationInv, NEW w \in Preparers, Alone(w), LocalTypes', Own(w)',
         UNCHANGED <<revisions, history>>, pc[w] # "write", pc'[w] # "write",
         req[w] \in Requests, validate(req[w].rule_set) = {},
         NEW f \in {NoFile, rendered(w), Partial(rendered(w))},
         candidates' = [candidates EXCEPT ![req[w].op] = f],
         pc[w] \in Staging \/ candidates[req[w].op] = NoFile,
         pc'[w] \in Staging => req'[w] = req[w]
  PROVE  PreparationInv'
  <1>1. /\ req[w].op \in OperationIds /\ req[w].rule_set \in RuleSets
        /\ NoFile \in Files /\ rendered(w) \in Files /\ Partial(rendered(w)) \in Files
    BY RequestParts DEF rendered, Files
  <1>2. TypeOK'
    BY <1>1 DEF PreparationInv, TypeOK, LocalTypes, history
  <1>3. ASSUME NEW v \in Preparers, v # w, pc[v] \in Staging
        PROVE  req[v].op # req[w].op /\ req[v].op \in OperationIds
    <2>1. Own(v) /\ Exclusive(v, w) /\ req[v] \in Requests
      BY <1>3 DEF PreparationInv, Own, Asked, Staging
    <2>2. candidates[req[v].op] # NoFile
      BY <1>3, <2>1, RequestParts DEF Own, Staged, Staging, rendered
    <2> QED
      BY <1>3, <2>1, <2>2, RequestParts DEF Exclusive
  <1>4. ASSUME NEW v \in Preparers, v # w PROVE Own(v)'
    <2>1. pc[v] \in Staging => candidates'[req[v].op] = candidates[req[v].op]
      BY <1>3, <1>4 DEF PreparationInv, TypeOK
    <2> QED
      BY <1>4, <2>1, OthersKeep DEF PreparationInv, Own, Stored, history
  <1>5. \A u, v \in Preparers : u # v => Exclusive(u, v)'
    BY ExclusionKept
  <1>6. ASSUME NEW r \in RevisionNumbers PROVE RevisionInv(r)'
    BY RevisionKept DEF PreparationInv, history
  <1>7. ASSUME NEW o \in OperationIds PROVE CandidateInv(o)'
    <2>1. CASE o = req[w].op
      <3>1. candidates'[o] = f
        BY <2>1 DEF PreparationInv, TypeOK
      <3> QED
        BY <1>1, <3>1 DEF CandidateInv, rendered
    <2>2. CASE o # req[w].op
      BY <2>2 DEF PreparationInv, TypeOK, CandidateInv
    <2> QED
      BY <2>1, <2>2
  <1> QED
    BY <1>2, <1>4, <1>5, <1>6, <1>7 DEF PreparationInv

LEMMA StageCreateStep ==
  ASSUME PreparationInv, NEW w \in Preparers, StageCreate(w)
  PROVE  PreparationInv'
  <1>1. /\ LocalTypes /\ FileTypes /\ Own(w) /\ pc[w] = "stage"
        /\ UNCHANGED <<revisions, history>>
    BY Types DEF PreparationInv, StageCreate
  <1>2. req[w] \in Requests /\ ~ lost[w] /\ validate(req[w].rule_set) = {}
    BY <1>1 DEF Own, Asked
  <1>3. CASE End(w, "staging_failed") /\ UNCHANGED candidates
    BY <1>1, <1>3, EndEffect, ReturnedOwnsNothing, NoFileStep DEF Returns, Staging, Statuses
  <1>4. CASE /\ candidates[req[w].op] = NoFile
             /\ candidates' = [candidates EXCEPT ![req[w].op] = Partial(rendered(w))]
             /\ Goto(w, "stage_write") /\ UNCHANGED lost
    <2>1. LocalTypes' /\ Alone(w) /\ Goes(w, "stage_write")
      BY <1>1, <1>4, GotoEffect DEF Steps
    <2>2. candidates'[req[w].op] # NoFile
      BY <1>1, <1>2, <1>4, RequestParts DEF FileTypes, rendered
    <2>3. Own(w)'
      BY <1>2, <2>1, <2>2
      DEF Goes, Own, Asked, Staged, Stored, Prepared, Staging, Storing
    <2> QED
      BY <1>1, <1>2, <1>4, <2>1, <2>3, CandidateStep DEF Goes
  <1> QED
    BY <1>3, <1>4 DEF StageCreate

LEMMA StageWriteStep ==
  ASSUME PreparationInv, NEW w \in Preparers, StageWrite(w)
  PROVE  PreparationInv'
  <1>1. /\ LocalTypes /\ FileTypes /\ Own(w) /\ pc[w] = "stage_write"
        /\ UNCHANGED <<revisions, history>> /\ pc[w] \in Staging
    BY Types DEF PreparationInv, StageWrite, Staging
  <1>2. req[w] \in Requests /\ ~ lost[w] /\ validate(req[w].rule_set) = {}
    BY <1>1 DEF Own, Asked
  <1>3. ASSUME NEW s \in Statuses, s # "prepared", Returns(w, s), LocalTypes', Alone(w),
               NEW f \in {NoFile, rendered(w), Partial(rendered(w))},
               candidates' = [candidates EXCEPT ![req[w].op] = f]
        PROVE  PreparationInv'
    BY <1>1, <1>2, <1>3, ReturnedOwnsNothing, CandidateStep DEF Returns, Staging
  <1>4. CASE /\ candidates' = [candidates EXCEPT ![req[w].op] = rendered(w)]
             /\ Then(w, "validate")
    <2>1. LocalTypes' /\ Alone(w) /\ (Goes(w, "validate") \/ Returns(w, "audit_failed"))
      BY <1>1, <1>4, ThenEffect DEF Steps
    <2>2. CASE Goes(w, "validate")
      <3>1. candidates'[req[w].op] = rendered(w)
        BY <1>1, <1>2, <1>4, RequestParts DEF FileTypes
      <3>2. Own(w)'
        BY <1>2, <2>2, <3>1
        DEF Goes, Own, Asked, Staged, Stored, Prepared, Staging, Storing, rendered
      <3> QED
        BY <1>1, <1>2, <1>4, <2>1, <2>2, <3>2, CandidateStep DEF Goes
    <2> QED
      BY <1>3, <1>4, <2>1, <2>2 DEF Statuses
  <1>5. CASE /\ \E f \in {NoFile, Partial(rendered(w)), rendered(w)} :
                  candidates' = [candidates EXCEPT ![req[w].op] = f]
             /\ End(w, "staging_failed")
    <2>1. /\ LocalTypes' /\ Alone(w)
          /\ Returns(w, "staging_failed") \/ Returns(w, "audit_failed")
      BY <1>1, <1>5, EndEffect DEF Statuses
    <2> QED
      BY <1>3, <1>5, <2>1 DEF Statuses
  <1> QED
    BY <1>4, <1>5 DEF StageWrite

\* A step that changes the revision of w's number, which was never reported and
\* which nobody else writes.
LEMMA RevisionStep ==
  ASSUME PreparationInv, NEW w \in Preparers, Alone(w), LocalTypes', FileTypes', Own(w)',
         UNCHANGED candidates, NEW n \in RevisionNumbers, n = number(w),
         published[n] = NoFile, pc[w] = "write" \/ revisions[n] = NoFile,
         pc'[w] = "write" => req'[w] = req[w] /\ revisions[n] = NoFile,
         pc'[w] \notin Staging, RevisionInv(n)',
         \A r \in RevisionNumbers : r # n =>
           /\ revisions'[r] = revisions[r] /\ published'[r] = published[r]
           /\ r \in abandoned' <=> r \in abandoned
  PROVE  PreparationInv'
  <1>1. TypeOK'
    BY DEF TypeOK, LocalTypes, FileTypes
  <1>2. ASSUME NEW v \in Preparers, v # w PROVE Own(v)'
    <2>1. Own(v) /\ Exclusive(v, w)
      BY <1>2 DEF PreparationInv
    <2>2. pc[v] \in Storing \/ Prepared(v) =>
            number(v) \in RevisionNumbers /\ rendered(v) # NoFile
      <3>1. pc[v] \in Storing \/ Prepared(v) =>
              req[v] \in Requests /\ validate(req[v].rule_set) = {}
        BY <2>1 DEF Own, Asked, Storing
      <3> QED
        BY <3>1, RequestParts, NumberOfValid DEF number, rendered
    <2>3. pc[v] = "write" => number(v) # n
      BY <2>1 DEF Own, Stored, Exclusive
    <2>4. pc[v] = "finish" \/ Prepared(v) => number(v) # n
      BY <2>1, <2>2 DEF Own, Stored, Storing
    <2>5. pc[v] = "write" => revisions[number(v)] # NoFile /\ number(v) \notin abandoned
      BY <2>1 DEF Own, Stored
    <2>6. pc[v] = "write" =>
            /\ revisions'[number(v)] # NoFile
            /\ published'[number(v)] = published[number(v)]
            /\ number(v) \notin abandoned'
      BY <2>2, <2>3, <2>5 DEF Storing
    <2>7. pc[v] = "finish" \/ Prepared(v) => published'[number(v)] = published[number(v)]
      BY <2>2, <2>4 DEF Storing
    <2> QED
      BY <1>2, <2>1, <2>6, <2>7, OthersKeep
  <1>3. \A u, v \in Preparers : u # v => Exclusive(u, v)'
    BY ExclusionKept
  <1>4. ASSUME NEW r \in RevisionNumbers PROVE RevisionInv(r)'
    BY RevisionKept DEF PreparationInv
  <1>5. ASSUME NEW o \in OperationIds PROVE CandidateInv(o)'
    BY DEF PreparationInv, CandidateInv
  <1> QED
    BY <1>1, <1>2, <1>3, <1>4, <1>5 DEF PreparationInv

\* What a preparer that stores a revision knows.
LEMMA StoringKnows ==
  ASSUME PreparationInv, NEW w \in Preparers, pc[w] \in Storing
  PROVE  /\ LocalTypes /\ FileTypes /\ Own(w) /\ RevisionInv(number(w))
         /\ req[w] \in Requests /\ ~ lost[w] /\ validate(req[w].rule_set) = {}
         /\ number(w) \in RevisionNumbers /\ number(w) = rendered(w).revision
         /\ content[w] = rendered(w) /\ rendered(w) \in ValidRulesets
         /\ rendered(w) \in Rulesets /\ rendered(w) \in Files
         /\ Partial(rendered(w)) \in Files
         /\ rendered(w) # NoFile /\ Partial(rendered(w)) # NoFile
  <1>1. LocalTypes /\ FileTypes /\ Own(w)
    BY Types DEF PreparationInv
  <1>2. /\ req[w] \in Requests /\ ~ lost[w] /\ validate(req[w].rule_set) = {}
        /\ content[w] = rendered(w) /\ rendered(w) \in ValidRulesets
    BY <1>1 DEF Own, Asked, Staged, Storing
  <1>3. number(w) \in RevisionNumbers
    BY <1>2, RequestParts, NumberOfValid DEF number
  <1>4. number(w) = rendered(w).revision
    BY DEF number, rendered, render
  <1> QED
    BY <1>1, <1>2, <1>3, <1>4, RequestParts DEF PreparationInv, rendered

LEMMA StoreCreateStep ==
  ASSUME PreparationInv, NEW w \in Preparers, StoreCreate(w)
  PROVE  PreparationInv'
  <1>1. pc[w] = "create" /\ pc[w] \in Storing /\ UNCHANGED <<candidates, history>>
    BY DEF StoreCreate, Storing
  <1>2. LocalTypes /\ FileTypes
    BY <1>1, StoringKnows
  <1>3. CASE End(w, "revision_store_failed") /\ UNCHANGED revisions
    BY <1>1, <1>2, <1>3, EndEffect, ReturnedOwnsNothing, NoFileStep
    DEF Returns, Staging, Statuses
  <1>4. CASE /\ revisions[number(w)] = NoFile
             /\ revisions' = [revisions EXCEPT ![number(w)] = Partial(content[w])]
             /\ Goto(w, "write") /\ UNCHANGED lost
    <2>1. LocalTypes' /\ Alone(w) /\ Goes(w, "write")
      BY <1>2, <1>4, GotoEffect DEF Steps
    <2>2. PICK n \in RevisionNumbers : n = number(w)
      BY <1>1, StoringKnows
    <2>3. /\ FileTypes' /\ revisions'[n] # NoFile /\ UNCHANGED <<published, abandoned>>
          /\ \A r \in RevisionNumbers : r # n => revisions'[r] = revisions[r]
      BY <1>1, <1>4, <2>2, StoringKnows DEF FileTypes, history
    <2>4. published[n] = NoFile /\ n \notin abandoned /\ revisions[n] = NoFile
      BY <1>1, <1>4, <2>2, StoringKnows DEF RevisionInv
    <2>5. req'[w] = req[w] /\ pc'[w] = "write" /\ n = req'[w].rule_set.revision
      BY <2>1, <2>2 DEF Goes, number
    <2>6. Own(w)'
      BY <1>1, <2>1, <2>3, <2>4, <2>5, StoringKnows
      DEF Goes, Own, Asked, Staged, Stored, Prepared, Staging, Storing, rendered, number
    <2>7. RevisionInv(n)'
      BY <2>3, <2>4, <2>5 DEF RevisionInv, Writing, number
    <2> QED
      BY <1>1, <2>1, <2>2, <2>3, <2>4, <2>5, <2>6, <2>7, RevisionStep DEF Staging
  <1> QED
    BY <1>3, <1>4 DEF StoreCreate

LEMMA StoreWriteStep ==
  ASSUME PreparationInv, NEW w \in Preparers, StoreWrite(w)
  PROVE  PreparationInv'
  <1>1. pc[w] = "write" /\ pc[w] \in Storing /\ UNCHANGED candidates
    BY DEF StoreWrite, Storing
  <1>2. PICK n \in RevisionNumbers : n = number(w)
    BY <1>1, StoringKnows
  <1>3. /\ published[n] = NoFile /\ n \notin abandoned /\ revisions[n] # NoFile
        /\ LocalTypes /\ FileTypes
    BY <1>1, <1>2, StoringKnows DEF Own, Stored
  <1>4. CASE Written(w)
    <2>1. /\ LocalTypes' /\ Alone(w)
          /\ Goes(w, "finish") \/ Returns(w, "audit_failed")
      BY <1>3, <1>4, ThenEffect DEF Written, Steps
    <2>2. /\ revisions' = [revisions EXCEPT ![n] = rendered(w)]
          /\ published' = [published EXCEPT ![n] = rendered(w)] /\ UNCHANGED abandoned
      BY <1>1, <1>2, <1>4, StoringKnows DEF Written
    <2>3. /\ FileTypes' /\ published'[n] = rendered(w) /\ revisions'[n] = rendered(w)
          /\ \A r \in RevisionNumbers : r # n =>
               revisions'[r] = revisions[r] /\ published'[r] = published[r]
      BY <1>1, <1>3, <2>2, StoringKnows DEF FileTypes
    <2>4. RevisionInv(n)'
      BY <1>1, <1>2, <1>3, <2>2, <2>3, StoringKnows DEF RevisionInv
    <2>5. Own(w)'
      <3>1. CASE Goes(w, "finish")
        BY <1>1, <1>2, <2>3, <3>1, StoringKnows
        DEF Goes, Own, Asked, Staged, Stored, Prepared, Staging, Storing, rendered, number
      <3> QED
        BY <2>1, <3>1, ReturnedOwnsNothing
    <2>6. pc'[w] \in {"finish", "idle"}
      BY <2>1 DEF Goes, Returns
    <2> QED
      BY <1>1, <1>2, <1>3, <2>1, <2>2, <2>3, <2>4, <2>5, <2>6, RevisionStep DEF Staging
  <1>5. CASE NotWritten(w)
    <2>1. /\ LocalTypes' /\ Alone(w) /\ Own(w)' /\ pc'[w] = "idle"
      BY <1>3, <1>5, EndEffect, ReturnedOwnsNothing DEF NotWritten, Statuses, Returns
    <2>2. PICK f \in {NoFile, Partial(rendered(w)), rendered(w)} :
             /\ revisions' = [revisions EXCEPT ![n] = f] /\ UNCHANGED published
             /\ abandoned' = abandoned \cup (IF f = NoFile THEN {} ELSE {n})
      BY <1>1, <1>2, <1>5, StoringKnows DEF NotWritten
    <2>3. f \in Files
      BY <1>1, <2>2, StoringKnows DEF Files
    <2>4. /\ FileTypes' /\ revisions'[n] = f /\ published'[n] = NoFile
          /\ n \in abandoned' <=> f # NoFile
          /\ \A r \in RevisionNumbers : r # n =>
               /\ revisions'[r] = revisions[r] /\ published'[r] = published[r]
               /\ r \in abandoned' <=> r \in abandoned
      <3>1. /\ revisions' \in [RevisionNumbers -> Files] /\ revisions'[n] = f
            /\ \A r \in RevisionNumbers : r # n => revisions'[r] = revisions[r]
        BY <1>3, <2>2, <2>3 DEF FileTypes
      <3>2. /\ abandoned' \subseteq RevisionNumbers
            /\ n \in abandoned' <=> f # NoFile
            /\ \A r \in RevisionNumbers : r # n => (r \in abandoned' <=> r \in abandoned)
        <4>1. CASE f = NoFile
          BY <1>3, <2>2, <4>1 DEF FileTypes
        <4>2. CASE f # NoFile
          BY <1>3, <2>2, <4>2 DEF FileTypes
        <4> QED
          BY <4>1, <4>2
      <3> QED
        BY <1>1, <1>3, <2>2, <3>1, <3>2 DEF FileTypes
    <2>5. RevisionInv(n)'
      BY <2>4 DEF RevisionInv
    <2> QED
      BY <1>1, <1>2, <1>3, <2>1, <2>4, <2>5, RevisionStep DEF Staging
  <1> QED
    BY <1>4, <1>5 DEF StoreWrite

LEMMA DieStep ==
  ASSUME PreparationInv, NEW w \in Preparers, Die(w)
  PROVE  PreparationInv'
  <1>1. LocalTypes /\ FileTypes /\ UNCHANGED published
    BY Types DEF PreparationInv, Die
  <1>2. LocalTypes' /\ Alone(w) /\ Own(w)' /\ pc'[w] = "idle"
    BY <1>1, ReturnEffect, ReturnedOwnsNothing DEF Die, Statuses, Returns
  <1>3. CASE pc[w] \notin {"stage_write", "write"}
    BY <1>1, <1>2, <1>3, NoFileStep DEF Die, history, Staging
  <1>4. CASE pc[w] = "stage_write"
    <2>1. /\ Own(w) /\ pc[w] \in Staging
          /\ req[w] \in Requests /\ validate(req[w].rule_set) = {}
      BY <1>4 DEF PreparationInv, Own, Asked, Staging
    <2>2. PICK f \in {NoFile, rendered(w), Partial(rendered(w))} :
            candidates' = [candidates EXCEPT ![req[w].op] = f]
      BY <1>4 DEF Die
    <2>3. UNCHANGED <<revisions, history>>
      BY <1>4 DEF Die, history
    <2> QED
      BY <1>2, <1>4, <2>1, <2>2, <2>3, CandidateStep DEF Staging
  <1>5. CASE pc[w] = "write"
    <2>1. PICK n \in RevisionNumbers : n = number(w)
      BY <1>5, StoringKnows DEF Storing
    <2>2. PICK f \in {Partial(rendered(w)), rendered(w)} :
            revisions' = [revisions EXCEPT ![n] = f]
      BY <1>5, <2>1, StoringKnows DEF Die, Storing
    <2>3. f \in Files /\ f # NoFile
      BY <1>5, <2>2, StoringKnows DEF Storing
    <2>4. published[n] = NoFile /\ abandoned' = abandoned \cup {n} /\ UNCHANGED candidates
      BY <1>5, <2>1, StoringKnows DEF Storing, Own, Stored, Die
    <2>5. /\ FileTypes' /\ revisions'[n] = f
          /\ \A r \in RevisionNumbers : r # n => revisions'[r] = revisions[r]
      BY <1>1, <2>2, <2>3, <2>4 DEF FileTypes
    <2>6. RevisionInv(n)'
      BY <1>1, <2>3, <2>4, <2>5 DEF RevisionInv
    <2> QED
      BY <1>1, <1>2, <1>5, <2>1, <2>4, <2>5, <2>6, RevisionStep DEF Staging
  <1> QED
    BY <1>3, <1>4, <1>5

-----------------------------------------------------------------------------
(* The theorems.                                                           *)
LEMMA PreparationInit == Init => PreparationInv
  <1> SUFFICES ASSUME Init PROVE PreparationInv
    OBVIOUS
  <1>1. TypeOK
    BY DEF Init, TypeOK, Files, Steps, Statuses
  <1>2. ASSUME NEW w \in Preparers PROVE pc[w] = "idle" /\ status[w] = "none"
    BY DEF Init
  <1>3. \A w \in Preparers : Own(w)
    BY <1>2 DEF Own, Asked, Staged, Stored, Prepared, Staging, Storing
  <1>4. \A v, w \in Preparers : Exclusive(v, w)
    BY <1>2 DEF Exclusive, Staging
  <1>5. \A r \in RevisionNumbers : RevisionInv(r)
    BY DEF Init, RevisionInv
  <1>6. \A o \in OperationIds : CandidateInv(o)
    BY DEF Init, CandidateInv
  <1> QED
    BY <1>1, <1>3, <1>4, <1>5, <1>6 DEF PreparationInv

LEMMA PreparationStep == PreparationInv /\ [Next]_vars => PreparationInv'
  <1> SUFFICES ASSUME PreparationInv, [Next]_vars PROVE PreparationInv'
    OBVIOUS
  <1>1. ASSUME NEW w \in Preparers, Step(w) PROVE PreparationInv'
    BY <1>1, RenderStep, StageCreateStep, StageWriteStep, ValidateStep, StoreReadStep,
       StoreCreateStep, StoreWriteStep, FinishStep
    DEF Step
  <1>2. CASE UNCHANGED vars
    <2>1. UNCHANGED <<candidates, revisions, pc, req, content, lost, status, published, abandoned>>
      BY <1>2 DEF vars, history
    <2>2. TypeOK'
      BY <2>1 DEF PreparationInv, TypeOK
    <2>3. \A w \in Preparers : Own(w)'
      BY <2>1 DEF PreparationInv, Own, Asked, Staged, Stored, Prepared, rendered, number
    <2>4. \A v, w \in Preparers : v # w => Exclusive(v, w)'
      BY <2>1 DEF PreparationInv, Exclusive, number
    <2>5. \A r \in RevisionNumbers : RevisionInv(r)'
      BY <2>1 DEF PreparationInv, RevisionInv, Writing, number
    <2>6. \A o \in OperationIds : CandidateInv(o)'
      BY <2>1 DEF PreparationInv, CandidateInv
    <2> QED
      BY <2>2, <2>3, <2>4, <2>5, <2>6 DEF PreparationInv
  <1> QED
    BY <1>1, <1>2, DieStep, PrepareStep DEF Next

(***************************************************************************)
(* A preparation that reports "prepared" lost no event, and the file under *)
(* its number is the rendering, accepted by pfctl, of what it was asked    *)
(* for, however many preparers race for the number and the operation id    *)
(* and wherever they die (preparation_service.cpp, revision_store.cpp).    *)
(***************************************************************************)
THEOREM PreparedMeansStored == Spec => []PreparedIsStored
  <1>1. ASSUME PreparationInv PROVE PreparedIsStored
    <2> SUFFICES ASSUME NEW w \in Preparers, Prepared(w)
                 PROVE  /\ ~ lost[w] /\ revisions[number(w)] = rendered(w)
                        /\ rendered(w) \in ValidRulesets
      BY DEF PreparedIsStored, Prepared
    <2>1. /\ req[w] \in Requests /\ ~ lost[w] /\ validate(req[w].rule_set) = {}
          /\ published[number(w)] = rendered(w) /\ rendered(w) \in ValidRulesets
      BY <1>1 DEF PreparationInv, Own, Asked, Stored
    <2>2. number(w) \in RevisionNumbers /\ rendered(w) # NoFile
      BY <2>1, RequestParts, NumberOfValid DEF number, rendered
    <2> QED
      BY <1>1, <2>1, <2>2 DEF PreparationInv, RevisionInv
  <1> QED
    BY <1>1, PreparationInit, PreparationStep, PTL DEF Spec

(***************************************************************************)
(* A revision that store() reported never changes, and every other file in *)
(* the revision root is being written or was left by a preparer that died  *)
(* or failed, under a number that is never reported (revision_store.cpp).  *)
(***************************************************************************)
THEOREM RevisionsStay == Spec => []RevisionsAreAccounted
  <1>1. PreparationInv => RevisionsAreAccounted
    BY DEF PreparationInv, RevisionInv, RevisionsAreAccounted, PublishedIsImmutable,
           PartialIsAccounted
  <1> QED
    BY <1>1, PreparationInit, PreparationStep, PTL DEF Spec

-----------------------------------------------------------------------------
(* Candidates.                                                             *)

\* A valid network is the family its address is written in.
LEMMA NetworkFamily ==
  ASSUME NEW n, parse_network(n).valid
  PROVE  n.address \in AddressFamilies /\ parse_network(n).family = n.address
  BY DEF parse_network, Anywhere, AddressFamilies

LEMMA EndpointFits ==
  ASSUME NEW e, NEW family \in AddressFamilies, validate_endpoint(e, family) = {}
  PROVE  /\ e.network.address \in AddressFamilies
         /\ parse_network(e.network).family = e.network.address
         /\ family = "any" \/ e.network.address \in {"any", family}
  <1>1. /\ parse_network(e.network).valid
        /\ ~ (/\ "any" \notin {family, parse_network(e.network).family}
              /\ parse_network(e.network).family # family)
    BY DEF validate_endpoint, Issue
  <1> QED
    BY <1>1, NetworkFamily

\* What the absence of issues says of a rule.
LEMMA RuleFits ==
  ASSUME NEW rule, rule.address_family \in AddressFamilies, validate_rule(rule) = {}
  PROVE  /\ rule.id.plain /\ rule.description.plain
         /\ rule.source.port \/ rule.destination.port => rule.protocol \in {"tcp", "udp"}
         /\ OneFamily(rule)
  <1>1. /\ rule.id.plain /\ rule.description.plain
        /\ rule.source.port \/ rule.destination.port => rule.protocol \in {"tcp", "udp"}
        /\ ~ MixedFamilies(rule)
        /\ validate_endpoint(rule.source, rule.address_family) = {}
        /\ validate_endpoint(rule.destination, rule.address_family) = {}
    BY DEF validate_rule, Issue
  <1>2. OneFamily(rule)
    BY <1>1, EndpointFits DEF OneFamily, MixedFamilies, AddressFamilies
  <1> QED
    BY <1>1, <1>2

\* The statement of an enabled rule, if it has no issue, is all that is written of it.
LEMMA StatementFits ==
  ASSUME NEW rule, rule.address_family \in AddressFamilies, validate_rule(rule) = {},
         NEW t \in Range(append_rule(rule))
  PROVE  /\ t # Stray /\ OneFamily(t)
         /\ t.source.port \/ t.destination.port => t.protocol \in {"tcp", "udp"}
  <1> DEFINE statement ==
        [action |-> rule.action, options |-> rule.options,
         interface |-> rule.interface, address_family |-> rule.address_family,
         protocol |-> rule.protocol, source |-> rule.source,
         destination |-> rule.destination, keep_state |-> rule.action = "pass"]
  <1>1. append_rule(rule) = <<>> \o (IF ~ rule.enabled THEN <<>> ELSE <<statement>>)
    BY RuleFits DEF append_rule
  <1>2. t = statement
    BY <1>1 DEF Range
  <1>3. statement # Stray
    BY DEF Stray
  <1>4. /\ t.address_family = rule.address_family /\ t.source = rule.source
        /\ t.destination = rule.destination /\ t.protocol = rule.protocol
    BY <1>2
  <1>5. OneFamily(t)
    BY <1>4, RuleFits DEF OneFamily
  <1> QED
    BY <1>2, <1>3, <1>4, <1>5, RuleFits

\* A set of numbers that is not empty has a least one.
LEMMA LeastNumber ==
  ASSUME NEW T \in SUBSET Nat, T # {}
  PROVE  \E x \in T : \A y \in T : x <= y
  <1> DEFINE R == OpToRel(<, Nat)
  <1>1. IsWellFoundedOn(R, Nat)
    BY NatLessThanWellFounded
  <1>2. \A x, y \in Nat : x < y => <<x, y>> \in R
    BY DEF OpToRel
  <1> HIDE DEF R
  <1>3. PICK x \in T : \A y \in T : ~ (<<y, x>> \in R)
    BY <1>1, WFMin
  <1>4. ASSUME NEW y \in T PROVE x <= y
    <2>1. ~ (y < x)
      BY <1>2, <1>3
    <2> QED
      BY <2>1
  <1> QED
    BY <1>4

\* A rule gives at most two statements.
LEMMA AppendRuleIsSeq ==
  ASSUME NEW rule, NEW S, Range(append_rule(rule)) \subseteq S
  PROVE  append_rule(rule) \in Seq(S)
  <1> DEFINE full == [action |-> rule.action, options |-> rule.options,
               interface |-> rule.interface, address_family |-> rule.address_family,
               protocol |-> rule.protocol, source |-> rule.source,
               destination |-> rule.destination, keep_state |-> rule.action = "pass"]
  <1>1. append_rule(rule) \in {<<>> \o <<>>, <<Stray>> \o <<>>,
                               <<>> \o <<full>>, <<Stray>> \o <<full>>}
    BY DEF append_rule
  <1> HIDE DEF full
  <1>2. append_rule(rule) \in {<<>>, <<Stray>>, <<full>>, <<Stray, full>>}
    BY <1>1
  <1>3. CASE append_rule(rule) = <<>>
    BY <1>3
  <1>4. ASSUME NEW t, append_rule(rule) = <<t>> PROVE append_rule(rule) \in Seq(S)
    <2>1. t \in Range(<<t>>)
      <3>1. 1 \in DOMAIN <<t>> /\ <<t>>[1] = t
        OBVIOUS
      <3> QED
        BY <3>1 DEF Range
    <2>2. t \in S
      BY <1>4, <2>1
    <2> QED
      BY <1>4, <2>2
  <1>5. ASSUME NEW t, NEW u, append_rule(rule) = <<t, u>> PROVE append_rule(rule) \in Seq(S)
    <2>1. t \in Range(<<t, u>>) /\ u \in Range(<<t, u>>)
      <3>1. /\ 1 \in DOMAIN <<t, u>> /\ <<t, u>>[1] = t
            /\ 2 \in DOMAIN <<t, u>> /\ <<t, u>>[2] = u
        OBVIOUS
      <3> QED
        BY <3>1 DEF Range
    <2>2. t \in S /\ u \in S
      BY <1>5, <2>1
    <2> QED
      BY <1>5, <2>2
  <1> QED
    BY <1>2, <1>3, <1>4, <1>5

(***************************************************************************)
(* Flattening sequences over S gives a sequence over S.  FlattenSeq is a   *)
(* recursive function: one that satisfies its equation exists up to every  *)
(* length, and all its values are sequences over S; in both cases there is *)
(* no least number for which that is wrong.                                *)
(***************************************************************************)
LEMMA FlattenGives ==
  ASSUME NEW S, NEW parts \in Seq(Seq(S))
  PROVE  FlattenSeq(parts) \in Seq(S)
  <1> DEFINE Def(g, i) == IF i = 1 THEN parts[i] ELSE g[i - 1] \o parts[i]
             Computes(g, m) == /\ DOMAIN g = 1 .. m /\ g = [i \in 1 .. m |-> g[i]]
                               /\ \A i \in 1 .. m : g[i] = Def(g, i)
  <1>1. PICK n \in Nat : n = Len(parts) /\ \A i \in 1 .. n : parts[i] \in Seq(S)
    BY LenProperties, ElementOfSeq
  <1>2. CASE n = 0
    <2>1. FlattenSeq(parts) = parts
      BY <1>1, <1>2 DEF FlattenSeq
    <2>2. parts = <<>>
      BY <1>1, <1>2, EmptySeq
    <2> QED
      BY <2>1, <2>2, EmptySeq
  <1>3. CASE n # 0
    <2> DEFINE flatten == CHOOSE f : f = [i \in 1 .. Len(parts) |-> Def(f, i)]
    <2>1. FlattenSeq(parts) = flatten[Len(parts)]
      BY <1>1, <1>3 DEF FlattenSeq
    <2>2. \A m \in Nat : m <= n => \E g : Computes(g, m)
      <3> DEFINE T == {m \in Nat : m <= n /\ ~ \E g : Computes(g, m)}
      <3> SUFFICES ASSUME T # {} PROVE FALSE
        OBVIOUS
      <3>1. T \in SUBSET Nat
        OBVIOUS
      <3>2. PICK m \in T : \A k \in T : m <= k
        BY <3>1, LeastNumber
      <3>3. m \in Nat /\ m <= n /\ ~ \E g : Computes(g, m)
        BY <3>2
      <3>4. m # 0
        <4>1. Computes([i \in 1 .. 0 |-> <<>>], 0)
          OBVIOUS
        <4> QED
          BY <3>3, <4>1
      <3>5. m - 1 \in Nat /\ m - 1 <= n /\ ~ (m <= m - 1)
        BY <3>3, <3>4
      <3>6. m - 1 \notin T
        BY <3>2, <3>5
      <3>7. PICK g : Computes(g, m - 1)
        BY <3>5, <3>6
      <3> DEFINE h == [i \in 1 .. m |-> IF i = m THEN Def(g, m) ELSE g[i]]
      <3>8. ASSUME NEW i \in 1 .. m PROVE h[i] = Def(h, i)
        <4>1. i # 1 => i - 1 \in 1 .. m /\ i - 1 # m /\ h[i - 1] = g[i - 1]
          BY <3>3
        <4>2. i # m => i \in 1 .. m - 1 /\ h[i] = g[i]
          BY <3>3
        <4>3. i # m => g[i] = Def(g, i)
          BY <3>7, <4>2
        <4>4. Def(h, i) = Def(g, i)
          BY <4>1
        <4>5. i = m => h[i] = Def(g, i)
          OBVIOUS
        <4> QED
          BY <4>2, <4>3, <4>4, <4>5
      <3>9. Computes(h, m)
        BY <3>8
      <3> QED
        BY <3>3, <3>9
    <2>3. n <= n
      OBVIOUS
    <2> HIDE DEF Computes
    <2>4. PICK g : Computes(g, n)
      BY <2>2, <2>3
    <2> USE DEF Computes
    <2>5. g = [i \in 1 .. n |-> Def(g, i)]
      BY <2>4
    <2>6. flatten = [i \in 1 .. n |-> Def(flatten, i)]
      BY <1>1, <2>5
    <2> HIDE DEF flatten
    <2>7. \A i \in 1 .. n : flatten[i] = Def(flatten, i)
      BY <2>6
    <2>8. \A i \in 1 .. n : flatten[i] \in Seq(S)
      <3> DEFINE T == {i \in 1 .. n : flatten[i] \notin Seq(S)}
      <3> SUFFICES ASSUME T # {} PROVE FALSE
        OBVIOUS
      <3>1. T \in SUBSET Nat
        OBVIOUS
      <3>2. PICK i \in T : \A k \in T : i <= k
        BY <3>1, LeastNumber
      <3>3. i \in 1 .. n /\ flatten[i] = Def(flatten, i) /\ flatten[i] \notin Seq(S)
        BY <2>7, <3>2
      <3>4. i # 1
        BY <1>1, <3>3
      <3>5. i - 1 \in 1 .. n /\ ~ (i <= i - 1)
        BY <3>3, <3>4
      <3>6. flatten[i - 1] \in Seq(S)
        BY <3>2, <3>5
      <3>7. flatten[i] = flatten[i - 1] \o parts[i]
        BY <3>3, <3>4
      <3>8. flatten[i - 1] \o parts[i] \in Seq(S)
        BY <1>1, <3>3, <3>6, ConcatProperties
      <3> QED
        BY <3>3, <3>7, <3>8
    <2> QED
      BY <1>1, <1>3, <2>1, <2>8
  <1> QED
    BY <1>2, <1>3

LEMMA RenderedFits ==
  ASSUME NEW s \in RuleSets, validate(s) = {}
  PROVE  Fit(render(s))
  <1> DEFINE flat == FlattenSeq(statements_of(s))
             text == <<BlockAll>> \o flat
             parts == UNION {Range(statements_of(s)[i]) : i \in DOMAIN statements_of(s)}
  <1>1. flat \in Seq(parts)
    <2>1. PICK n \in Nat : DOMAIN s.rules = 1 .. n
      BY RuleSetAssumption, LenProperties
    <2>2. ASSUME NEW i \in 1 .. n PROVE statements_of(s)[i] \in Seq(parts)
      <3>1. statements_of(s)[i] = append_rule(s.rules[i]) /\ i \in DOMAIN statements_of(s)
        BY <2>1 DEF statements_of
      <3>2. Range(append_rule(s.rules[i])) \subseteq parts
        BY <3>1
      <3> QED
        BY <3>1, <3>2, AppendRuleIsSeq
    <2>3. statements_of(s) \in [1 .. n -> Seq(parts)]
      BY <2>1, <2>2 DEF statements_of
    <2>4. statements_of(s) \in Seq(Seq(parts))
      BY <2>3, SeqDef
    <2> QED
      BY <2>4, FlattenGives
  <1> HIDE DEF flat
  <1>2. /\ text[1] = BlockAll
        /\ \A i \in 2 .. Len(text) : text[i] \in parts
    BY <1>1
  <1>3. ASSUME NEW t \in parts
        PROVE  /\ t # Stray /\ OneFamily(t)
               /\ t.source.port \/ t.destination.port => t.protocol \in {"tcp", "udp"}
    <2>1. PICK i \in DOMAIN s.rules : t \in Range(append_rule(s.rules[i]))
      BY <1>3 DEF statements_of
    <2>2. validate_rule(s.rules[i]) = {}
      BY DEF validate
    <2>3. s.rules[i].address_family \in AddressFamilies
      BY RuleSetAssumption
    <2> QED
      BY <2>1, <2>2, <2>3, StatementFits
  <1>4. s.revision \in Nat /\ s.revision # 0
    BY NumberOfValid, RuleSetAssumption DEF RevisionNumbers
  <1>5. render(s).revision = s.revision /\ render(s).statements = text
    BY DEF render, flat
  <1> HIDE DEF text, parts
  <1> QED
    BY <1>2, <1>3, <1>4, <1>5 DEF Fit

(***************************************************************************)
(* A candidate is fit for pfctl whatever rule set was asked for, and a     *)
(* revision carries the number it is stored under (pf_renderer.cpp,        *)
(* model.cpp).                                                             *)
(***************************************************************************)
THEOREM CandidatesStayFit == Spec => []CandidatesAreFit
  <1>1. ASSUME PreparationInv PROVE CandidatesAreFit
    <2>1. ASSUME NEW o \in OperationIds, candidates[o] \in Rulesets PROVE Fit(candidates[o])
      <3>1. candidates[o] # NoFile
        BY <2>1, FileAssumption
      <3>2. PICK s \in RuleSets :
               validate(s) = {} /\ candidates[o] \in {render(s), Partial(render(s))}
        BY <1>1, <3>1 DEF PreparationInv, CandidateInv
      <3>3. PICK x \in RuleSets : candidates[o] = render(x)
        BY <2>1 DEF Rulesets
      <3>4. render(x) # Partial(render(s))
        BY DEF render, Partial
      <3> QED
        BY <3>2, <3>3, <3>4, RenderedFits
    <2>2. \A r \in RevisionNumbers : published[r] # NoFile => published[r].revision = r
      BY <1>1 DEF PreparationInv, RevisionInv
    <2> QED
      BY <2>1, <2>2 DEF CandidatesAreFit
  <1> QED
    BY <1>1, PreparationInit, PreparationStep, PTL DEF Spec
=============================================================================
