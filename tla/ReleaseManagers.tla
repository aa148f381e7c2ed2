---------------------------- MODULE ReleaseManagers ---------------------------
(***************************************************************************)
(* The rules of the managers that gate a release: engineering.py and       *)
(* assurance.py.  A path is the sequence of its parts.                     *)
(***************************************************************************)
EXTENDS ManagerControls

(* engineering.py: workspaces are [id, allowed, protected, dependencies,   *)
(* deployment] and change sets [id, workspace, paths, checks, cites,       *)
(* dependencies, config, destructive].                                     *)
Relative(path) == ".." \notin ToSet(path)

EngineeringValid(r) ==
  /\ \A path \in r.workspace.allowed \cup r.workspace.protected \cup r.change.paths : Relative(path)
  /\ ~r.workspace.deployment
  /\ r.change.cites \subseteq DOMAIN r.evidence
  /\ r.workspace.id = r.change.workspace

Within(path, root) == IsPrefix(root, path)

Confined(workspace, change) ==
  \A path \in change.paths :
    /\ \E root \in workspace.allowed : Within(path, root)
    /\ ~\E root \in workspace.protected : Within(path, root)

(* Each check is the outcome of one run: passed or not.                    *)
Checked(change) == DOMAIN change.checks # {} /\ \A k \in DOMAIN change.checks : change.checks[k]

EngineeringDraft(workspace, change) ==
  [workspace |-> workspace.id, change |-> change.id,
   gate |-> IF /\ Confined(workspace, change)
               /\ change.dependencies => workspace.dependencies
               /\ ~change.config /\ ~change.destructive
               /\ Checked(change)
            THEN "ready_for_pr_review" ELSE "blocked"]

-----------------------------------------------------------------------------
(* assurance.py: snapshots are [artifact, version, day, accuracy,          *)
(* citations, unsupported, latency, cost, secure, cases, cites], measures  *)
(* in percent; a policy bounds them.                                       *)
AssuranceValid(r) ==
  /\ r.baseline.artifact = r.candidate.artifact
  /\ r.baseline.version # r.candidate.version
  /\ Cited(r.baseline.cites, r.evidence) /\ Cited(r.candidate.cites, r.evidence)

(* _percent_change: any growth from zero is infinite.                      *)
WithinRegression(before, after, limit) ==
  IF before = 0 THEN after = 0 ELSE (after - before) * 100 <= limit * before

Due(r) == r.candidate.day + r.policy.cadence

Overdue(r, day) == day > Due(r)

Meets(r) ==
  /\ r.candidate.cases >= r.policy.cases
  /\ r.candidate.accuracy >= r.policy.accuracy
  /\ r.candidate.citations >= r.policy.citations
  /\ r.candidate.unsupported <= r.policy.unsupported
  /\ WithinRegression(r.baseline.latency, r.candidate.latency, r.policy.latency)
  /\ WithinRegression(r.baseline.cost, r.candidate.cost, r.policy.cost)
  /\ \A s \in DOMAIN r.candidate.secure : r.candidate.secure[s]

AssuranceDraft(r, day) ==
  [artifact |-> r.candidate.artifact,
   decision |-> IF Meets(r) /\ ~Overdue(r, day) THEN "pass" ELSE "block",
   due |-> Due(r), overdue |-> Overdue(r, day)]
=============================================================================
